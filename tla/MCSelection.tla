----------------------------- MODULE MCSelection -----------------------------
(* Selection on small texts: a row beyond the margin, a short and an empty *)
(* row, and a text of one row.                                             *)
EXTENDS Selection

CONSTANTS a, b, c

MCTexts ==
  {<< <<a, b, c>>, <<>>, <<b, c>> >>, << <<c, a, b>>, <<b>> >>, << <<a>> >>}
=============================================================================
