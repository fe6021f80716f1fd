------------------------------- MODULE Sessions -------------------------------
(***************************************************************************)
(* SSH sessions as tabs, crates/client/src/app.rs and run_session in       *)
(* ssh.rs.  The UI thread keeps a list of sessions and the index of the    *)
(* active one; each session has a task that talks to the remote side and   *)
(* is reached through channels only.  pump, called by a timer and at the   *)
(* end of most callbacks, drains the channels, drops what has ended, and   *)
(* redraws what it believes has changed.                                   *)
(*                                                                         *)
(* A callback with its pump is one step: pump reads what tasks have sent   *)
(* so far, and what they send during a pump is as if sent after it.        *)
(*                                                                         *)
(* Tabs are counted from 1, and 0 is None.                                 *)
(***************************************************************************)
EXTENDS Integers, Sequences, FiniteSets

CONSTANTS
  Sizes,         \* what pty_size_from_ui may return
  MaxSessions,   \* bound: sessions opened
  MaxEvents      \* bound: chunks of output, keys, and changes of the size

ASSUME SessionBounds == MaxSessions \in Nat /\ MaxEvents \in Nat

Ids == 1..MaxSessions

VARIABLES
  sessions,      \* UiState.sessions
  active,        \* UiState.active
  tabs_dirty,    \* UiState.tabs_dirty
  ui,            \* the properties of the window that pump and callbacks set
  size,          \* the size the terminal widget has now
  tasks,         \* [Ids -> Task]: run_session and the channels to and from it
  opened,        \* number of sessions opened so far
  events,        \* number of outputs, keys and changes of size so far
  owed           \* history: [Ids -> keys typed while the pane had its name,
                 \*               less those its remote side was sent]

vars == <<sessions, active, tabs_dirty, ui, size, tasks, opened, events, owed>>

(* The buffer is known by the chunks fed to it and how many of them had    *)
(* been fed when it was last cleared; it has the size pty_size.            *)
ActiveSession ==
  [id: Ids, fed: 0..MaxEvents, cleared: 0..MaxEvents, pty_size: Sizes,
   connected: BOOLEAN, dirty: BOOLEAN]

Option(S) == {{}} \cup {{x} : x \in S}

(* status, output (a number of chunks), resize and input (a number of      *)
(* keys) are what is in the session's channels; remote is the size of the  *)
(* remote pty.                                                             *)
Task ==
  [pc: {"none", "connecting", "connected", "over"},
   status: SUBSET {"Connected", "Ended"}, output: 0..MaxEvents,
   resize: Seq(Sizes), remote: Option(Sizes),
   input: 0..MaxEvents]

Text == [id: Ids, cleared: 0..MaxEvents, fed: 0..MaxEvents, size: Sizes]

TypeOK ==
  /\ sessions \in Seq(ActiveSession)
  /\ active \in 0..Len(sessions)
  /\ tabs_dirty \in BOOLEAN
  /\ ui \in [text: Option(Text), label: {0} \cup Ids,
             connected: BOOLEAN, tabs: Seq([id: Ids, connected: BOOLEAN]),
             active_tab: 0..MaxSessions]
  /\ size \in Sizes
  /\ tasks \in [Ids -> Task]
  /\ opened \in 0..MaxSessions
  /\ events \in 0..MaxEvents
  /\ owed \in [Ids -> 0..MaxEvents]

NoTask ==
  [pc |-> "none", status |-> {}, output |-> 0, resize |-> <<>>, remote |-> {},
   input |-> 0]

Nothing ==
  [text |-> {}, label |-> 0, connected |-> FALSE, tabs |-> <<>>, active_tab |-> 0]

Init ==
  /\ sessions = <<>>
  /\ active = 0
  /\ tabs_dirty = FALSE
  /\ ui = Nothing
  /\ size \in Sizes
  /\ tasks = [id \in Ids |-> NoTask]
  /\ opened = 0
  /\ events = 0
  /\ owed = [id \in Ids |-> 0]

OpenIds == {sessions[i].id : i \in DOMAIN sessions}

-----------------------------------------------------------------------------
(* Mutant: the removed tabs before the active one are not counted.         *)
RecomputeIgnoresRemoved(prev, removed_before, len) ==
  IF prev \in 1..len THEN prev ELSE len

(* recompute_active, after sessions were removed.                          *)
recompute_active(prev, removed_before, len) ==
  LET a == IF prev - removed_before < 1 THEN 1 ELSE prev - removed_before
  IN  IF prev = 0 \/ a > len THEN len ELSE a

(* render, where a buffer to which nothing was fed looks like no text.     *)
Rendered(s) ==
  IF s.fed = s.cleared THEN {}
  ELSE {[id |-> s.id, cleared |-> s.cleared, fed |-> s.fed, size |-> s.pty_size]}

(* refresh_tabs_from and the rest of what tabs_dirty leads to.             *)
Chrome(ss, act) ==
  LET tabs == [i \in DOMAIN ss |-> [id |-> ss[i].id, connected |-> ss[i].connected]]
  IN  IF act = 0
      THEN [Nothing EXCEPT !.tabs = tabs]
      ELSE [text |-> Rendered(ss[act]), label |-> ss[act].id,
            connected |-> ss[act].connected, tabs |-> tabs, active_tab |-> act]

(* pump drains what the task of s has sent.                                *)
Drained(s) ==
  LET t == tasks[s.id]
  IN  [s EXCEPT !.fed = @ + t.output, !.dirty = @ \/ t.output > 0,
                !.connected = @ \/ "Connected" \in t.status]

Ended(s) == "Ended" \in tasks[s.id].status

(* A connected session follows the size of the widget.                     *)
Outgrown(s) == s.connected /\ s.pty_size # size

Resized(s) ==
  IF Outgrown(s) THEN [s EXCEPT !.pty_size = size, !.dirty = TRUE] ELSE s

(* Whether the session with this id is among ss and is sized.              *)
Sized(id, ss) == \E i \in DOMAIN ss : ss[i].id = id /\ Outgrown(ss[i])

(* Mutant: output is looked at, and stays in its channel.                  *)
ServedKeepsOutput(tsk, ss, kept) ==
  [id \in Ids |->
     IF \A i \in DOMAIN ss : ss[i].id # id THEN tsk[id]
     ELSE [tsk[id] EXCEPT !.status = {},
             !.resize = IF Sized(id, kept) THEN Append(@, size) ELSE @]]

(* What draining the sessions ss, and sizing those that are kept, does to  *)
(* the channels of the tasks, which tsk holds.                             *)
Served(tsk, ss, kept) ==
  [id \in Ids |->
     IF \A i \in DOMAIN ss : ss[i].id # id THEN tsk[id]
     ELSE [tsk[id] EXCEPT !.status = {}, !.output = 0,
             !.resize = IF Sized(id, kept) THEN Append(@, size) ELSE @]]

(* The indexes in S, the smallest first.                                   *)
InOrder(S) ==
  CHOOSE f \in [1..Cardinality(S) -> S] : \A i, j \in DOMAIN f : i < j => f[i] < f[j]

(* The sessions that have ended, those that have not, and the index of the *)
(* active one among the latter.                                            *)
Gone(ss) == {i \in DOMAIN ss : Ended(ss[i])}

Kept(ss) ==
  LET left == IF Gone(ss) = {} THEN [i \in DOMAIN ss |-> i]
              ELSE InOrder(DOMAIN ss \ Gone(ss))
  IN  [i \in DOMAIN left |-> Drained(ss[left[i]])]

ActiveKept(ss, act) ==
  IF Gone(ss) = {} THEN act
  ELSE recompute_active(act, Cardinality({i \in Gone(ss) : i < act}),
                        Cardinality(DOMAIN ss \ Gone(ss)))

(* pump, up to the tab bar, where kept are the sessions that stay and now  *)
(* is the index of the active one, and what it then shows.                 *)
PumpSessions(tsk, ss, kept, now) ==
  /\ sessions' = [i \in DOMAIN kept |->
                    IF i = now THEN [Resized(kept[i]) EXCEPT !.dirty = FALSE]
                    ELSE Resized(kept[i])]
  /\ active' = now
  /\ tabs_dirty' = FALSE
  /\ tasks' = Served(tsk, ss, kept)

Redrawn(kept, now, redo) ==
  LET sized == [i \in DOMAIN kept |-> Resized(kept[i])]
  IN  IF redo THEN Chrome(sized, now)
      ELSE IF now # 0 /\ sized[now].dirty
      THEN [ui EXCEPT !.text = Rendered(sized[now])] ELSE ui

AnyConnected(ss) == \E i \in DOMAIN ss : "Connected" \in tasks[ss[i].id].status

(* Mutant: sessions that ended do not set tabs_dirty.                      *)
PumpForgetsTabs(tsk, ss, act, dirty) ==
  \E kept \in {Kept(ss)}, now \in {ActiveKept(ss, act)} :
    /\ PumpSessions(tsk, ss, kept, now)
    /\ ui' = Redrawn(kept, now, dirty \/ AnyConnected(ss))

(* pump, on the sessions ss, of which act is active, and their tasks tsk.  *)
pump(tsk, ss, act, dirty) ==
  \E kept \in {Kept(ss)}, now \in {ActiveKept(ss, act)} :
    /\ PumpSessions(tsk, ss, kept, now)
    /\ ui' = Redrawn(kept, now, dirty \/ AnyConnected(ss) \/ Gone(ss) # {})

(* Dropping a session aborts its task and closes its channels, but not the *)
(* write_task of a connected one, which writes what was typed before.      *)
Aborted(ids) ==
  [id \in Ids |->
     LET t == tasks[id]
     IN  IF id \notin ids THEN t
         ELSE [NoTask EXCEPT !.pc = "over",
                             !.input = IF t.pc = "connected" THEN t.input ELSE 0]]

-----------------------------------------------------------------------------
(* Callbacks and the timer.                                                *)

Timer ==
  /\ pump(tasks, sessions, active, tabs_dirty)
  /\ UNCHANGED <<size, opened, events, owed>>

(* handle_connect of a host in the list.                                   *)
Connect ==
  LET id == opened + 1
      new == [id |-> id, fed |-> 0, cleared |-> 0, pty_size |-> size,
              connected |-> FALSE, dirty |-> FALSE]
  IN  /\ opened < MaxSessions /\ opened' = id
      /\ pump([tasks EXCEPT ![id] = [NoTask EXCEPT !.pc = "connecting",
                                                   !.remote = {size}]],
              Append(sessions, new), Len(sessions) + 1, TRUE)
      /\ UNCHANGED <<size, events, owed>>

(* on_select_tab of the i-th tab the user sees.                            *)
SelectTab(i) ==
  /\ i \in DOMAIN ui.tabs /\ i <= Len(sessions)
  /\ pump(tasks, sessions, i, TRUE)
  /\ UNCHANGED <<size, opened, events, owed>>

(* on_close_tab of the i-th tab the user sees, or Disconnect.              *)
CloseTab(i) ==
  LET before == IF i < active THEN 1 ELSE 0
      rest == SubSeq(sessions, 1, i - 1) \o SubSeq(sessions, i + 1, Len(sessions))
  IN  /\ i \in DOMAIN ui.tabs /\ i <= Len(sessions)
      /\ pump(Aborted({sessions[i].id}), rest,
              IF active = 0 THEN 0 ELSE recompute_active(active, before, Len(rest)),
              TRUE)
      /\ UNCHANGED <<size, opened, events, owed>>

(* Mutant: the name of the last session stays.                             *)
LogoutKeepsChrome ==
  /\ sessions' = <<>> /\ active' = 0 /\ tabs_dirty' = FALSE
  /\ ui' = [Nothing EXCEPT !.label = ui.label]
  /\ tasks' = Aborted(OpenIds)
  /\ UNCHANGED <<size, opened, events, owed>>

(* on_logout_clicked, as far as sessions go.                               *)
Logout ==
  /\ sessions' = <<>> /\ active' = 0 /\ tabs_dirty' = TRUE
  /\ ui' = Nothing
  /\ tasks' = Aborted(OpenIds)
  /\ UNCHANGED <<size, opened, events, owed>>

(* on_clear_terminal_clicked: without a pump.                              *)
Clear ==
  /\ IF active \in DOMAIN sessions
     THEN sessions' = [sessions EXCEPT ![active] =
                         [@ EXCEPT !.cleared = sessions[active].fed, !.dirty = TRUE]]
     ELSE UNCHANGED sessions
  /\ ui' = [ui EXCEPT !.text = {}]
  /\ UNCHANGED <<active, tabs_dirty, size, tasks, opened, events, owed>>

Event == events < MaxEvents /\ events' = events + 1

(* The window is resized, or the font's height is measured.                *)
WindowResized(z) ==
  /\ z # size /\ size' = z
  /\ Event
  /\ UNCHANGED <<sessions, active, tabs_dirty, ui, tasks, opened, owed>>

(* The task has not ended, so that its end of the channel is there.        *)
Listens(id) == tasks[id].pc \in {"connecting", "connected"}

Keyed(id) ==
  tasks' = IF Listens(id) THEN [tasks EXCEPT ![id].input = @ + 1] ELSE tasks

(* Mutant: the session that was opened last gets it.                       *)
TypeToLast ==
  /\ active \in DOMAIN sessions /\ Keyed(sessions[Len(sessions)].id)
  /\ owed' = [id \in Ids |-> IF id = ui.label THEN owed[id] + 1 ELSE owed[id]]
  /\ Event
  /\ UNCHANGED <<sessions, active, tabs_dirty, ui, size, opened>>

(* on_term_key, on_send_button or on_paste, with bytes to send: the active *)
(* session gets them.                                                      *)
Type ==
  /\ active \in DOMAIN sessions /\ Keyed(sessions[active].id)
  /\ owed' = [id \in Ids |-> IF id = ui.label THEN owed[id] + 1 ELSE owed[id]]
  /\ Event
  /\ UNCHANGED <<sessions, active, tabs_dirty, ui, size, opened>>

-----------------------------------------------------------------------------
(* run_session.                                                            *)

TaskStep(id, new) ==
  /\ tasks' = [tasks EXCEPT ![id] = new]
  /\ UNCHANGED <<sessions, active, tabs_dirty, ui, size, opened>>

(* run_inner up to SessionEvent::Connected: the pty has the size of the    *)
(* time of the click.                                                      *)
Connected(id) ==
  LET t == tasks[id]
  IN  /\ t.pc = "connecting"
      /\ TaskStep(id, [t EXCEPT !.pc = "connected", !.status = @ \cup {"Connected"}])
      /\ UNCHANGED <<events, owed>>

(* An error, or the end of the remote shell.  write_task is aborted, or    *)
(* has failed to write on the connection that broke.                       *)
TaskEnds(id) ==
  LET t == tasks[id]
  IN  /\ t.pc \in {"connecting", "connected"}
      /\ TaskStep(id, [NoTask EXCEPT !.pc = "over", !.output = t.output,
                                     !.status = t.status \cup {"Ended"}])
      /\ UNCHANGED <<events, owed>>

Output(id) ==
  LET t == tasks[id]
  IN  /\ t.pc = "connected"
      /\ TaskStep(id, [t EXCEPT !.output = @ + 1])
      /\ Event /\ UNCHANGED owed

(* Mutant: the latest size is sent first.                                  *)
WindowChangeLast(id) ==
  LET t == tasks[id]
  IN  /\ t.pc = "connected" /\ t.resize # <<>>
      /\ TaskStep(id, [t EXCEPT !.remote = {t.resize[Len(t.resize)]},
                                !.resize = SubSeq(@, 1, Len(@) - 1)])
      /\ UNCHANGED <<events, owed>>

(* The loop receives a size, and sends it before it receives another.      *)
WindowChange(id) ==
  LET t == tasks[id]
  IN  /\ t.pc = "connected" /\ t.resize # <<>>
      /\ TaskStep(id, [t EXCEPT !.remote = {Head(t.resize)}, !.resize = Tail(@)])
      /\ UNCHANGED <<events, owed>>

(* write_task receives a key and writes it.                                *)
WriteKey(id) ==
  LET t == tasks[id]
  IN  /\ t.pc \in {"connected", "over"} /\ t.input > 0
      /\ TaskStep(id, [t EXCEPT !.input = @ - 1])
      /\ owed' = [owed EXCEPT ![id] = @ - 1]
      /\ UNCHANGED events

SessionTask(id) ==
  \/ Connected(id) \/ TaskEnds(id) \/ Output(id) \/ WindowChange(id)
  \/ WriteKey(id)

Next ==
  \/ Timer \/ Connect \/ Logout \/ Clear
  \/ \E i \in Ids : SelectTab(i) \/ CloseTab(i)
  \/ Type \/ \E z \in Sizes : WindowResized(z)
  \/ \E id \in Ids : SessionTask(id)

Spec == Init /\ [][Next]_vars
-----------------------------------------------------------------------------
(* What the user sees.  After every callback, and not only after the next  *)
(* tick, the pane shows the active session: its text at its size, its name *)
(* and whether it is connected, or nothing if there is no session.         *)
PaneShowsActive ==
  LET pane == Chrome(sessions, active)
  IN  /\ active \in DOMAIN sessions \/ (active = 0 /\ sessions = <<>>)
      /\ ui.label = pane.label
      /\ ui.connected = pane.connected
      /\ ui.text = pane.text

(* The tab bar is the list of sessions, so that the index a click sends is *)
(* the session under the pointer, whatever has ended or closed meanwhile.  *)
TabsAreSessions ==
  LET chrome == Chrome(sessions, active)
  IN  ui.tabs = chrome.tabs /\ ui.active_tab = chrome.active_tab

(* When tabs close or sessions end, also several at once, the active       *)
(* session stays active; if it goes itself, its next neighbour to the      *)
(* right that stays takes over, or else the last one.  Only a user who     *)
(* selects or opens a tab makes another session active.                    *)
SurvivorsRight ==
  {i \in DOMAIN sessions :
     i >= active /\ \E j \in DOMAIN sessions' : sessions'[j].id = sessions[i].id}

Followed ==
  LET right == SurvivorsRight
  IN  \/ sessions' = <<>> /\ active' = 0
      \/ right = {} /\ active' = Len(sessions')
      \/ \E i \in right :
           /\ \A j \in right : i <= j
           /\ sessions'[active'].id = sessions[i].id

ActiveFollows == [][~Followed => ~Timer /\ \A i \in Ids : ~CloseTab(i)]_vars

(* A key goes to the session whose name the pane shows when it is typed,   *)
(* also if tabs close or sessions end at any time before or after: the     *)
(* remote side of a session gets no key that was typed for another one,    *)
(* and, unless the session ends, each of its own once, those included that *)
(* were typed while it was connecting.                                     *)
KeysGoWhereShown ==
  \A id \in Ids :
    /\ tasks[id].input <= owed[id]
    /\ Listens(id) => tasks[id].input = owed[id]

(* The size a session's buffer has is the last one on its way to the       *)
(* remote side, or has arrived there: they never end up different.         *)
SizeOnItsWay ==
  \A i \in DOMAIN sessions :
    LET t == tasks[sessions[i].id]
    IN  t.pc # "over" =>
          {sessions[i].pty_size} =
            IF t.resize # <<>> THEN {t.resize[Len(t.resize)]} ELSE t.remote
=============================================================================
