------------------------------ MODULE KnownHosts ------------------------------
(***************************************************************************)
(* Trust on first use, crates/client/src/known_hosts.rs as used by         *)
(* run_inner and check_server_key in ssh.rs.  Every connection loads the   *)
(* file into a store of its own, checks the presented key against that     *)
(* copy, and after the handshake writes its whole copy back, which         *)
(* std::fs::write does in two steps: it truncates the file, then writes    *)
(* bytes from its start.  Several connections run at a time, one per tab.  *)
(*                                                                         *)
(* The file is a sequence of lines <<address, fingerprint>>.  How long the *)
(* names are is left open: it decides where a text that is written over a  *)
(* longer one ends, which may be in the middle of a line.                  *)
(***************************************************************************)
EXTENDS Integers, FiniteSets, Sequences, SequencesExt

CONSTANTS
  Addrs,         \* host:port, and what else may stand before a fingerprint
  Ends,          \* Ends[a]: the addresses that are the end of the text of a,
                 \* as 10.0.0.1:22 is of 110.0.0.1:22
  Keys,          \* fingerprints
  Damaged,       \* what stands after an address whose fingerprint was cut
  Conns,         \* connections that may be open at a time
  MaxConnects,   \* bound: connections started
  MaxFaults      \* bound: failed saves and ends of the process

ASSUME AddrsAssumption ==
  /\ IsFiniteSet(Addrs) /\ Ends \in [Addrs -> SUBSET Addrs]
  /\ \A a \in Addrs : \A e \in Ends[a] : Ends[e] \subseteq Ends[a]

ASSUME DamagedAssumption == Damaged \notin Keys

ASSUME BoundsAssumption == MaxConnects \in Nat /\ MaxFaults \in Nat

VARIABLES
  file,        \* the lines of the file
  presents,    \* [Addrs -> Keys]: the key the host has now
  conns,       \* [Conns -> Conn]
  connects,    \* number of connections so far
  faults,      \* number of faults so far
  had,         \* history: the keys that the host at an address has had
  accepted,    \* history: <<address, key>> of completed handshakes
  recorded,    \* history: those whose connection has ended its save
  overlapped   \* history: another connection or the user touched the file
               \* between some connection's load and the end of its save

vars == <<file, presents, conns, connects, faults, had, accepted, recorded,
          overlapped>>

Line == Addrs \X (Keys \cup {Damaged})

(* KnownHosts::entries: for each address at most one fingerprint.          *)
Entries == {e \in SUBSET (Keys \cup {Damaged}) : \A k, l \in e : k = l}

Store == [Addrs -> Entries]

(* What is left of a connection once its save is over is not modelled      *)
(* here; a connection that was refused stays to be looked at.              *)
Conn ==
       [pc: {"idle"}]
  \cup [pc: {"check", "handshake", "save", "truncated", "refused"},
        addr: Addrs, store: Store]

Idle == [pc |-> "idle"]

TypeOK ==
  /\ file \in Seq(Line)
  /\ presents \in [Addrs -> Keys]
  /\ conns \in [Conns -> Conn]
  /\ connects \in 0..MaxConnects
  /\ faults \in 0..MaxFaults
  /\ had \in [Addrs -> SUBSET Keys]
  /\ accepted \subseteq Addrs \X Keys
  /\ recorded \subseteq Addrs \X Keys
  /\ overlapped \in BOOLEAN

Init ==
  /\ file = <<>>
  /\ presents \in [Addrs -> Keys]
  /\ conns = [c \in Conns |-> Idle]
  /\ connects = 0
  /\ faults = 0
  /\ had = [a \in Addrs |-> {presents[a]}]
  /\ accepted = {}
  /\ recorded = {}
  /\ overlapped = FALSE

(* Connections between their load and the end of their save.               *)
Active == {c \in Conns : conns[c].pc \notin {"idle", "refused"}}

-----------------------------------------------------------------------------
(* The fingerprints on the last line of an address: a later one overrides  *)
(* the earlier ones.                                                       *)
Loaded(lines) ==
  [a \in Addrs |->
     {lines[i][2] : i \in {i \in DOMAIN lines :
        lines[i][1] = a /\ \A j \in DOMAIN lines : lines[j][1] = a => j <= i}}]

(* KnownHosts::load, at the start of run_inner.                            *)
Load(c, a) ==
  /\ conns[c].pc \in {"idle", "refused"}
  /\ connects < MaxConnects /\ connects' = connects + 1
  /\ conns' = [conns EXCEPT ![c] = [pc |-> "check", addr |-> a, store |-> Loaded(file)]]
  /\ overlapped' = (overlapped \/ Active # {})
  /\ UNCHANGED <<file, presents, faults, had, accepted,
                 recorded>>

(* Mutants: the entries of all addresses are looked at; a changed key is   *)
(* added to the recorded one.                                              *)
CheckAnyAddr(c) ==
  LET key == presents[conns[c].addr]
      known == UNION {conns[c].store[a] : a \in Addrs}
  IN  /\ conns[c].pc = "check"
      /\ conns' = [conns EXCEPT ![c] =
           IF known \subseteq {key}
           THEN [@ EXCEPT !.pc = "handshake", !.store[conns[c].addr] = {key}]
           ELSE [@ EXCEPT !.pc = "refused"]]
      /\ UNCHANGED <<file, presents, connects, faults, had, accepted,
                     recorded, overlapped>>

CheckAppends(c) ==
  /\ conns[c].pc = "check"
  /\ conns' = [conns EXCEPT ![c].pc = "handshake",
               ![c].store[conns[c].addr] = @ \cup {presents[conns[c].addr]}]
  /\ UNCHANGED <<file, presents, connects, faults, had, accepted,
                 recorded, overlapped>>

(* check_server_key: a new key is added to the connection's own store, a   *)
(* recorded one must match.                                                *)
CheckServerKey(c) ==
  LET addr == conns[c].addr
      key == presents[addr]
      known == conns[c].store[addr]
  IN  /\ conns[c].pc = "check"
      /\ conns' = [conns EXCEPT ![c] =
           IF known \subseteq {key}
           THEN [pc |-> "handshake", addr |-> addr,
                 store |-> [conns[c].store EXCEPT ![addr] = {key}]]
           ELSE [@ EXCEPT !.pc = "refused"]]
      /\ UNCHANGED <<file, presents, connects, faults, had, accepted,
                     recorded, overlapped>>

(* The rest of the key exchange fails: nothing is saved.                   *)
ConnectFails(c) ==
  /\ conns[c].pc \in {"check", "handshake"}
  /\ conns' = [conns EXCEPT ![c] = Idle]
  /\ UNCHANGED <<file, presents, connects, faults, had, accepted,
                 recorded, overlapped>>

(* Mutant: the store is not saved.                                         *)
ConnectedNoSave(c) ==
  /\ conns[c].pc = "handshake"
  /\ conns' = [conns EXCEPT ![c] = Idle]
  /\ accepted' = accepted \cup
       ({conns[c].addr} \X conns[c].store[conns[c].addr])
  /\ UNCHANGED <<file, presents, connects, faults, had, recorded,
                 overlapped>>

(* connect returns: the user now talks to the host that showed this key.   *)
Connected(c) ==
  /\ conns[c].pc = "handshake"
  /\ conns' = [conns EXCEPT ![c].pc = "save"]
  /\ accepted' = accepted \cup
       ({conns[c].addr} \X conns[c].store[conns[c].addr])
  /\ UNCHANGED <<file, presents, connects, faults, had, recorded,
                 overlapped>>

-----------------------------------------------------------------------------
(* KnownHosts::save: every connection saves, also one with nothing new.    *)
Truncate(c) ==
  /\ conns[c].pc = "save"
  /\ file' = <<>>
  /\ conns' = [conns EXCEPT ![c].pc = "truncated"]
  /\ UNCHANGED <<presents, connects, faults, had, accepted, recorded,
                 overlapped>>

(* The lines of a store, in any order, as those of a HashMap.              *)
Contents(store) == SetToSeqs({l \in Line : l[2] \in store[l[1]]})

(* What is left of lines whose first bytes are overwritten: the last ones, *)
(* and the end of the line before them, which may read as another address. *)
(* Any line may be the one that is cut: more than lengths would allow.     *)
Remains(lines) ==
  {<<>>} \cup UNION {
    LET rest == SubSeq(lines, i + 1, Len(lines))
    IN  {rest} \cup {<< <<e, lines[i][2]>> >> \o rest : e \in Ends[lines[i][1]]}
    : i \in DOMAIN lines}

(* The lines of the store are written from the start of the file.  If      *)
(* another connection wrote since the truncation, the end of its longer    *)
(* text stays behind this one's and takes precedence at the next load.     *)
WriteStore(c) ==
  LET mine == conns[c].store
  IN  /\ conns[c].pc = "truncated"
      /\ \E lines \in Contents(mine), rest \in Remains(file) :
           file' = lines \o rest
      /\ conns' = [conns EXCEPT ![c] = Idle]
      /\ recorded' = recorded \cup ({conns[c].addr} \X mine[conns[c].addr])
      /\ UNCHANGED <<presents, connects, faults, had, accepted, overlapped>>

(* The line where a write stopped: gone, without its whole fingerprint, or *)
(* an address of two pieces with the fingerprint of a line that was there. *)
Broken(lines, old) ==
  {<<>>} \cup {<< <<lines[i][1], Damaged>> >> : i \in DOMAIN lines}
         \cup {<< <<a, old[i][2]>> >> : a \in Addrs, i \in DOMAIN old}

(* The file cannot be opened, or the disk is full before everything is     *)
(* written.  The result is ignored.                                        *)
SaveFails(c) ==
  /\ faults < MaxFaults /\ faults' = faults + 1
  /\ \/ conns[c].pc = "save" /\ UNCHANGED file
     \/ /\ conns[c].pc = "truncated"
        /\ \E lines \in Contents(conns[c].store), rest \in Remains(file) :
             \E n \in 0..Len(lines), broken \in Broken(lines, file) :
               file' = SubSeq(lines, 1, n) \o broken \o rest
  /\ conns' = [conns EXCEPT ![c] = Idle]
  /\ UNCHANGED <<presents, connects, had, accepted, recorded, overlapped>>

(* The process ends, before or between the two steps of any save.          *)
Crash ==
  /\ faults < MaxFaults /\ faults' = faults + 1
  /\ conns' = [c \in Conns |-> Idle]
  /\ UNCHANGED <<file, presents, connects, had, accepted, recorded,
                 overlapped>>

-----------------------------------------------------------------------------
(* A host gets another key.                                                *)
KeyChanges(a, k) ==
  /\ k # presents[a]
  /\ presents' = [presents EXCEPT ![a] = k]
  /\ had' = [had EXCEPT ![a] = @ \cup {k}]
  /\ UNCHANGED <<file, conns, connects, faults, accepted, recorded,
                 overlapped>>

(* "delete the known_hosts entry to forget the old key".                   *)
UserForgets(i) ==
  /\ file' = RemoveAt(file, i)
  /\ accepted' = {p \in accepted : p[1] # file[i][1]}
  /\ recorded' = {p \in recorded : p[1] # file[i][1]}
  /\ overlapped' = (overlapped \/ Active # {})
  /\ UNCHANGED <<presents, conns, connects, faults, had>>

ConnStep(c) ==
  \/ \E a \in Addrs : Load(c, a)
  \/ CheckServerKey(c) \/ ConnectFails(c) \/ Connected(c)
  \/ Truncate(c) \/ WriteStore(c) \/ SaveFails(c)

Next ==
  \/ \E c \in Conns : ConnStep(c)
  \/ Crash
  \/ \E a \in Addrs, k \in Keys : KeyChanges(a, k)
  \/ \E i \in DOMAIN file : UserForgets(i)

Spec == Init /\ [][Next]_vars
-----------------------------------------------------------------------------
OneKeyPerAddress ==
  \A p, q \in accepted : p[1] = q[1] => p[2] = q[2]

(* What trust on first use gives here: as long as no connection started    *)
(* and no user edited the file between another connection's load and the   *)
(* end of its save, and no save failed, all handshakes ever completed with *)
(* an address showed the same key, whatever keys the host took meanwhile.  *)
TofuWithoutOverlap == ~overlapped /\ faults = 0 => OneKeyPerAddress

(* An address, and those whose text ends in it.                            *)
EndingIn(a) == {a} \cup {b \in Addrs : a \in Ends[b]}

(* Overlapping saves lose entries, and may take one address for another,   *)
(* but only for one it ends in: unless a save failed, whoever is refused   *)
(* showed another key than the one that was recorded, and that one was the *)
(* host's own at some time, or that of a host whose address ends in its.   *)
(* So nobody is refused whose key never changed and whose address is the   *)
(* end of no other.                                                        *)
RefusalHasCause ==
  \A c \in Conns : conns[c].pc = "refused" /\ faults = 0 =>
    LET addr == conns[c].addr
    IN  \E k \in conns[c].store[addr], l \in had[addr] :
          k # l /\ \E b \in EndingIn(addr) : k \in had[b]

(* "On first connect to a host the server key fingerprint is recorded; on  *)
(* later connects the fingerprint must match" (known_hosts.rs), on a disk  *)
(* that does not fail: a connection that starts after another to the same  *)
(* address has ended its save finds that key in the file.  A connection to *)
(* any address that loaded before that save writes its older copy over it, *)
(* and one that loads while another saves finds the file empty.            *)
LaterConnectsFindKey ==
  [][\A c \in Conns : \A p \in recorded :
       conns[c].pc # "check" /\ conns'[c].pc = "check" /\ faults = 0
         /\ conns'[c].addr = p[1]
       => p[2] \in conns'[c].store[p[1]]]_vars
=============================================================================
