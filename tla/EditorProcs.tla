---------------------------- MODULE EditorProcs -----------------------------
(***************************************************************************)
(* The child processes of the editor extension across its sessions:        *)
(* ManagedChild (one child, its group, and the one path that ends it) and  *)
(* ProcessRegistry (one file per session, which a later session reads to   *)
(* end what a crashed one left).  A session is one extension host; a host  *)
(* may die at any moment.  A pid may be handed to a stranger once its      *)
(* process is gone; the start token tells the two apart.                   *)
(***************************************************************************)
EXTENDS Naturals, FiniteSets

CONSTANTS Hosts,      \* the sessions' extension hosts
          Children    \* the child processes (pids with their start tokens)

\* None of them has a name that stands for none, for a stranger, for no file.
ASSUME ProcsAssumption == Hosts \cap {"none", "stranger"} = {} /\ "absent" \notin Children

VARIABLES
    host,       \* each host: "no", "loading", "up", "dead"
    childOf,    \* each child: the host that spawned it, or "none"
    leader,     \* the direct child: "no", "runs", "gone"
    rest,       \* the rest of its group (the compiled binary): "runs", "gone"
    stranger,   \* the pids a stranger holds now
    ending,     \* the children terminate was called on
    exited,     \* the children whose `exited` has settled
    grace,      \* the children with an armed SIGKILL timer
    current,    \* each host's own records
    inheritedRecs,   \* each host's inherited records: <<file, child>>
    inherited,  \* each host's absorbed files
    toRead,     \* the files a loading host has still to read
    dirty,      \* the hosts with a queued write of their table
    toSettle,   \* each host's inherited files still to reconcile: file -> what remains
    table,      \* each file's records, or Absent
    reaping,    \* the hosts with an armed escalation over the orphans
    hits        \* <<host, child, whose>>: the signals sent, by what they reached

procVars == <<host, childOf, leader, rest, stranger, ending, exited, grace, current, inheritedRecs,
              inherited, toRead, dirty, toSettle, table, reaping, hits>>
childVars == <<childOf, leader, rest, stranger, ending, exited, grace>>
tableVars == <<current, inheritedRecs, inherited, toRead, dirty, toSettle, table>>

Absent == {"absent"}
NoOne == "none"

EditorProcsIn(first) ==
    /\ host = [h \in Hosts |-> first] /\ childOf = [c \in Children |-> NoOne]
    /\ leader = [c \in Children |-> "no"] /\ rest = [c \in Children |-> "gone"]
    /\ stranger = {} /\ ending = {} /\ exited = {} /\ grace = {}
    /\ current = [h \in Hosts |-> {}] /\ inheritedRecs = [h \in Hosts |-> {}]
    /\ inherited = [h \in Hosts |-> {}] /\ toRead = [h \in Hosts |-> {}]
    /\ dirty = {} /\ toSettle = [h \in Hosts |-> {}]
    /\ table = [h \in Hosts |-> Absent] /\ reaping = {} /\ hits = {}

EditorProcsInit == EditorProcsIn("no")

Up(h) == host[h] \in {"loading", "up"}

\* A bare pid, without the token.
Identify_PidOnly(c) == leader[c] = "runs" \/ c \in stranger

\* identify: is the process at this pid the one the record names?
Identify(c) == leader[c] = "runs"

------------------------------------------------------------------------------
\* Activation: the registry starts to load; spawning needs no load.
Activate(h) ==
    /\ host[h] = "no"
    /\ host' = [host EXCEPT ![h] = "loading"]
    /\ toRead' = [toRead EXCEPT ![h] = {f \in Hosts \ {h} : table[f] # Absent}]
    /\ UNCHANGED <<childVars, current, inheritedRecs, inherited, dirty, toSettle, table, reaping,
                   hits>>

\* ManagedChild's constructor: the child is spawned in its own group and
\* recorded; the write of the record is queued.
Spawn(h, c) ==
    /\ Up(h) /\ leader[c] = "no"
    /\ leader' = [leader EXCEPT ![c] = "runs"] /\ rest' = [rest EXCEPT ![c] = "runs"]
    /\ childOf' = [childOf EXCEPT ![c] = h]
    /\ current' = [current EXCEPT ![h] = @ \cup {c}]
    /\ dirty' = dirty \cup {h}
    /\ UNCHANGED <<host, stranger, ending, exited, grace, inheritedRecs, inherited, toRead, toSettle,
                   table, reaping, hits>>

\* A process ends by itself: the leader, or the rest of its group.
ProcessEnds(c) ==
    /\ \/ leader[c] = "runs" /\ leader' = [leader EXCEPT ![c] = "gone"] /\ UNCHANGED rest
       \/ rest[c] = "runs" /\ rest' = [rest EXCEPT ![c] = "gone"] /\ UNCHANGED leader
    /\ UNCHANGED <<host, childOf, stranger, ending, exited, grace, tableVars, reaping, hits>>

\* The kernel hands a free pid to another process: one whose exit its host
\* has seen (until then the pid is a zombie's), or whose host is gone.
PidReused(c) ==
    /\ leader[c] = "gone" /\ rest[c] = "gone" /\ c \notin stranger
    /\ c \in exited \/ ~Up(childOf[c])
    /\ stranger' = stranger \cup {c}
    /\ UNCHANGED <<host, childOf, leader, rest, ending, exited, grace, tableVars, reaping, hits>>

\* settle: on close (both gone, the pipes closed) or, once ending, on the exit
\* of the direct child alone; the timer and the record go.
SettleExit(c) ==
    LET h == childOf[c] IN
    /\ leader[c] = "gone" /\ c \notin exited /\ h # NoOne /\ Up(h)
    /\ rest[c] = "gone" \/ c \in ending
    /\ exited' = exited \cup {c} /\ grace' = grace \ {c}
    /\ current' = [current EXCEPT ![h] = @ \ {c}] /\ dirty' = dirty \cup {h}
    /\ UNCHANGED <<host, childOf, leader, rest, stranger, ending, inheritedRecs, inherited, toRead,
                   toSettle, table, reaping, hits>>

\* SIGTERM is a request: what of the group honours it is nondeterministic.
TermHeard(c) ==
    /\ leader' \in {leader, [leader EXCEPT ![c] = "gone"]}
    /\ rest' \in {rest, [rest EXCEPT ![c] = "gone"]}

Killed(c) ==
    /\ leader' = [leader EXCEPT ![c] = IF @ = "runs" THEN "gone" ELSE @]
    /\ rest' = [rest EXCEPT ![c] = "gone"]

\* What a signal to the group of c's pid reaches.
Reached(c) == IF leader[c] = "runs" \/ rest[c] = "runs" THEN childOf[c]
              ELSE IF c \in stranger THEN "stranger" ELSE NoOne

\* terminate: idempotent; the timer is armed before the signal is sent.
Terminate(h, c) ==
    /\ Up(h) /\ childOf[c] = h /\ c \notin exited \cup ending
    /\ ending' = ending \cup {c} /\ grace' = grace \cup {c}
    /\ hits' = hits \cup {<<h, c, Reached(c)>>}
    /\ IF leader[c] = "runs" THEN TermHeard(c) ELSE UNCHANGED <<leader, rest>>
    /\ UNCHANGED <<host, childOf, stranger, exited, tableVars, reaping>>

GraceOver(c) ==
    /\ c \in grace /\ Up(childOf[c])
    /\ grace' = grace \ {c}
    /\ IF c \in exited THEN UNCHANGED <<leader, rest, hits>>
       ELSE hits' = hits \cup {<<childOf[c], c, Reached(c)>>} /\ Killed(c)
    /\ UNCHANGED <<host, childOf, stranger, ending, exited, tableVars, reaping>>

------------------------------------------------------------------------------
\* load, one file: the table of a session whose host runs is left alone, an
\* empty one is removed, any other is absorbed.
LoadFile(h, f) ==
    /\ host[h] = "loading" /\ f \in toRead[h]
    /\ toRead' = [toRead EXCEPT ![h] = @ \ {f}]
    /\ LET left == table[f] = Absent \/ Up(f)
           empty == ~left /\ table[f] = {}
           took == ~left /\ ~empty
       IN /\ table' = IF empty THEN [table EXCEPT ![f] = Absent] ELSE table
          /\ inherited' = IF took THEN [inherited EXCEPT ![h] = @ \cup {f}] ELSE inherited
          /\ inheritedRecs' = IF took THEN [inheritedRecs EXCEPT ![h] = @ \cup ({f} \X table[f])]
                         ELSE inheritedRecs
    /\ UNCHANGED <<host, childVars, current, dirty, toSettle, reaping, hits>>

\* reapOrphans, right after the load: what is no longer the recorded process
\* is dropped, the rest is asked to end; the escalation is armed.
ReapOrphans(h) ==
    LET orphans == {r \in inheritedRecs[h] : Identify(r[2])}
        asked == {r[2] : r \in orphans}
    IN
    /\ host[h] = "loading" /\ toRead[h] = {}
    /\ host' = [host EXCEPT ![h] = "up"]
    /\ inheritedRecs' = [inheritedRecs EXCEPT ![h] = orphans]
    /\ reaping' = IF orphans # {} THEN reaping \cup {h} ELSE reaping
    /\ hits' = hits \cup {<<h, c, Reached(c)>> : c \in asked}
    /\ \E heard \in SUBSET asked :
          /\ leader' = [c \in Children |-> IF c \in heard THEN "gone" ELSE leader[c]]
          /\ rest' = [c \in Children |-> IF c \in heard THEN "gone" ELSE rest[c]]
    /\ dirty' = dirty \cup {h}
    /\ UNCHANGED <<childOf, stranger, ending, exited, grace, current, inherited, toRead, toSettle,
                   table>>

\* escalate, the grace over: each survivor is killed and, gone, dropped.
EscalateOrphans(h) ==
    LET alive == {r \in inheritedRecs[h] : Identify(r[2])}
        shot == {r[2] : r \in alive}
    IN
    /\ h \in reaping /\ host[h] = "up"
    /\ reaping' = reaping \ {h}
    /\ hits' = hits \cup {<<h, c, Reached(c)>> : c \in shot}
    /\ leader' = [c \in Children |-> IF c \in shot THEN "gone" ELSE leader[c]]
    /\ rest' = [c \in Children |-> IF c \in shot THEN "gone" ELSE rest[c]]
    /\ inheritedRecs' = [inheritedRecs EXCEPT ![h] = {}]
    /\ dirty' = dirty \cup {h}
    /\ UNCHANGED <<host, childOf, stranger, ending, exited, grace, current, inherited, toRead,
                   toSettle, table>>

\* writeToDisk, queued behind the write before: the session's own file, with
\* what it holds by then ...
WriteToDisk(h) ==
    /\ Up(h) /\ h \in dirty /\ toSettle[h] = {}
    /\ table' = [table EXCEPT ![h] = current[h]]
    /\ dirty' = dirty \ {h}
    /\ toSettle' = [toSettle EXCEPT ![h] =
          {<<f, {r[2] : r \in {q \in inheritedRecs[h] : q[1] = f}}>> : f \in inherited[h]}]
    /\ UNCHANGED <<host, childVars, current, inheritedRecs, inherited, toRead, reaping, hits>>

\* Every inherited file is removed once its processes were signalled.
ReconcileInherited_Removes(h, f, remaining) ==
    /\ Up(h) /\ <<f, remaining>> \in toSettle[h]
    /\ toSettle' = [toSettle EXCEPT ![h] = @ \ {<<f, remaining>>}]
    /\ table' = [table EXCEPT ![f] = Absent]
    /\ inherited' = [inherited EXCEPT ![h] = @ \ {f}]
    /\ UNCHANGED <<host, childVars, current, inheritedRecs, toRead, dirty, reaping, hits>>

\* ... then each inherited file: removed with nothing left in it, rewritten
\* otherwise.
ReconcileInherited(h, f, remaining) ==
    /\ Up(h) /\ <<f, remaining>> \in toSettle[h]
    /\ toSettle' = [toSettle EXCEPT ![h] = @ \ {<<f, remaining>>}]
    /\ IF remaining = {}
       THEN /\ table' = [table EXCEPT ![f] = Absent]
            /\ inherited' = IF table[f] = Absent THEN inherited
                            ELSE [inherited EXCEPT ![h] = @ \ {f}]
       ELSE /\ table' = IF table[f] = Absent THEN table ELSE [table EXCEPT ![f] = remaining]
            /\ UNCHANGED inherited
    /\ UNCHANGED <<host, childVars, current, inheritedRecs, toRead, dirty, reaping, hits>>

\* The host dies or is closed: everything in memory is lost, the children and
\* the files stay.
HostDies(h) ==
    /\ Up(h)
    /\ host' = [host EXCEPT ![h] = "dead"]
    /\ current' = [current EXCEPT ![h] = {}] /\ inheritedRecs' = [inheritedRecs EXCEPT ![h] = {}]
    /\ inherited' = [inherited EXCEPT ![h] = {}] /\ toRead' = [toRead EXCEPT ![h] = {}]
    /\ dirty' = dirty \ {h} /\ toSettle' = [toSettle EXCEPT ![h] = {}]
    /\ reaping' = reaping \ {h}
    /\ grace' = {c \in grace : childOf[c] # h}
    /\ UNCHANGED <<childOf, leader, rest, stranger, ending, exited, table, hits>>

EditorProcsNext ==
    \/ \E h \in Hosts : Activate(h) \/ ReapOrphans(h) \/ EscalateOrphans(h) \/ WriteToDisk(h)
                        \/ HostDies(h)
    \/ \E h \in Hosts, c \in Children : Spawn(h, c) \/ Terminate(h, c)
    \/ \E c \in Children : ProcessEnds(c) \/ PidReused(c) \/ SettleExit(c) \/ GraceOver(c)
    \/ \E h, f \in Hosts : LoadFile(h, f)
    \/ \E h, f \in Hosts, left \in SUBSET Children : ReconcileInherited(h, f, left)

EditorProcsSpec == EditorProcsInit /\ [][EditorProcsNext]_procVars

------------------------------------------------------------------------------
\* No signal of the extension ever reaches a stranger's process, nor a child
\* of another session while that session's host runs.
OnlyOwnAreSignalled ==
    \A s \in hits : s[3] # "stranger" /\ (s[3] \in Hosts \ {s[1]} => host[s[3]] = "dead")

\* A recorded child whose host died stays on record, on disk, until it is
\* gone: no session's cleanup forgets a survivor.
OrphansStayOnRecord ==
    [][\A c \in Children :
         /\ leader'[c] = "runs" /\ childOf[c] # NoOne /\ host[childOf[c]] = "dead"
         /\ \E f \in Hosts : table[f] # Absent /\ c \in table[f]
         => \E f \in Hosts : table'[f] # Absent /\ c \in table'[f]]_procVars
=============================================================================
