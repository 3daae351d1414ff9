---------------------------- MODULE PolicyReload ----------------------------
(***************************************************************************)
(* The policy engine's live policy: main loads the document and spawns     *)
(* poll_and_reload (reload.rs), which watches the file's modification time *)
(* and swaps the SharedPolicy, while calls of the gRPC method evaluate     *)
(* (grpc.rs) take snapshots of it.  What a document decides is left to     *)
(* PolicyEval; here a document is a number.                                *)
(*                                                                         *)
(* An edit is any change of the file that gives it a new modification      *)
(* time: replacing it, the first half and the second half of writing it in *)
(* place, breaking it.  Two edits within one granule of the file system's  *)
(* clock would be one modification time and are outside the model.         *)
(***************************************************************************)
EXTENDS Naturals, Sequences

CONSTANTS Calls,      \* concurrent calls of evaluate
          MaxEdits,   \* bound: changes of the file
          None        \* Option::None; no document

ASSUME ReloadAssumption == MaxEdits \in Nat /\ None \notin Nat

VARIABLES doc,               \* the document in the file: its number
          parses,            \* whether that document is well formed
          present,           \* whether the file is there
          edits,             \* edits made; the number serves as modification time
          stage,             \* where main and then poll_and_reload are
          last_modified,     \* poll_and_reload's local
          current_modified,  \* poll_and_reload's local
          incoming,          \* the parsed document not yet swapped in
          active,            \* the documents SharedPolicy has held; the last is current
          call,              \* call[c]: what c is doing
          raced              \* the file's content came between main's load and the first stat

fileVars == <<doc, parses, present, edits>>
pollVars == <<stage, last_modified, current_modified, incoming>>
vars == <<fileVars, pollVars, active, call, raced>>

Stages == {"boot", "spawned", "sleep", "load", "swap", "exited"}

file_modified_time == IF present THEN edits ELSE None
current == active[Len(active)]

Init == /\ doc = 0 /\ parses \in BOOLEAN /\ present = TRUE /\ edits = 0
        /\ stage = "boot"
        /\ last_modified = None
        /\ current_modified = None
        /\ incoming = None
        /\ active = <<>>
        /\ call = [c \in Calls |-> [stage |-> "none", since |-> 0, snapshot |-> None]]
        /\ raced = FALSE
-----------------------------------------------------------------------------
(* The operator.                                                           *)

Edit(ok) == /\ edits < MaxEdits
            /\ edits' = edits + 1
            /\ doc' = edits + 1
            /\ parses' = ok
            /\ present' = TRUE
            /\ raced' = (stage = "spawned")
            /\ UNCHANGED <<pollVars, active, call>>

Delete == /\ present
          /\ edits < MaxEdits
          /\ edits' = edits + 1
          /\ present' = FALSE
          /\ UNCHANGED <<doc, parses, pollVars, active, call, raced>>
-----------------------------------------------------------------------------
(* main and poll_and_reload.                                               *)

\* load_policy_document can succeed; reading the file may also fail.
Loadable == present /\ parses

\* main: the document is loaded or the engine does not come up.
Boot == /\ stage = "boot"
        /\ Loadable
        /\ active' = <<doc>>
        /\ stage' = "spawned"
        /\ UNCHANGED <<fileVars, last_modified, current_modified, incoming, call, raced>>

BootFails == /\ stage = "boot"
             /\ stage' = "exited"
             /\ UNCHANGED <<fileVars, last_modified, current_modified, incoming,
                            active, call, raced>>

\* The reload task starts: it takes the modification time as it is by now.
FirstStat == /\ stage = "spawned"
             /\ last_modified' = file_modified_time
             /\ stage' = "sleep"
             /\ UNCHANGED <<fileVars, current_modified, incoming, active, call, raced>>

\* A mutant: without an earlier modification time there is nothing to compare.
MutPollNeedsBaseline ==
        /\ stage = "sleep"
        /\ file_modified_time # last_modified /\ last_modified # None
        /\ current_modified' = file_modified_time
        /\ stage' = "load"
        /\ UNCHANGED <<fileVars, last_modified, incoming, active, call, raced>>

\* After the sleep: an unchanged time is skipped, a change is loaded.
Poll == /\ stage = "sleep"
        /\ file_modified_time # last_modified
        /\ current_modified' = file_modified_time
        /\ stage' = "load"
        /\ UNCHANGED <<fileVars, last_modified, incoming, active, call, raced>>

Load == /\ stage = "load"
        /\ Loadable
        /\ incoming' = doc
        /\ stage' = "swap"
        /\ UNCHANGED <<fileVars, last_modified, current_modified, active, call, raced>>

\* A mutant: the modification time is taken over although nothing was loaded.
MutLoadFailsForgets ==
             /\ stage = "load"
             /\ stage' = "sleep"
             /\ last_modified' = current_modified
             /\ UNCHANGED <<fileVars, current_modified, incoming, active, call, raced>>

\* Missing, unreadable or malformed: the current version is kept and, because
\* last_modified is kept too, the file is tried again after the next sleep.
LoadFails == /\ stage = "load"
             /\ stage' = "sleep"
             /\ UNCHANGED <<fileVars, last_modified, current_modified, incoming,
                            active, call, raced>>

Swap == /\ stage = "swap"
        /\ active' = Append(active, incoming)
        /\ last_modified' = current_modified
        /\ incoming' = None
        /\ stage' = "sleep"
        /\ UNCHANGED <<fileVars, current_modified, call, raced>>
-----------------------------------------------------------------------------
(* evaluate of PolicyGrpcService: the server is up once main spawned the   *)
(* reload task; each call reads the shared policy once.                    *)

Arrive(c) == /\ stage \notin {"boot", "exited"}
             /\ call[c].stage = "none"
             /\ call' = [call EXCEPT ![c] = [stage |-> "arrived", since |-> Len(active),
                                             snapshot |-> None]]
             /\ UNCHANGED <<fileVars, pollVars, active, raced>>

\* A mutant: the service keeps the document it was created with, as
\* PolicyGrpcService::new does.
MutSnapshotOfFirst(c) ==
               /\ call[c].stage = "arrived"
               /\ call' = [call EXCEPT ![c].stage = "snapshot", ![c].snapshot = active[1]]
               /\ UNCHANGED <<fileVars, pollVars, active, raced>>

Snapshot(c) == /\ call[c].stage = "arrived"
               /\ call' = [call EXCEPT ![c].stage = "snapshot", ![c].snapshot = current]
               /\ UNCHANGED <<fileVars, pollVars, active, raced>>

Respond(c) == /\ call[c].stage = "snapshot"
              /\ call' = [call EXCEPT ![c].stage = "responded"]
              /\ UNCHANGED <<fileVars, pollVars, active, raced>>

\* The answer is out, or the caller has given up and its stream is dropped.
Forget(c) == /\ call[c].stage # "none"
             /\ call' = [call EXCEPT ![c] = [stage |-> "none", since |-> 0, snapshot |-> None]]
             /\ UNCHANGED <<fileVars, pollVars, active, raced>>

\* The engine did not come up: main returned an error.
Exited == /\ stage = "exited"
          /\ UNCHANGED vars

Next == \/ \E ok \in BOOLEAN : Edit(ok)
        \/ Delete
        \/ Boot \/ BootFails \/ FirstStat \/ Poll \/ Load \/ LoadFails \/ Swap
        \/ \E c \in Calls : Arrive(c) \/ Snapshot(c) \/ Respond(c) \/ Forget(c)
        \/ Exited

Spec == Init /\ [][Next]_vars

\* The reload task keeps running, and a file that can be loaded is not
\* unreadable for ever.
FairSpec == /\ Spec
            /\ WF_vars(FirstStat) /\ WF_vars(Poll) /\ WF_vars(Swap)
            /\ WF_vars(Load \/ LoadFails) /\ SF_vars(Load)
-----------------------------------------------------------------------------
TypeOK == /\ doc \in Nat /\ parses \in BOOLEAN /\ present \in BOOLEAN
          /\ edits \in 0..MaxEdits
          /\ stage \in Stages
          /\ last_modified \in 0..MaxEdits \cup {None}
          /\ current_modified \in 0..MaxEdits \cup {None}
          /\ incoming \in Nat \cup {None}
          /\ active \in Seq(Nat)
          /\ \A c \in Calls :
                 call[c] \in [stage : {"none", "arrived", "snapshot", "responded"},
                              since : Nat, snapshot : Nat \cup {None}]
          /\ raced \in BOOLEAN

\* The file's document is the current policy.
UpToDate == active # <<>> /\ current = doc

\* The reload task never takes an edit for one it has loaded: while it sees the
\* modification time it remembers, the current policy is the file's document.
\* The one exception is an edit between main's load and the task's first look.
SkipMeansLoaded ==
    stage = "sleep" /\ present /\ file_modified_time = last_modified => UpToDate \/ raced

\* A call decides by one document, and that document was current at some moment
\* between the arrival of the call and its response: no call that arrives after
\* a swap is still decided by the document before it.
DecisionFresh ==
    \A c \in Calls : call[c].stage \in {"snapshot", "responded"} =>
        \E k \in call[c].since..Len(active) : active[k] = call[c].snapshot

\* The current policy only moves forward through the file's documents: a slow
\* load never replaces a newer document by an older one.
NeverBackwards == \A i, j \in DOMAIN active : i < j => active[i] <= active[j]

\* A document that stays in the file and can be loaded becomes the current one,
\* failed attempts to load it and broken documents before it notwithstanding.
EditEventuallyActive ==
    [](stage # "exited") =>
        \A d \in 0..MaxEdits :
            <>[](doc = d /\ Loadable /\ ~raced /\ stage # "boot") => <>[](active # <<>> /\ current = d)
=============================================================================
