-------------------------- MODULE AuditSinkProofs --------------------------
(***************************************************************************)
(* Where the audit events go.                                              *)
(*                                                                         *)
(* AuditLog, the JSONL sink, for any number of rotated files, any limit    *)
(* and any number of events, faults and crashes; ServiceBus, the bus and   *)
(* the sink that publishes on it, for any topics, subscribers, queue       *)
(* capacity and number of events.                                          *)
(***************************************************************************)
EXTENDS AuditLog, ServiceBus, FiniteSetTheorems, TLAPS

\* The line of the event in progress is not in a file yet.
Unwritten == stage \in {"rotate", "open", "write"}

Types == /\ slots \in [Slots -> Files \cup {Absent}]
         /\ file \in BOOLEAN
         /\ bytes_written \in Nat
         /\ stage \in {"ready", "rotate", "open", "write", "mark", "down"}
         /\ idx \in Slots
         /\ len \in Nat
         /\ event \in Nat
         /\ written \in Nat

\* The handle is to the file at path, and there is one when a line is written.
HandleInv == /\ stage \in {"write", "mark"} \/ (stage = "ready" /\ file) => slots[0] # Absent
             /\ stage \in {"rotate", "open"} => ~file

\* The numbers of the pieces are those of the past.
PastInv == \A i \in Slots : \A p \in Pieces(slots[i]) :
               /\ p.at \in 1..written
               /\ p.ev \in 1..event
               /\ Unwritten => p.ev < event

\* The slot that is renamed to is empty, unless a file was overlooked.
HoleInv == "exists" \notin blind /\ stage = "rotate" /\ idx < max_files => slots[idx] = Absent

\* An event in progress has a number.
StartedInv == InProgress => event > 0

LogInv == Types /\ StartedInv /\ HandleInv /\ PastInv /\ HoleInv /\ RetainedInOrder
-----------------------------------------------------------------------------
(* What a step does to the files.                                          *)

LEMMA FileFacts ==
    /\ max_files \in Nat \ {0} /\ 0 \in Slots /\ max_files \in Slots
    /\ EmptyFile \in Files /\ Absent \notin Files
    /\ Pieces(EmptyFile) = {} /\ Pieces(Absent) = {}
    /\ \A f \in Files : Pieces(f) = {f.pieces[a] : a \in 1..Len(f.pieces)}
<1>1. EmptyFile \in Files /\ EmptyFile.pieces = <<>>
  BY DEF EmptyFile, Files
<1>2. max_files \in Nat \ {0}
  BY AuditAssumption DEF max_files
<1>3. Absent \notin Files
  BY AuditAssumption
<1>4. \A f \in Files : Pieces(f) = {f.pieces[a] : a \in 1..Len(f.pieces)}
  BY <1>3 DEF Pieces, Files
<1> QED
  BY <1>1, <1>2, <1>3, <1>4 DEF Pieces, Slots

\* g is f and one piece more.
Longer(f, g, w) ==
    /\ f \in Files /\ g \in Files
    /\ g.pieces = Append(f.pieces, Piece(w))
    /\ IF w THEN g.size = f.size + len /\ g.torn = f.torn
            ELSE g.size - g.torn = f.size - f.torn

LEMMA AppendType ==
    ASSUME NEW S, NEW s \in Seq(S), NEW e \in S
    PROVE  Append(s, e) \in Seq(S)
  OBVIOUS

LEMMA ChangedFile ==
    ASSUME NEW S, NEW f \in [pieces : S, size : Nat, torn : Nat],
           NEW s \in S, NEW n \in Nat, NEW t \in Nat,
           NEW g, \/ g = [f EXCEPT !.pieces = s, !.size = n] /\ t = f.torn
                  \/ g = [f EXCEPT !.pieces = s, !.size = n, !.torn = t]
    PROVE  /\ g \in [pieces : S, size : Nat, torn : Nat]
           /\ g.pieces = s /\ g.size = n /\ g.torn = t
  OBVIOUS

LEMMA AddLonger ==
    ASSUME NEW f \in Files, len \in Nat, event \in Nat, written \in Nat, NEW k \in Nat
    PROVE  Longer(f, AddLine(f, len), TRUE) /\ Longer(f, AddFragment(f, k), FALSE)
<1> DEFINE P == Seq([at : Nat, ev : Nat, whole : BOOLEAN])
<1>1. f \in [pieces : P, size : Nat, torn : Nat] /\ f.pieces \in P /\ f.size \in Nat /\ f.torn \in Nat
  BY DEF Files
<1>2. Append(f.pieces, Piece(TRUE)) \in P /\ Append(f.pieces, Piece(FALSE)) \in P
  <2>1. /\ Piece(TRUE) \in [at : Nat, ev : Nat, whole : BOOLEAN]
        /\ Piece(FALSE) \in [at : Nat, ev : Nat, whole : BOOLEAN]
    BY DEF Piece
  <2> QED
    BY <2>1, <1>1, AppendType
<1>3. Files = [pieces : P, size : Nat, torn : Nat]
  BY DEF Files
<1> HIDE DEF P
<1>4. /\ AddLine(f, len) \in Files
      /\ AddLine(f, len).pieces = Append(f.pieces, Piece(TRUE))
      /\ AddLine(f, len).size = f.size + len /\ AddLine(f, len).torn = f.torn
  <2> DEFINE s == Append(f.pieces, Piece(TRUE))
             n == f.size + len
             t == f.torn
  <2>1. AddLine(f, len) = [f EXCEPT !.pieces = s, !.size = n]
    BY DEF AddLine
  <2>2. s \in P
    BY <1>2, Zenon
  <2> HIDE DEF s
  <2>3. n \in Nat /\ t \in Nat
    BY <1>1
  <2>4. \/ AddLine(f, len) = [f EXCEPT !.pieces = s, !.size = n] /\ t = f.torn
        \/ AddLine(f, len) = [f EXCEPT !.pieces = s, !.size = n, !.torn = t]
    BY <2>1
  <2> HIDE DEF n, t
  <2>5. /\ AddLine(f, len) \in Files
        /\ AddLine(f, len).pieces = s /\ AddLine(f, len).size = n /\ AddLine(f, len).torn = t
    BY <2>2, <2>3, <2>4, <1>1, <1>3, ChangedFile
  <2> QED
    BY <2>5 DEF s, n, t
<1>5. /\ AddFragment(f, k) \in Files
      /\ AddFragment(f, k).pieces = Append(f.pieces, Piece(FALSE))
      /\ AddFragment(f, k).size = f.size + k /\ AddFragment(f, k).torn = f.torn + k
  <2> DEFINE s == Append(f.pieces, Piece(FALSE))
             n == f.size + k
             t == f.torn + k
  <2>1. AddFragment(f, k) = [f EXCEPT !.pieces = s, !.size = n, !.torn = t]
    BY DEF AddFragment
  <2>2. s \in P
    BY <1>2, Zenon
  <2> HIDE DEF s
  <2>3. n \in Nat /\ t \in Nat
    BY <1>1
  <2>4. \/ AddFragment(f, k) = [f EXCEPT !.pieces = s, !.size = n] /\ t = f.torn
        \/ AddFragment(f, k) = [f EXCEPT !.pieces = s, !.size = n, !.torn = t]
    BY <2>1
  <2> HIDE DEF n, t
  <2>5. /\ AddFragment(f, k) \in Files
        /\ AddFragment(f, k).pieces = s /\ AddFragment(f, k).size = n /\ AddFragment(f, k).torn = t
    BY <2>2, <2>3, <2>4, <1>1, <1>3, ChangedFile
  <2> QED
    BY <2>5 DEF s, n, t
<1> QED
  BY <1>1, <1>4, <1>5 DEF Longer

LEMMA LongerPieces ==
    ASSUME NEW f, NEW g, NEW w \in BOOLEAN, Longer(f, g, w)
    PROVE  /\ Len(f.pieces) \in Nat /\ Len(g.pieces) = Len(f.pieces) + 1
           /\ \A a \in 1..Len(f.pieces) : g.pieces[a] = f.pieces[a]
           /\ g.pieces[Len(f.pieces) + 1] = Piece(w)
           /\ Pieces(g) = Pieces(f) \cup {Piece(w)}
<1>1. f.pieces \in Seq([at : Nat, ev : Nat, whole : BOOLEAN])
  BY DEF Longer, Files
<1>2. /\ Len(f.pieces) \in Nat /\ Len(g.pieces) = Len(f.pieces) + 1
      /\ \A a \in 1..Len(f.pieces) : g.pieces[a] = f.pieces[a]
      /\ g.pieces[Len(f.pieces) + 1] = Piece(w)
  BY <1>1 DEF Longer
<1>3. Pieces(g) = Pieces(f) \cup {Piece(w)}
  <2>1. /\ Pieces(f) = {f.pieces[a] : a \in 1..Len(f.pieces)}
        /\ Pieces(g) = {g.pieces[a] : a \in 1..Len(g.pieces)}
    BY FileFacts, Zenon DEF Longer
  <2> DEFINE k == Len(f.pieces)
  <2>2. 1..(k + 1) = 1..k \cup {k + 1}
    BY <1>2
  <2> HIDE DEF k
  <2> QED
    BY <1>2, <2>1, <2>2, Zenon DEF k
<1> QED
  BY <1>2, <1>3

\* All that may happen to the files in one step.
Same == UNCHANGED <<slots, written>>
Emptied == /\ \E i \in Slots, f \in {Absent, EmptyFile} :
                  /\ slots' = [slots EXCEPT ![i] = f]
                  /\ slots[i] = Absent \/ i = max_files \/ "exists" \in blind
           /\ written' = written
Moved == /\ idx \in Slots \ {0} /\ slots[idx] = Absent
         /\ slots' = [slots EXCEPT ![idx] = slots[idx - 1], ![idx - 1] = Absent]
         /\ written' = written
Extended(w) == /\ stage = "write"
               /\ IF w THEN Write ELSE ~Write
               /\ \E g \in Files : Longer(slots[0], g, w) /\ slots' = [slots EXCEPT ![0] = g]
               /\ written' = written + 1

LEMMA FilesStep ==
    ASSUME Types, HandleInv, HoleInv, [Next]_vars
    PROVE  Same \/ Emptied \/ Moved \/ \E w \in BOOLEAN : Extended(w)
<1> USE DEF Types
<1>1. CASE \/ \E n \in Lengths : Emit(n)
           \/ RotateSkip \/ RotateBlind \/ RotateFails \/ RotateOpenFails \/ ReopenFails
           \/ Mark \/ Idle \/ UNCHANGED vars
  BY <1>1 DEF Emit, RotateSkip, RotateBlind, RotateFails, RotateOpenFails, ReopenFails, Mark, Idle,
      vars, Same
<1>2. CASE RotateRemove
  <2>1. idx \in Slots /\ (idx = max_files \/ "exists" \in blind)
    BY <1>2, FileFacts DEF RotateRemove, Rotating, DstExists, HoleInv, Slots
  <2>2. slots' = [slots EXCEPT ![idx] = Absent] /\ written' = written
    BY <1>2 DEF RotateRemove
  <2> QED
    BY <2>1, <2>2 DEF Emptied
<1>3. CASE RotateRename
  BY <1>3 DEF RotateRename, Rotating, DstExists, Moved
<1>4. CASE RotateOpen
  <2>1. slots[0] = Absent \/ "exists" \in blind
    BY <1>4, FileFacts DEF RotateOpen, HoleInv
  <2>2. slots' = [slots EXCEPT ![0] = EmptyFile] /\ written' = written
    BY <1>4 DEF RotateOpen
  <2> QED
    BY <2>1, <2>2, FileFacts DEF Emptied
<1>5. CASE Reopen \/ Restart
  <2>1. slots' = [slots EXCEPT ![0] = Created(slots[0])] /\ written' = written
    BY <1>5 DEF Reopen, Restart
  <2>2. CASE slots[0] = Absent
    BY <2>1, <2>2, FileFacts DEF Created, Emptied
  <2>3. CASE slots[0] # Absent
    BY <2>1, <2>3, FileFacts DEF Created, Same
  <2> QED
    BY <2>2, <2>3
<1>6. stage = "write" => slots[0] \in Files
  BY FileFacts DEF HandleInv
<1>7. CASE Write
  BY <1>6, <1>7, AddLonger DEF Write, Extended, Longer
<1>8. ASSUME NEW k \in 0..(MaxLength - 1), WriteFails(k) \/ Crash(k)
      PROVE  Same \/ Extended(FALSE)
  <2>1. CASE k = 0
    BY <1>8, <2>1 DEF WriteFails, Crash, Same
  <2>2. CASE k # 0
    <3>1. /\ stage = "write" /\ k \in Nat /\ written' = written + 1
          /\ slots' = [slots EXCEPT ![0] = AddFragment(slots[0], k)]
      BY <1>8, <2>2 DEF WriteFails, Crash
    <3>2. ~Write
      BY <1>8, <3>1 DEF WriteFails, GiveUp, Crash, Write
    <3> QED
      BY <3>1, <3>2, <1>6, AddLonger DEF Extended, Longer
  <2> QED
    BY <2>1, <2>2
<1> QED
  BY <1>1, <1>2, <1>3, <1>4, <1>5, <1>7, <1>8 DEF Next, FsStep
-----------------------------------------------------------------------------
(* Types, and where the handle is.                                         *)

LEMMA InitLog == Init => LogInv
<1> SUFFICES ASSUME Init PROVE LogInv
  OBVIOUS
<1>1. /\ slots \in [Slots -> Files \cup {Absent}]
      /\ slots[0] = EmptyFile /\ \A i \in Slots : Pieces(slots[i]) = {}
  BY FileFacts DEF Init, Slots
<1>2. slots[0] # Absent /\ EmptyFile.pieces = <<>>
  BY <1>1, FileFacts DEF EmptyFile
<1>3. RetainedInOrder
  BY <1>1, <1>2, FileFacts DEF RetainedInOrder, Numbers, Init, Slots
<1> QED
  BY <1>1, <1>2, <1>3, FileFacts DEF Init, LogInv, Types, StartedInv, InProgress, HandleInv, PastInv, HoleInv, Slots

LEMMA NextTypes == Types /\ HandleInv /\ HoleInv /\ [Next]_vars => Types' /\ HandleInv'
<1> SUFFICES ASSUME Types, HandleInv, HoleInv, [Next]_vars PROVE Types' /\ HandleInv'
  OBVIOUS
<1>1. slots' \in [Slots -> Files \cup {Absent}] /\ written' \in Nat
  BY FilesStep, FileFacts DEF Types, Slots, Same, Emptied, Moved, Extended
<1>2. SizeOf(slots[0]) \in Nat
  BY FileFacts DEF Types, SizeOf, Files
<1> USE DEF Types, HandleInv, state, faults, outcome
<1>3. ASSUME NEW n \in Lengths, Emit(n) PROVE Types' /\ HandleInv'
  <2>1. n \in Nat
    BY AuditAssumption
  <2>2. CASE bytes_written + n > MaxBytes
    <3>1. /\ stage' = "rotate" /\ idx' = max_files /\ file' = FALSE
          /\ len' = n /\ event' = event + 1 /\ bytes_written' = bytes_written
      BY <1>3, <2>2 DEF Emit
    <3>2. max_files \in Slots
      BY FileFacts, Zenon
    <3>3. event' \in Nat
      BY <3>1
    <3>4. Types'
      BY <1>1, <2>1, <3>1, <3>2, <3>3, Zenon
    <3>5. HandleInv'
      BY <3>1, Zenon
    <3> QED
      BY <3>4, <3>5, Zenon
  <2>3. CASE ~(bytes_written + n > MaxBytes)
    <3>1. stage = "ready" /\ UNCHANGED <<slots, file, bytes_written, idx>> /\ len' = n /\ event' = event + 1
      BY <1>3, <2>3 DEF Emit
    <3>2. file => stage' = "write" /\ slots[0] # Absent
      BY <1>3, <2>3 DEF Emit
    <3>3. ~file => stage' = "open"
      BY <1>3, <2>3 DEF Emit
    <3> QED
      BY <1>1, <2>1, <3>1, <3>2, <3>3
  <2> QED
    BY <2>2, <2>3
<1>4. CASE RotateSkip \/ RotateBlind
  <2>1. idx - 1 \in Slots
    BY <1>4, FileFacts DEF RotateSkip, RotateBlind, Rotating, Slots
  <2> QED
    BY <1>1, <1>4, <2>1 DEF RotateSkip, RotateBlind, Rotating
<1>5. CASE RotateRemove
  BY <1>1, <1>5 DEF RotateRemove, Rotating
<1>6. CASE RotateRename
  <2>1. idx - 1 \in Slots
    BY <1>6, FileFacts DEF RotateRename, Rotating, Slots
  <2> QED
    BY <1>1, <1>6, <2>1 DEF RotateRename, Rotating
<1>7. CASE RotateOpen
  <2>1. slots'[0] # Absent
    BY <1>7, FileFacts DEF RotateOpen
  <2> QED
    BY <1>1, <1>7, <2>1 DEF RotateOpen
<1>8. CASE Reopen
  <2>1. bytes_written' \in Nat
    BY <1>2, <1>8 DEF Reopen, Length
  <2>2. slots'[0] # Absent
    BY <1>8, FileFacts DEF Reopen, Created
  <2> QED
    BY <1>1, <1>8, <2>1, <2>2 DEF Reopen
<1>9. CASE Write
  <2>1. slots[0] \in Files
    BY <1>9, FileFacts DEF Write
  <2>2. AddLine(slots[0], len) \in Files
    BY <2>1, AddLonger DEF Longer
  <2>3. slots'[0] # Absent
    BY <1>9, <2>2, FileFacts DEF Write
  <2> QED
    BY <1>1, <1>9, <2>3 DEF Write
<1>10. CASE RotateFails \/ RotateOpenFails \/ ReopenFails
  BY <1>1, <1>10 DEF RotateFails, RotateOpenFails, ReopenFails, GiveUp, Rotating
<1>11. ASSUME NEW k \in 0..(MaxLength - 1), WriteFails(k) PROVE Types' /\ HandleInv'
  <2>1. slots[0] \in Files
    BY <1>11, FileFacts DEF WriteFails
  <2>2. AddFragment(slots[0], k) \in Files
    <3>1. k \in Nat
      BY <1>11 DEF WriteFails
    <3> QED
      BY <2>1, <3>1, AddLonger DEF Longer
  <2>3. slots'[0] # Absent
    BY <1>11, <2>1, <2>2, FileFacts DEF WriteFails
  <2> QED
    BY <1>1, <1>11, <2>3 DEF WriteFails, GiveUp
<1>12. ASSUME NEW k \in 0..(MaxLength - 1), Crash(k) PROVE Types' /\ HandleInv'
  BY <1>1, <1>12, FileFacts DEF Crash
<1>13. CASE Restart
  BY <1>1, <1>2, <1>13, FileFacts DEF Restart, Length, Created
<1>14. CASE Mark \/ Idle \/ UNCHANGED vars
  BY <1>1, <1>14 DEF Mark, Idle, vars
<1> QED
  BY <1>3, <1>4, <1>5, <1>6, <1>7, <1>8, <1>9, <1>10, <1>11, <1>12, <1>13, <1>14
  DEF Next, FsStep

LEMMA NextHole == Types /\ HoleInv /\ [Next]_vars => HoleInv'
<1> SUFFICES ASSUME Types, HoleInv, [Next]_vars PROVE HoleInv'
  OBVIOUS
<1> USE DEF Types, HoleInv
<1>1. ASSUME NEW n \in Lengths, Emit(n) PROVE HoleInv'
  BY <1>1, FileFacts DEF Emit, faults
<1>2. CASE RotateSkip
  BY <1>2 DEF RotateSkip, Rotating, SrcExists, faults
<1>3. CASE RotateRemove
  BY <1>3 DEF RotateRemove, state, faults, Rotating
<1>4. CASE RotateRename
  <2>1. idx - 1 \in Slots
    BY <1>4, FileFacts DEF RotateRename, Rotating, Slots
  <2>2. slots'[idx - 1] = Absent /\ idx' = idx - 1
    BY <1>4, <2>1 DEF RotateRename
  <2> QED
    BY <2>2
<1>5. CASE RotateBlind
  BY <1>5 DEF RotateBlind
<1>6. CASE RotateOpen \/ Reopen \/ Write \/ Mark \/ Restart
  BY <1>6 DEF RotateOpen, Reopen, Write, Mark, Restart
<1>7. CASE RotateFails \/ RotateOpenFails \/ ReopenFails
  BY <1>7 DEF RotateFails, RotateOpenFails, ReopenFails, GiveUp
<1>8. ASSUME NEW k \in 0..(MaxLength - 1), WriteFails(k) \/ Crash(k) PROVE HoleInv'
  BY <1>8 DEF WriteFails, GiveUp, Crash
<1>9. CASE Idle \/ UNCHANGED vars
  BY <1>9 DEF Idle, vars, state, faults
<1> QED
  BY <1>1, <1>2, <1>3, <1>4, <1>5, <1>6, <1>7, <1>8, <1>9 DEF Next, FsStep
-----------------------------------------------------------------------------
(* The order of the pieces.                                                *)

\* In a file, and from an older file to a newer one.
Sorted(f) == f # Absent => \A a, b \in DOMAIN f.pieces :
                 a < b => f.pieces[a].at < f.pieces[b].at /\ f.pieces[a].ev < f.pieces[b].ev
Before(g, f) == \A q \in Pieces(g), p \in Pieces(f) : q.at < p.at

LEMMA OrderForm ==
    RetainedInOrder <=> /\ \A i \in Slots : Sorted(slots[i])
                        /\ \A i, j \in Slots : i < j => Before(slots[j], slots[i])
  BY DEF RetainedInOrder, Numbers, Sorted, Before

\* Events are counted, and the count is that of the event in progress.
EventStep == /\ event \in Nat /\ event' \in Nat /\ event' >= event
             /\ InProgress' => (InProgress /\ event' = event) \/ event' = event + 1
             /\ Unwritten' => (Unwritten /\ event' = event) \/ event' = event + 1
             /\ stage = "write" /\ written' # written => event' = event /\ ~Unwritten'

LEMMA NextEvent == Types /\ [Next]_vars => EventStep
<1> SUFFICES ASSUME Types, [Next]_vars PROVE EventStep
  OBVIOUS
<1> USE DEF Types, InProgress, Unwritten, EventStep
<1>1. ASSUME NEW n \in Lengths, Emit(n) PROVE EventStep
  BY <1>1 DEF Emit
<1>2. CASE \/ RotateSkip \/ RotateRemove \/ RotateRename \/ RotateOpen \/ RotateBlind
           \/ Reopen \/ Restart
  BY <1>2 DEF RotateSkip, RotateRemove, RotateRename, RotateOpen, RotateBlind, Rotating,
      Reopen, Restart, state
<1>3. CASE Write \/ Mark \/ RotateFails \/ RotateOpenFails \/ ReopenFails
  BY <1>3 DEF Write, Mark, RotateFails, RotateOpenFails, ReopenFails, GiveUp
<1>4. ASSUME NEW k \in 0..(MaxLength - 1), WriteFails(k) \/ Crash(k) PROVE EventStep
  BY <1>4 DEF WriteFails, GiveUp, Crash
<1>5. CASE Idle \/ UNCHANGED vars
  <2>1. UNCHANGED <<stage, event, written>>
    BY <1>5 DEF Idle, vars, state
  <2>2. event \in Nat /\ (InProgress' <=> InProgress) /\ (Unwritten' <=> Unwritten)
    BY <2>1
  <2> QED
    BY <2>1, <2>2
<1> HIDE DEF Types, InProgress, Unwritten, EventStep
<1> QED
  BY <1>1, <1>2, <1>3, <1>4, <1>5 DEF Next, FsStep

\* No event in the past is numbered as the one in progress.
LEMMA NextPast == LogInv /\ [Next]_vars => PastInv'
<1> SUFFICES ASSUME LogInv, [Next]_vars PROVE PastInv'
  OBVIOUS
<1>1. EventStep
  BY NextEvent DEF LogInv
<1>2. slots \in [Slots -> Files \cup {Absent}] /\ written \in Nat /\ idx \in Slots
  BY DEF LogInv, Types
<1>3. SUFFICES ASSUME NEW i \in Slots, NEW p \in Pieces(slots'[i])
               PROVE  /\ p.at \in 1..written'
                      /\ p.ev \in 1..event'
                      /\ Unwritten' => p.ev < event'
  BY DEF PastInv
<1>4. ASSUME NEW j \in Slots, p \in Pieces(slots[j]), written' \in {written, written + 1}
      PROVE  /\ p.at \in 1..written'
             /\ p.ev \in 1..event'
             /\ Unwritten' => p.ev < event'
  BY <1>1, <1>2, <1>4 DEF LogInv, PastInv, EventStep
<1>5. CASE Same
  BY <1>4, <1>5 DEF Same
<1>6. CASE Emptied
  <2>1. p \in Pieces(slots[i]) /\ written' = written
    BY <1>2, <1>6, FileFacts DEF Emptied
  <2> QED
    BY <2>1, <1>4
<1>7. CASE Moved
  <2>1. idx - 1 \in Slots
    BY <1>7, FileFacts DEF Moved, Slots
  <2>2. p \in Pieces(slots[i]) \cup Pieces(slots[idx - 1]) /\ written' = written
    BY <1>2, <1>7, <2>1, FileFacts DEF Moved
  <2> QED
    BY <2>1, <2>2, <1>4
<1>8. ASSUME NEW w \in BOOLEAN, Extended(w)
      PROVE  /\ p.at \in 1..written'
             /\ p.ev \in 1..event'
             /\ Unwritten' => p.ev < event'
  <2>1. p \in Pieces(slots[i]) \/ p = Piece(w)
    BY <1>2, <1>8, LongerPieces, FileFacts DEF Extended
  <2>2. written' = written + 1 /\ stage = "write"
    BY <1>8 DEF Extended
  <2>3. Piece(w).at = written + 1 /\ Piece(w).ev = event
    BY DEF Piece
  <2>4. event \in 1..event'
    BY <1>1, <2>2 DEF EventStep, LogInv, StartedInv, InProgress
  <2> QED
    <3>1. p \in Pieces(slots[i]) => p.at \in 1..written' /\ p.ev \in 1..event' /\ (Unwritten' => p.ev < event')
      BY <1>4, <2>2
    <3>2. written + 1 \in 1..written' /\ ~Unwritten'
      BY <1>1, <1>2, <2>2 DEF EventStep
    <3> QED
      BY <2>1, <2>3, <2>4, <3>1, <3>2
<1> QED
  BY <1>5, <1>6, <1>7, <1>8, FilesStep DEF LogInv

LEMMA NextOrder == LogInv /\ [Next]_vars => RetainedInOrder'
<1> SUFFICES ASSUME LogInv, [Next]_vars PROVE RetainedInOrder'
  OBVIOUS
<1>1. /\ \A i \in Slots : Sorted(slots[i])
      /\ \A i, j \in Slots : i < j => Before(slots[j], slots[i])
  BY OrderForm DEF LogInv
<1>2. SUFFICES /\ \A i \in Slots : Sorted(slots'[i])
               /\ \A i, j \in Slots : i < j => Before(slots'[j], slots'[i])
  BY DEF RetainedInOrder, Numbers, Sorted, Before
<1>3. /\ slots \in [Slots -> Files \cup {Absent}] /\ written \in Nat /\ event \in Nat
      /\ \A i \in Slots : i \in Nat
  BY FileFacts DEF LogInv, Types, Slots
<1>4. CASE Same
  BY <1>1, <1>4 DEF Same
<1>5. CASE Emptied
  <2>1. PICK k \in Slots, f \in {Absent, EmptyFile} : slots' = [slots EXCEPT ![k] = f]
    BY <1>5 DEF Emptied
  <2>2. Sorted(f) /\ Pieces(f) = {}
    BY FileFacts DEF Sorted, EmptyFile
  <2>3. \A i \in Slots : slots'[i] = IF i = k THEN f ELSE slots[i]
    BY <1>3, <2>1
  <2> QED
    BY <1>1, <2>2, <2>3 DEF Before
<1>6. CASE Moved
  <2>1. PICK h \in Slots : h < idx /\ h = idx - 1
    BY <1>6, FileFacts DEF Moved, Slots
  <2>2. idx \in Slots /\ \A i \in Slots : slots'[i] = IF i = h THEN Absent
                                                     ELSE IF i = idx THEN slots[h] ELSE slots[i]
    BY <1>3, <1>6, <2>1 DEF Moved
  <2>3. \A f : Before(f, Absent) /\ Before(Absent, f)
    BY FileFacts DEF Before
  <2>4. \A i \in Slots : Sorted(slots'[i])
    BY <1>1, <2>2 DEF Sorted
  <2>5. ASSUME NEW i \in Slots, NEW j \in Slots, i < j PROVE Before(slots'[j], slots'[i])
    <3>1. CASE i = h \/ j = h
      BY <2>2, <2>3, <3>1
    <3>2. CASE i = idx /\ j # h
      <4>1. h < j /\ j # idx /\ i # h
        BY <1>3, <2>1, <2>2, <2>5, <3>2
      <4>2. slots'[j] = slots[j] /\ slots'[i] = slots[h]
        BY <2>2, <3>2, <4>1
      <4> QED
        BY <1>1, <4>1, <4>2
    <3>3. CASE j = idx /\ i # h
      <4>1. i < h /\ i # idx /\ j # h
        BY <1>3, <2>1, <2>2, <2>5, <3>3
      <4>2. slots'[i] = slots[i] /\ slots'[j] = slots[h]
        BY <2>2, <3>3, <4>1
      <4> QED
        BY <1>1, <4>1, <4>2
    <3>4. CASE i \notin {h, idx} /\ j \notin {h, idx}
      BY <1>1, <2>2, <2>5, <3>4
    <3> QED
      BY <3>1, <3>2, <3>3, <3>4
  <2> QED
    BY <2>4, <2>5
<1>7. ASSUME NEW w \in BOOLEAN, Extended(w)
      PROVE  /\ \A i \in Slots : Sorted(slots'[i])
             /\ \A i, j \in Slots : i < j => Before(slots'[j], slots'[i])
  <2>1. PICK g \in Files : Longer(slots[0], g, w) /\ slots' = [slots EXCEPT ![0] = g]
    BY <1>7 DEF Extended
  <2>2. \A i \in Slots : slots'[i] = IF i = 0 THEN g ELSE slots[i]
    BY <1>3, <2>1
  <2>3. Piece(w).at = written + 1 /\ Piece(w).ev = event
    BY DEF Piece
  <2>4. \A i \in Slots : \A p \in Pieces(slots[i]) : p.at \in 1..written /\ p.ev \in 1..event /\ p.ev < event
    BY <1>7 DEF Extended, LogInv, PastInv, Unwritten
  <2>6. Sorted(g)
    <3> DEFINE n == Len(slots[0].pieces)
    <3>1. /\ slots[0] \in Files /\ slots[0] # Absent /\ n \in Nat
          /\ DOMAIN slots[0].pieces = 1..n /\ DOMAIN g.pieces = 1..(n + 1)
      <4>1. slots[0] \in Files /\ g \in Files
        BY <2>1 DEF Longer
      <4>2. \A f \in Files : f.pieces \in Seq([at : Nat, ev : Nat, whole : BOOLEAN])
        BY DEF Files
      <4>3. n \in Nat /\ Len(g.pieces) = n + 1
        BY <2>1, LongerPieces
      <4>4. DOMAIN slots[0].pieces = 1..n /\ DOMAIN g.pieces = 1..Len(g.pieces)
        BY <4>1, <4>2
      <4> QED
        BY <4>1, <4>3, <4>4, FileFacts
    <3>2. \A a \in 1..n : g.pieces[a] = slots[0].pieces[a] /\ slots[0].pieces[a] \in Pieces(slots[0])
      BY <2>1, <3>1, LongerPieces, FileFacts
    <3>3. g.pieces[n + 1] = Piece(w)
      BY <2>1, LongerPieces
    <3>4. \A a, b \in 1..n : a < b =>
              slots[0].pieces[a].at < slots[0].pieces[b].at /\ slots[0].pieces[a].ev < slots[0].pieces[b].ev
      BY <1>1, <3>1, FileFacts DEF Sorted
    <3> HIDE DEF n
    <3>5. \A a \in 1..n : g.pieces[a].at < Piece(w).at /\ g.pieces[a].ev < Piece(w).ev
      BY <1>3, <2>3, <2>4, <3>2, FileFacts
    <3> SUFFICES ASSUME NEW a \in 1..(n + 1), NEW b \in 1..(n + 1), a < b
                 PROVE  g.pieces[a].at < g.pieces[b].at /\ g.pieces[a].ev < g.pieces[b].ev
      BY <3>1 DEF Sorted
    <3>6. a \in 1..n /\ (b \in 1..n \/ b = n + 1)
      BY <3>1
    <3> QED
      BY <3>2, <3>3, <3>4, <3>5, <3>6
  <2>7. ASSUME NEW i \in Slots, NEW j \in Slots, i < j PROVE Before(slots'[j], slots'[i])
    <3>1. j # 0 /\ slots'[j] = slots[j]
      BY <1>3, <2>2, <2>7
    <3>2. CASE i # 0
      BY <1>1, <2>2, <2>7, <3>1, <3>2
    <3>3. CASE i = 0
      <4>1. slots'[i] = g /\ Pieces(g) = Pieces(slots[0]) \cup {Piece(w)}
        BY <2>1, <2>2, <3>3, LongerPieces
      <4>2. \A q \in Pieces(slots[j]) : q.at < Piece(w).at
        BY <1>3, <2>3, <2>4
      <4> QED
        BY <1>1, <2>7, <3>1, <3>3, <4>1, <4>2 DEF Before
    <3> QED
      BY <3>2, <3>3
  <2> QED
    BY <1>1, <2>2, <2>6, <2>7
<1> QED
  BY <1>4, <1>5, <1>6, <1>7, FilesStep DEF LogInv

LEMMA LogInvHolds == Spec => []LogInv
<1>1. LogInv /\ [Next]_vars => StartedInv'
  BY NextEvent DEF LogInv, StartedInv, EventStep
<1>2. LogInv /\ [Next]_vars => LogInv'
  BY <1>1, NextTypes, NextPast, NextHole, NextOrder DEF LogInv
<1> QED
  BY <1>2, InitLog, PTL DEF Spec

\* RetainedInOrder: emit and rotate_files, for any number of files, leave every
\* file, and all of them from the oldest to the newest, in the order of the events.
THEOREM RetainedInOrderHolds == Spec => []RetainedInOrder
<1>1. LogInv => RetainedInOrder
  BY DEF LogInv
<1> QED
  BY <1>1, LogInvHolds, PTL
-----------------------------------------------------------------------------
(* What is retained.                                                       *)

LEMMA BlindGrows == [Next]_vars => blind \subseteq blind'
<1> SUFFICES ASSUME [Next]_vars PROVE blind \subseteq blind'
  OBVIOUS
<1>1. ASSUME NEW n \in Lengths, Emit(n) PROVE blind \subseteq blind'
  BY <1>1 DEF Emit, faults
<1>2. CASE RotateSkip \/ RotateRemove \/ RotateRename \/ RotateOpen \/ RotateBlind
  BY <1>2 DEF RotateSkip, RotateRemove, RotateRename, RotateOpen, RotateBlind, faults
<1>3. CASE Reopen \/ Write \/ Mark \/ Restart
  BY <1>3 DEF Reopen, Write, Mark, Restart, Length, faults
<1>4. CASE RotateFails \/ RotateOpenFails \/ ReopenFails
  BY <1>4 DEF RotateFails, RotateOpenFails, ReopenFails, GiveUp
<1>5. ASSUME NEW k \in 0..(MaxLength - 1), WriteFails(k) \/ Crash(k) PROVE blind \subseteq blind'
  BY <1>5 DEF WriteFails, GiveUp, Crash
<1>6. CASE Idle \/ UNCHANGED vars
  BY <1>6 DEF Idle, vars, faults
<1> QED
  BY <1>1, <1>2, <1>3, <1>4, <1>5, <1>6 DEF Next, FsStep

LEMMA NextSuffix == LogInv /\ RetainedIsSuffix /\ [Next]_vars => RetainedIsSuffix'
<1> SUFFICES ASSUME LogInv, RetainedIsSuffix, [Next]_vars, "exists" \notin blind',
                    NEW k \in Retained', NEW n \in k..written'
             PROVE  n \in Retained'
  BY DEF RetainedIsSuffix
<1>1. "exists" \notin blind
  BY BlindGrows
<1>2. \A a \in Retained : \A b \in a..written : b \in Retained
  BY <1>1 DEF RetainedIsSuffix
<1>3. /\ slots \in [Slots -> Files \cup {Absent}] /\ written \in Nat
      /\ \A i \in Slots : i \in 0..max_files
      /\ \A i, j \in Slots : i < j => Before(slots[j], slots[i])
      /\ \A a \in Retained : a \in 1..written
  BY OrderForm DEF LogInv, Types, Slots, PastInv, Retained, Numbers
<1>4. /\ \A a : a \in Retained <=> \E i \in Slots : \E p \in Pieces(slots[i]) : p.at = a
      /\ \A a : a \in Retained' <=> \E i \in Slots : \E p \in Pieces(slots'[i]) : p.at = a
  BY DEF Retained, Numbers
<1>5. CASE Same
  BY <1>2, <1>4, <1>5 DEF Same
<1>6. CASE Emptied
  <2>1. PICK e \in Slots, f \in {Absent, EmptyFile} :
            slots' = [slots EXCEPT ![e] = f] /\ (slots[e] = Absent \/ e = max_files)
    BY <1>1, <1>6 DEF Emptied
  <2>2. \A i \in Slots : slots'[i] = IF i = e THEN f ELSE slots[i]
    BY <1>3, <2>1
  <2>3. PICK i \in Slots \ {e} : \E p \in Pieces(slots[i]) : p.at = k
    BY <1>4, <2>2, FileFacts
  <2>4. PICK j \in Slots : \E q \in Pieces(slots[j]) : q.at = n
    BY <1>2, <1>4, <1>6, <2>3 DEF Emptied
  <2>5. j # e
    <3>1. CASE slots[e] = Absent
      BY <2>4, <3>1, FileFacts
    <3>2. CASE e = max_files /\ j = e
      <4>1. i < j
        BY <1>3, <2>3, <3>2, FileFacts
      <4>2. n < k
        <5>1. Before(slots[j], slots[i])
          BY <1>3, <4>1
        <5> QED
          BY <2>3, <2>4, <5>1 DEF Before
      <4>3. k \in Nat
        BY <1>3, <1>4, <2>3
      <4> QED
        BY <4>2, <4>3
    <3> QED
      BY <2>1, <3>1, <3>2
  <2> QED
    BY <1>4, <2>2, <2>4, <2>5
<1>7. CASE Moved
  <2>1. PICK h \in Slots : h # idx /\ h = idx - 1
    BY <1>7, FileFacts DEF Moved, Slots
  <2>2. idx \in Slots /\ Pieces(slots[idx]) = {} /\ written' = written
    BY <1>7, FileFacts DEF Moved
  <2>3. \A i \in Slots : slots'[i] = IF i = h THEN Absent
                                     ELSE IF i = idx THEN slots[h] ELSE slots[i]
    BY <1>3, <1>7, <2>1, <2>2 DEF Moved
  <2>4. \A a : a \in Retained <=> a \in Retained'
    <3>1. /\ Pieces(slots'[h]) = {} /\ Pieces(slots'[idx]) = Pieces(slots[h])
          /\ \A i \in Slots \ {h, idx} : slots'[i] = slots[i]
      BY <2>1, <2>2, <2>3, FileFacts
    <3>2. ASSUME NEW i \in Slots PROVE \E j \in Slots : Pieces(slots'[j]) = Pieces(slots[i])
      BY <2>1, <2>2, <3>1
    <3>3. ASSUME NEW i \in Slots
          PROVE  Pieces(slots'[i]) = {} \/ \E j \in Slots : Pieces(slots[j]) = Pieces(slots'[i])
      BY <2>1, <2>2, <3>1
    <3> QED
      BY <1>4, <3>2, <3>3
  <2> QED
    BY <1>2, <2>2, <2>4
<1>8. ASSUME NEW w \in BOOLEAN, Extended(w) PROVE n \in Retained'
  <2>1. PICK g \in Files : Longer(slots[0], g, w) /\ slots' = [slots EXCEPT ![0] = g]
    BY <1>8 DEF Extended
  <2>2. \A i \in Slots : slots'[i] = IF i = 0 THEN g ELSE slots[i]
    BY <1>3, <2>1
  <2>3. Pieces(g) = Pieces(slots[0]) \cup {Piece(w)}
    BY <2>1, LongerPieces
  <2>4. Piece(w).at = written + 1 /\ written' = written + 1
    BY <1>8 DEF Piece, Extended
  <2>5. \A a : a \in Retained' <=> a \in Retained \/ a = written + 1
    BY <1>4, <2>2, <2>3, <2>4, FileFacts
  <2> QED
    BY <1>2, <1>3, <2>4, <2>5
<1> QED
  BY <1>5, <1>6, <1>7, <1>8, FilesStep DEF LogInv

\* RetainedIsSuffix: however rotate_files fails or is cut off, and whatever emit
\* does afterwards, only the oldest lines are lost, for any number of files.
THEOREM RetainedIsSuffixHolds == Spec => []RetainedIsSuffix
<1>1. Init => RetainedIsSuffix
  <2> SUFFICES ASSUME Init, NEW k \in Retained PROVE FALSE
    BY DEF RetainedIsSuffix
  <2>1. \A i \in Slots : Pieces(slots[i]) = {}
    BY FileFacts DEF Init, Slots
  <2> QED
    BY <2>1 DEF Retained, Numbers
<1> QED
  BY <1>1, NextSuffix, LogInvHolds, PTL DEF Spec
-----------------------------------------------------------------------------
(* What becomes of the events.                                             *)

\* The events that are over are accounted for, each once.
LedgerInv == /\ reported \cup failed \cup cut = 1..(IF InProgress THEN event - 1 ELSE event)
             /\ reported \cap failed = {} /\ (reported \cup failed) \cap cut = {}

\* The events that are marked as written, or will be unless the process dies: their
\* lines are whole, and whole lines are theirs, or of events that it died with.
Told == reported \cup {e \in {event} : stage = "mark"}
LinesInv == \A i \in Slots : \A p \in Pieces(slots[i]) :
                (p.ev \in Told => p.whole) /\ (p.whole => p.ev \in Told \cup cut)

\* The event in progress, if any, is dealt with in one way, or not yet.
Kept == UNCHANGED <<reported, failed, cut>>
Begun == ~InProgress /\ Unwritten' /\ event' = event + 1 /\ Kept
Going == /\ (InProgress <=> InProgress') /\ event' = event /\ Kept
         /\ Write \/ (stage = "mark" <=> stage' = "mark")
Reported == /\ InProgress /\ ~InProgress' /\ event' = event
            /\ reported' = reported \cup {event} /\ UNCHANGED <<failed, cut>>
            /\ Mark
Lost == /\ InProgress /\ ~InProgress' /\ event' = event /\ UNCHANGED reported
        /\ \/ failed' = failed \cup {event} /\ cut' = cut /\ stage # "mark"
           \/ failed' = failed /\ cut' = cut \cup {event}

LEMMA LedgerStep == Types /\ [Next]_vars => Begun \/ Going \/ Reported \/ Lost
<1> SUFFICES ASSUME Types, [Next]_vars PROVE Begun \/ Going \/ Reported \/ Lost
  OBVIOUS
<1> USE DEF InProgress, Kept, outcome
<1>1. ASSUME NEW n \in Lengths, Emit(n) PROVE Begun
  BY <1>1 DEF Emit, Begun, Unwritten
<1>2. CASE RotateSkip \/ RotateRemove \/ RotateRename \/ RotateOpen \/ RotateBlind
  BY <1>2 DEF RotateSkip, RotateRemove, RotateRename, RotateOpen, RotateBlind, Rotating, state, Going
<1>3. CASE Reopen \/ Restart
  BY <1>3 DEF Reopen, Restart, Going
<1>4. CASE Write \/ Mark
  BY <1>4 DEF Write, Mark, Going, Reported
<1>5. CASE RotateFails \/ RotateOpenFails \/ ReopenFails
  BY <1>5 DEF RotateFails, RotateOpenFails, ReopenFails, Rotating, GiveUp, Lost
<1>6. ASSUME NEW k \in 0..(MaxLength - 1), WriteFails(k) PROVE Lost
  BY <1>6 DEF WriteFails, GiveUp, Lost
<1>7. ASSUME NEW k \in 0..(MaxLength - 1), Crash(k) PROVE Going \/ Lost
  <2>1. CASE stage = "ready"
    BY <1>7, <2>1 DEF Crash, Going
  <2>2. CASE stage # "ready"
    BY <1>7, <2>2 DEF Crash, Lost, Types
  <2> QED
    BY <2>1, <2>2
<1>8. CASE Idle \/ UNCHANGED vars
  <2>1. UNCHANGED <<stage, event, outcome>> /\ (InProgress <=> InProgress')
    BY <1>8 DEF Idle, vars, state
  <2> QED
    BY <2>1 DEF Going
<1> HIDE DEF InProgress, Kept
<1> QED
  BY <1>1, <1>2, <1>3, <1>4, <1>5, <1>6, <1>7, <1>8 DEF Next, FsStep

LEMMA NextLedger == LogInv /\ LedgerInv /\ [Next]_vars => LedgerInv'
<1> SUFFICES ASSUME LogInv, LedgerInv, [Next]_vars PROVE LedgerInv'
  OBVIOUS
<1>1. event \in Nat /\ (InProgress => event > 0)
  BY DEF LogInv, Types, StartedInv
<1>2. CASE Begun \/ Going
  BY <1>1, <1>2 DEF Begun, Going, Kept, LedgerInv, InProgress, Unwritten
<1>3. CASE Reported \/ Lost
  <2>1. /\ reported' \cup failed' \cup cut' = reported \cup failed \cup cut \cup {event}
        /\ InProgress /\ ~InProgress' /\ event' = event
    BY <1>3 DEF Reported, Lost
  <2>2. reported \cup failed \cup cut = 1..(event - 1)
    BY <2>1 DEF LedgerInv
  <2>3. event \notin reported \cup failed \cup cut
    BY <1>1, <2>2
  <2>4. 1..event = 1..(event - 1) \cup {event}
    BY <1>1, <2>1
  <2>5. reported' \cup failed' \cup cut' = 1..event
    BY <2>1, <2>2, <2>4
  <2>6. reported' \cap failed' = {} /\ (reported' \cup failed') \cap cut' = {}
    BY <1>3, <2>3 DEF LedgerInv, Reported, Lost
  <2> QED
    BY <2>1, <2>5, <2>6 DEF LedgerInv
<1> QED
  BY <1>2, <1>3, LedgerStep DEF LogInv

\* Of an event in the past, nothing new is told, but that the process died with it.
LEMMA ToldStep ==
    LogInv /\ LedgerInv /\ [Next]_vars =>
        /\ Told' \subseteq Told \cup {e \in {event} : Write}
        /\ Told \cup cut \subseteq Told' \cup cut'
<1> SUFFICES ASSUME LogInv, LedgerInv, [Next]_vars
             PROVE  /\ Told' \subseteq Told \cup {e \in {event} : Write}
                    /\ Told \cup cut \subseteq Told' \cup cut'
  OBVIOUS
<1>1. CASE Begun
  BY <1>1 DEF Begun, Kept, Told, InProgress, Unwritten
<1>2. CASE Going
  <2>1. Write => stage # "mark"
    BY DEF Write
  <2> QED
    BY <1>2, <2>1 DEF Going, Kept, Told
<1>3. CASE Reported
  <2>1. stage = "mark" /\ stage' = "ready"
    BY <1>3 DEF Reported, Mark
  <2> QED
    BY <1>3, <2>1 DEF Reported, Told
<1>4. CASE Lost
  BY <1>4 DEF Lost, Told, InProgress
<1> QED
  BY <1>1, <1>2, <1>3, <1>4, LedgerStep DEF LogInv

LEMMA NextLines == LogInv /\ LedgerInv /\ LinesInv /\ [Next]_vars => LinesInv'
<1> DEFINE Goal(p) == (p.ev \in Told' => p.whole) /\ (p.whole => p.ev \in Told' \cup cut')
<1> SUFFICES ASSUME LogInv, LedgerInv, LinesInv, [Next]_vars,
                    NEW i \in Slots, NEW p \in Pieces(slots'[i])
             PROVE  Goal(p)
  BY DEF LinesInv
<1>1. /\ slots \in [Slots -> Files \cup {Absent}] /\ event \in Nat
      /\ \A j \in Slots : \A q \in Pieces(slots[j]) : stage = "write" => q.ev < event
      /\ InProgress => event \notin reported
  BY DEF LogInv, Types, PastInv, Unwritten, LedgerInv, StartedInv
<1>2. ASSUME NEW j \in Slots, p \in Pieces(slots[j]) PROVE Goal(p)
  <2>1. (p.ev \in Told => p.whole) /\ (p.whole => p.ev \in Told \cup cut)
    BY <1>2 DEF LinesInv
  <2>2. Write => p.ev # event
    BY <1>1, <1>2 DEF Write
  <2> QED
    BY <2>1, <2>2, ToldStep
<1> HIDE DEF Goal
<1>3. CASE Same
  BY <1>2, <1>3, Zenon DEF Same
<1>4. CASE Emptied
  <2>1. p \in Pieces(slots[i])
    BY <1>1, <1>4, FileFacts DEF Emptied
  <2> QED
    BY <1>2, <2>1, Zenon
<1>5. CASE Moved
  <2>1. idx - 1 \in Slots
    BY <1>5, FileFacts DEF Moved, Slots
  <2>2. p \in Pieces(slots[i]) \/ p \in Pieces(slots[idx - 1])
    BY <1>1, <1>5, <2>1, FileFacts DEF Moved
  <2> QED
    BY <1>2, <2>1, <2>2, Zenon
<1>6. ASSUME Extended(TRUE) PROVE Goal(p)
  <2>1. p \in Pieces(slots[i]) \/ p = Piece(TRUE)
    BY <1>1, <1>6, LongerPieces, FileFacts DEF Extended
  <2>2. event \in Told'
    BY <1>6 DEF Extended, Write, Told
  <2>3. Piece(TRUE).whole = TRUE /\ Piece(TRUE).ev = event
    BY DEF Piece
  <2>4. Goal(Piece(TRUE))
    BY <2>2, <2>3 DEF Goal
  <2> QED
    BY <1>2, <2>1, <2>4, Zenon
<1>7. ASSUME Extended(FALSE) PROVE Goal(p)
  <2>1. p \in Pieces(slots[i]) \/ p = Piece(FALSE)
    BY <1>1, <1>7, LongerPieces, FileFacts DEF Extended
  <2>2. event \notin Told
    BY <1>1, <1>7 DEF Extended, InProgress, Told
  <2>3. event \notin Told'
    BY <1>7, <2>2, ToldStep DEF Extended
  <2>4. Piece(FALSE).whole = FALSE /\ Piece(FALSE).ev = event
    BY DEF Piece
  <2>5. Goal(Piece(FALSE))
    BY <2>3, <2>4 DEF Goal
  <2> QED
    BY <1>2, <2>1, <2>5, Zenon
<1> QED
  BY <1>3, <1>4, <1>5, <1>6, <1>7, FilesStep DEF LogInv

\* EveryEventAccounted: emit marks every event once, or the process died with it; none
\* marked as written is a fragment, none marked as failed a whole line, and a whole line
\* without a mark is the last thing that a process did.
THEOREM EveryEventAccountedHolds == Spec => []EveryEventAccounted
<1>1. Init => LedgerInv /\ LinesInv
  <2> SUFFICES ASSUME Init PROVE LedgerInv /\ LinesInv
    OBVIOUS
  <2>1. LedgerInv
    BY DEF Init, LedgerInv, InProgress
  <2>2. \A i \in Slots : Pieces(slots[i]) = {}
    BY FileFacts DEF Init, Slots
  <2> QED
    BY <2>1, <2>2 DEF LinesInv
<1>2. LedgerInv /\ LinesInv => EveryEventAccounted
  BY DEF LedgerInv, LinesInv, EveryEventAccounted, Told
<1> QED
  BY <1>1, <1>2, NextLedger, NextLines, LogInvHolds, PTL DEF Spec
-----------------------------------------------------------------------------
(* The sizes of the files.                                                 *)

Whole(f) == {p \in Pieces(f) : p.whole}
Net(f) == IF f = Absent THEN 0 ELSE f.size - f.torn
Fits(f) == f = Absent \/ Net(f) <= MaxBytes \/ Cardinality(Whole(f)) = 1

\* As far as metadata() told: bytes_written is not less than what the whole lines in
\* the file take, and the line in progress fits or comes first.
CountInv == "metadata" \notin blind =>
    /\ \A i \in Slots : Fits(slots[i])
    /\ stage \notin {"mark", "down"} => Net(slots[0]) <= bytes_written
    /\ stage = "mark" => Net(slots[0]) <= bytes_written + len
    /\ stage \in {"open", "write"} => Net(slots[0]) + len <= MaxBytes \/ Whole(slots[0]) = {}

LEMMA LongerSize ==
    ASSUME NEW f, NEW g, len \in Nat
    PROVE  /\ Longer(f, g, TRUE) => Net(g) = Net(f) + len /\ Whole(g) = Whole(f) \cup {Piece(TRUE)}
           /\ Longer(f, g, FALSE) => Net(g) = Net(f) /\ Whole(g) = Whole(f)
<1>1. ASSUME NEW w \in BOOLEAN, Longer(f, g, w)
      PROVE  /\ f # Absent /\ g # Absent
             /\ f.size \in Nat /\ f.torn \in Nat /\ g.size \in Nat /\ g.torn \in Nat
             /\ Pieces(g) = Pieces(f) \cup {Piece(w)}
  BY <1>1, FileFacts, LongerPieces DEF Longer, Files
<1>2. ASSUME Longer(f, g, TRUE)
      PROVE  Net(g) = Net(f) + len /\ Whole(g) = Whole(f) \cup {Piece(TRUE)}
  <2>1. Net(g) = Net(f) + len
    <3>1. g.size = f.size + len /\ g.torn = f.torn
      BY <1>2 DEF Longer
    <3>2. /\ f # Absent /\ g # Absent
          /\ f.size \in Nat /\ f.torn \in Nat
      BY <1>1, <1>2, Zenon
    <3> QED
      BY <3>1, <3>2 DEF Net
  <2>2. Piece(TRUE).whole = TRUE
    BY DEF Piece
  <2>3. Pieces(g) = Pieces(f) \cup {Piece(TRUE)}
    BY <1>1, <1>2
  <2> QED
    BY <2>1, <2>2, <2>3, Zenon DEF Whole
<1>3. ASSUME Longer(f, g, FALSE)
      PROVE  Net(g) = Net(f) /\ Whole(g) = Whole(f)
  <2>1. Net(g) = Net(f)
    BY <1>1, <1>3 DEF Net, Longer
  <2>2. Piece(FALSE).whole = FALSE
    BY DEF Piece
  <2>3. Pieces(g) = Pieces(f) \cup {Piece(FALSE)}
    BY <1>1, <1>3
  <2> QED
    BY <2>1, <2>2, <2>3, Zenon DEF Whole
<1> QED
  BY <1>2, <1>3

LEMMA NetFacts ==
    /\ Net(Absent) = 0 /\ Net(EmptyFile) = 0 /\ Whole(EmptyFile) = {} /\ Whole(Absent) = {}
    /\ Fits(Absent) /\ Fits(EmptyFile)
    /\ \A f \in Files \cup {Absent} : Net(f) \in Int /\ SizeOf(f) \in Nat /\ Net(f) <= SizeOf(f)
<1>1. Net(EmptyFile) = 0 /\ MaxBytes \in Nat
  BY FileFacts, AuditAssumption DEF Net, EmptyFile
<1>2. \A f \in Files \cup {Absent} : Net(f) \in Int /\ SizeOf(f) \in Nat /\ Net(f) <= SizeOf(f)
  BY FileFacts DEF Files, Net, SizeOf
<1> QED
  BY <1>1, <1>2, FileFacts DEF Net, Whole, Fits

\* The limit, step by step of what may happen to the files.
LEMMA NextFits ==
    ASSUME LogInv, CountInv, [Next]_vars, "metadata" \notin blind
    PROVE  \A i \in Slots : Fits(slots'[i])
<1>1. /\ slots \in [Slots -> Files \cup {Absent}] /\ len \in Nat
      /\ \A i \in Slots : Fits(slots[i])
  BY DEF LogInv, Types, CountInv
<1>2. CASE Same
  BY <1>1, <1>2 DEF Same
<1>3. CASE Emptied
  <2>1. \A i \in Slots : slots'[i] = slots[i] \/ slots'[i] \in {Absent, EmptyFile}
    BY <1>1, <1>3 DEF Emptied
  <2> QED
    BY <1>1, <2>1, NetFacts
<1>4. CASE Moved
  <2>1. idx - 1 \in Slots
    BY <1>4, FileFacts DEF Moved, Slots
  <2>2. \A i \in Slots : slots'[i] \in {slots[i], slots[idx - 1], Absent}
    BY <1>1, <1>4, <2>1 DEF Moved
  <2> QED
    BY <1>1, <2>1, <2>2, NetFacts
<1>5. ASSUME Extended(TRUE) PROVE \A i \in Slots : Fits(slots'[i])
  <2>1. PICK g \in Files : Longer(slots[0], g, TRUE) /\ slots' = [slots EXCEPT ![0] = g]
    BY <1>5 DEF Extended
  <2>2. Net(slots[0]) + len <= MaxBytes \/ Whole(slots[0]) = {}
    BY <1>5 DEF Extended, CountInv
  <2>3. Net(g) = Net(slots[0]) + len /\ Whole(g) = Whole(slots[0]) \cup {Piece(TRUE)}
    BY <1>1, <2>1, LongerSize
  <2>4. Fits(g)
    BY <2>2, <2>3, FS_Singleton DEF Fits
  <2> QED
    BY <1>1, <2>1, <2>4
<1>6. ASSUME Extended(FALSE) PROVE \A i \in Slots : Fits(slots'[i])
  <2>1. PICK g \in Files : Longer(slots[0], g, FALSE) /\ slots' = [slots EXCEPT ![0] = g]
    BY <1>6 DEF Extended
  <2>2. Net(g) = Net(slots[0]) /\ Whole(g) = Whole(slots[0])
    BY <1>1, <2>1, LongerSize
  <2>3. slots[0] # Absent
    BY <2>1, FileFacts DEF Longer
  <2>4. Fits(g)
    BY <1>1, <2>2, <2>3, FileFacts DEF Fits
  <2> QED
    BY <1>1, <2>1, <2>4
<1> QED
  BY <1>2, <1>3, <1>4, <1>5, <1>6, FilesStep DEF LogInv

LEMMA NextCount == LogInv /\ CountInv /\ [Next]_vars => CountInv'
<1> SUFFICES ASSUME LogInv, CountInv, [Next]_vars, "metadata" \notin blind'
             PROVE  /\ \A i \in Slots : Fits(slots'[i])
                    /\ stage' \notin {"mark", "down"} => Net(slots'[0]) <= bytes_written'
                    /\ stage' = "mark" => Net(slots'[0]) <= bytes_written' + len'
                    /\ stage' \in {"open", "write"} =>
                           Net(slots'[0]) + len' <= MaxBytes \/ Whole(slots'[0]) = {}
  BY DEF CountInv
<1>0. "metadata" \notin blind
  BY BlindGrows
<1>1. /\ stage \notin {"mark", "down"} => Net(slots[0]) <= bytes_written
      /\ stage = "mark" => Net(slots[0]) <= bytes_written + len
      /\ stage \in {"open", "write"} => Net(slots[0]) + len <= MaxBytes \/ Whole(slots[0]) = {}
  BY <1>0 DEF CountInv
<1>2. \A i \in Slots : Fits(slots'[i])
  BY <1>0, NextFits
<1>3. /\ slots \in [Slots -> Files \cup {Absent}] /\ slots[0] \in Files \cup {Absent}
      /\ len \in Nat /\ bytes_written \in Nat /\ MaxBytes \in Nat
      /\ Net(slots[0]) \in Int /\ SizeOf(slots[0]) \in Nat /\ Net(slots[0]) <= SizeOf(slots[0])
  BY FileFacts, NetFacts, AuditAssumption DEF LogInv, Types
<1>4. SUFFICES /\ stage' \notin {"mark", "down"} => Net(slots'[0]) <= bytes_written'
               /\ stage' = "mark" => Net(slots'[0]) <= bytes_written' + len'
               /\ stage' \in {"open", "write"} =>
                      Net(slots'[0]) + len' <= MaxBytes \/ Whole(slots'[0]) = {}
  BY <1>2
<1> DEFINE Goal == /\ stage' \notin {"mark", "down"} => Net(slots'[0]) <= bytes_written'
                   /\ stage' = "mark" => Net(slots'[0]) <= bytes_written' + len'
                   /\ stage' \in {"open", "write"} =>
                          Net(slots'[0]) + len' <= MaxBytes \/ Whole(slots'[0]) = {}
<1>5. ASSUME NEW n \in Lengths, Emit(n) PROVE Goal
  <2>1. n \in Nat /\ slots' = slots /\ bytes_written' = bytes_written /\ stage = "ready" /\ len' = n
    BY <1>5, AuditAssumption DEF Emit
  <2>2. stage' # "mark" /\ (stage' \in {"open", "write"} => ~(bytes_written + n > MaxBytes))
    BY <1>5 DEF Emit
  <2> QED
    BY <1>1, <1>3, <2>1, <2>2
<1>6. ASSUME RotateSkip \/ RotateBlind PROVE Goal
  BY <1>1, <1>6 DEF RotateSkip, RotateBlind, Rotating
<1>7. ASSUME RotateRemove \/ RotateRename PROVE Goal
  <2>1. slots'[0] = Absent \/ slots'[0] = slots[0]
    <3>1. idx \in Slots /\ idx > 0
      BY <1>7 DEF RotateRemove, RotateRename, Rotating, LogInv, Types
    <3>2. idx - 1 \in Slots /\ idx # 0
      BY <3>1, FileFacts DEF Slots
    <3> QED
      BY <1>3, <1>7, <3>1, <3>2, FileFacts DEF RotateRemove, RotateRename
  <2>2. stage' = "rotate" /\ bytes_written' = bytes_written /\ stage = "rotate"
    BY <1>7 DEF RotateRemove, RotateRename, Rotating, state
  <2> QED
    BY <1>1, <1>3, <2>1, <2>2, NetFacts
<1>8. ASSUME RotateOpen PROVE Goal
  <2>1. slots'[0] = EmptyFile /\ bytes_written' = 0 /\ stage' = "write"
    BY <1>3, <1>8, FileFacts DEF RotateOpen
  <2> QED
    BY <2>1, NetFacts
<1>9. ASSUME Reopen \/ Restart PROVE Goal
  <2>1. slots'[0] = Created(slots[0]) /\ len' = len
    BY <1>3, <1>9, FileFacts DEF Reopen, Restart
  <2>2. Net(slots'[0]) = Net(slots[0]) /\ Whole(slots'[0]) = Whole(slots[0])
    BY <2>1, NetFacts DEF Created
  <2>3. bytes_written' = SizeOf(slots[0])
    BY <1>9 DEF Reopen, Restart, Length
  <2>4. stage' = "write" => stage = "open"
    BY <1>9 DEF Reopen, Restart
  <2>5. stage' \in {"ready", "write"}
    BY <1>9 DEF Reopen, Restart
  <2> QED
    BY <1>1, <1>3, <2>1, <2>2, <2>3, <2>4, <2>5
<1>10. ASSUME Write PROVE Goal
  <2>1. slots[0] \in Files
    BY <1>3, <1>10 DEF Write, LogInv, HandleInv
  <2>2. Longer(slots[0], AddLine(slots[0], len), TRUE)
    BY <2>1, AddLonger DEF LogInv, Types
  <2>3. Net(slots'[0]) = Net(slots[0]) + len
    BY <1>3, <1>10, <2>2, LongerSize, FileFacts DEF Write
  <2> QED
    BY <1>1, <1>3, <1>10, <2>3 DEF Write
<1>11. ASSUME RotateFails \/ RotateOpenFails \/ ReopenFails PROVE Goal
  BY <1>1, <1>11 DEF RotateFails, RotateOpenFails, ReopenFails, Rotating, GiveUp
<1>12. ASSUME NEW k \in 0..(MaxLength - 1), WriteFails(k) PROVE Goal
  <2>1. k \in Nat /\ stage = "write" /\ stage' = "ready" /\ bytes_written' = bytes_written
    BY <1>3, <1>12 DEF WriteFails, GiveUp
  <2>2. slots[0] \in Files
    BY <1>3, <2>1 DEF LogInv, HandleInv
  <2>3. Longer(slots[0], AddFragment(slots[0], k), FALSE)
    BY <2>1, <2>2, AddLonger DEF LogInv, Types
  <2>4. Net(slots'[0]) = Net(slots[0])
    <3>1. CASE k = 0
      BY <1>12, <3>1 DEF WriteFails
    <3>2. CASE k # 0
      BY <1>3, <1>12, <2>3, <3>2, LongerSize, FileFacts DEF WriteFails
    <3> QED
      BY <3>1, <3>2
  <2> QED
    BY <1>1, <2>1, <2>4
<1>13. ASSUME NEW k \in 0..(MaxLength - 1), Crash(k) PROVE Goal
  BY <1>13 DEF Crash
<1>14. ASSUME Mark PROVE Goal
  BY <1>1, <1>3, <1>14 DEF Mark
<1>15. ASSUME Idle \/ UNCHANGED vars PROVE Goal
  <2>1. UNCHANGED <<slots, bytes_written, stage, len>>
    BY <1>15 DEF Idle, vars, state
  <2> QED
    BY <1>1, <2>1
<1> HIDE DEF Goal
<1>16. Goal
  BY <1>5, <1>6, <1>7, <1>8, <1>9, <1>10, <1>11, <1>12, <1>13, <1>14, <1>15 DEF Next, FsStep
<1> QED
  BY <1>16 DEF Goal

\* SizeBounded: bytes_written, though stale after a failed rotation and blind to what
\* failed writes left, is enough for emit to keep every file within max_bytes.
THEOREM SizeBoundedHolds == Spec => []SizeBounded
<1>1. Init => CountInv
  <2> SUFFICES ASSUME Init PROVE CountInv
    OBVIOUS
  <2>1. \A i \in Slots : slots[i] \in {Absent, EmptyFile}
    BY FileFacts DEF Init, Slots
  <2>2. slots[0] = EmptyFile /\ bytes_written = 0 /\ stage = "ready"
    BY FileFacts DEF Init, Slots
  <2> QED
    BY <2>1, <2>2, NetFacts DEF CountInv
<1>2. CountInv => SizeBounded
  BY DEF CountInv, SizeBounded, Fits, Net, Whole
<1> QED
  BY <1>1, <1>2, NextCount, LogInvHolds, PTL DEF Spec
-----------------------------------------------------------------------------
(* ServiceBus.                                                             *)

Task == [stage : {"new", "spawned", "sending", "ok", "failed"},
         topic : Topics \cup {NoTopic},
         senders : Seq(Subscribers),
         all : SUBSET Subscribers,
         started : Nat,
         ended : Nat]

BusTypes == /\ subscribers \in [Topics -> Seq(Subscribers)]
         /\ topic \in [Subscribers -> Topics \cup {NoTopic}]
         /\ open \in SUBSET Subscribers
         /\ queue \in [Subscribers -> Seq(Events)]
         /\ received \in [Subscribers -> Seq(Events)]
         /\ emitted \in Nat
         /\ task \in [Events -> Task]
         /\ clock \in Nat

\* A topic has each of its subscribers once, and a subscriber no other topic.
TopicInv == \A t \in Topics : /\ IsInjective(subscribers[t])
                              /\ \A s \in ToSet(subscribers[t]) : topic[s] = t

\* What a publishing task works on is what publish copied when it began.
TaskInv == \A e \in Events :
    /\ e > emitted <=> task[e].stage = "new"
    /\ task[e].stage # "new" => task[e].topic \in Topics
    /\ task[e].stage \in {"new", "spawned"} => task[e].all = {}
    /\ task[e].stage # "sending" => task[e].senders = <<>>
    /\ IsInjective(task[e].senders)
    /\ ToSet(task[e].senders) \subseteq task[e].all
    /\ \A s \in task[e].all : topic[s] = task[e].topic

\* The times of a publish call.
ClockInv == \A e \in Events : /\ task[e].started <= clock
                              /\ task[e].stage # "ok" => task[e].ended = 0

\* What a receiver gets was published to its topic, each event once.
StreamInv == \A s \in Subscribers :
    /\ IsInjective(Stream(s))
    /\ \A e \in ToSet(Stream(s)) : /\ task[e].stage \in {"sending", "ok"}
                                   /\ task[e].topic = topic[s]

\* A sender that is still to come has not got the event; one that was has got it,
\* but for those that could not take it.
SentInv == \A e \in Events :
    /\ \A s \in ToSet(task[e].senders) : e \notin ToSet(Stream(s))
    /\ \A s \in task[e].all : \/ s \in ToSet(task[e].senders)
                              \/ <<e, s>> \in dropped
                              \/ s \notin open
                              \/ e \in ToSet(Stream(s))

BusInv == /\ BusTypes /\ TopicInv /\ TaskInv
          /\ ClockInv /\ StreamInv /\ SentInv /\ SequentialInOrder
-----------------------------------------------------------------------------
(* Sequences.                                                              *)

LEMMA MemberFacts ==
    ASSUME NEW S, NEW q \in Seq(S)
    PROVE  /\ ToSet(q) = {q[i] : i \in 1..Len(q)} /\ ToSet(q) \subseteq S
           /\ q = <<>> <=> ToSet(q) = {}
           /\ IsInjective(q) <=> \A i, j \in 1..Len(q) : q[i] = q[j] => i = j
<1>1. DOMAIN q = 1..Len(q) /\ \A i \in 1..Len(q) : q[i] \in S
  OBVIOUS
<1>2. ToSet(q) = {q[i] : i \in 1..Len(q)}
  BY <1>1 DEF ToSet
<1>3. q = <<>> <=> ToSet(q) = {}
  <2>1. q = <<>> <=> Len(q) = 0
    OBVIOUS
  <2>2. Len(q) \in Nat
    OBVIOUS
  <2>3. Len(q) # 0 => q[1] \in ToSet(q)
    BY <2>2, <1>2
  <2>4. Len(q) = 0 => ToSet(q) = {}
    BY <1>2
  <2> QED
    BY <2>1, <2>3, <2>4
<1>4. IsInjective(q) <=> \A i, j \in 1..Len(q) : q[i] = q[j] => i = j
  BY <1>1 DEF IsInjective
<1> QED
  BY <1>1, <1>2, <1>3, <1>4

LEMMA AppendFacts ==
    ASSUME NEW S, NEW q \in Seq(S), NEW x \in S
    PROVE  /\ ToSet(Append(q, x)) = ToSet(q) \cup {x}
           /\ IsInjective(q) /\ x \notin ToSet(q) => IsInjective(Append(q, x))
<1> DEFINE p == Append(q, x)
<1>1. /\ p \in Seq(S) /\ Len(p) = Len(q) + 1 /\ p[Len(q) + 1] = x
      /\ \A i \in 1..Len(q) : p[i] = q[i]
  OBVIOUS
<1>2. Len(q) \in Nat
  OBVIOUS
<1>3. ToSet(p) = {p[i] : i \in 1..Len(p)} /\ ToSet(q) = {q[i] : i \in 1..Len(q)}
  BY <1>1, MemberFacts
<1> HIDE DEF p
<1>4. ToSet(p) = ToSet(q) \cup {x}
  BY <1>1, <1>2, <1>3
<1>5. ASSUME IsInjective(q), x \notin ToSet(q)
      PROVE  IsInjective(p)
  <2>1. \A i, j \in 1..Len(q) : q[i] = q[j] => i = j
    BY <1>5, MemberFacts
  <2>2. \A i \in 1..Len(q) : q[i] # x
    BY <1>5, <1>3
  <2>3. \A i, j \in 1..(Len(q) + 1) : p[i] = p[j] => i = j
    BY <1>1, <1>2, <2>1, <2>2
  <2> QED
    BY <1>1, <2>3, MemberFacts
<1> QED
  BY <1>4, <1>5 DEF p

LEMMA TailFacts ==
    ASSUME NEW S, NEW q \in Seq(S), q # <<>>, IsInjective(q)
    PROVE  /\ Head(q) \in S /\ Tail(q) \in Seq(S)
           /\ ToSet(q) = ToSet(Tail(q)) \cup {Head(q)}
           /\ Head(q) \notin ToSet(Tail(q))
           /\ IsInjective(Tail(q))
<1> DEFINE p == Tail(q)
<1>1. /\ p \in Seq(S) /\ Len(q) >= 1 /\ Len(p) = Len(q) - 1 /\ Head(q) = q[1]
      /\ \A i \in 1..Len(p) : p[i] = q[i + 1]
  OBVIOUS
<1>2. \A i, j \in 1..Len(q) : q[i] = q[j] => i = j
  BY MemberFacts
<1>3. ToSet(p) = {p[i] : i \in 1..Len(p)} /\ ToSet(q) = {q[i] : i \in 1..Len(q)}
  BY <1>1, MemberFacts
<1>4. ToSet(p) \cup {Head(q)} \subseteq ToSet(q)
  BY <1>1, <1>3
<1>5. \A i \in 1..Len(q) : q[i] \in ToSet(p) \cup {Head(q)}
  <2>1. TAKE i \in 1..Len(q)
  <2>2. CASE i = 1
    BY <2>2, <1>1
  <2>3. CASE i # 1
    <3>1. i - 1 \in 1..Len(p) /\ p[i - 1] = q[i]
      BY <2>3, <1>1
    <3> QED
      BY <3>1, <1>3
  <2> QED
    BY <2>2, <2>3
<1>6. Head(q) \notin ToSet(p)
  BY <1>1, <1>2, <1>3
<1>7. \A i, j \in 1..Len(p) : p[i] = p[j] => i = j
  BY <1>1, <1>2
<1>8. IsInjective(p)
  BY <1>1, <1>7, MemberFacts
<1> QED
  BY <1>1, <1>3, <1>4, <1>5, <1>6, <1>8

LEMMA ConcatFacts ==
    ASSUME NEW S, NEW r \in Seq(S), NEW q \in Seq(S)
    PROVE  /\ r \o q \in Seq(S)
           /\ r \o <<>> = r
           /\ q # <<>> => Append(r, Head(q)) \o Tail(q) = r \o q
           /\ \A x \in S : r \o Append(q, x) = Append(r \o q, x)
           /\ Len(r) <= Len(r \o q) /\ \A i \in 1..Len(r) : r[i] = (r \o q)[i]
<1>1. r \o q \in Seq(S) /\ r \o <<>> = r
  OBVIOUS
<1>2. ASSUME q # <<>> PROVE Append(r, Head(q)) \o Tail(q) = r \o q
  BY <1>2
<1>3. ASSUME NEW x \in S PROVE r \o Append(q, x) = Append(r \o q, x)
  OBVIOUS
<1>4. Len(r) <= Len(r \o q) /\ \A i \in 1..Len(r) : r[i] = (r \o q)[i]
  OBVIOUS
<1> QED
  BY <1>1, <1>2, <1>3, <1>4
-----------------------------------------------------------------------------
(* The types, and the topics.                                              *)

LEMMA InitBus == BusInit => BusInv
<1> SUFFICES ASSUME BusInit PROVE BusInv
  OBVIOUS
<1>1. NewTask \in Task
  BY DEF NewTask, Task
<1>2. BusTypes
  BY <1>1 DEF BusInit, BusTypes
<1>3. ToSet(<<>>) = {} /\ IsInjective(<<>>)
  BY DEF ToSet, IsInjective
<1>4. \A s \in Subscribers : Stream(s) = <<>>
  BY DEF BusInit, Stream
<1>5. \A e \in Events : task[e] = NewTask /\ e > emitted
  BY BusAssumption DEF BusInit, Events
<1>6. TopicInv
  BY <1>3 DEF BusInit, TopicInv
<1>7. TaskInv
  BY <1>3, <1>5 DEF TaskInv, NewTask
<1>8. ClockInv
  BY <1>5 DEF BusInit, ClockInv, NewTask
<1>9. StreamInv /\ SequentialInOrder
  BY <1>3, <1>4 DEF StreamInv, SequentialInOrder
<1>10. SentInv
  BY <1>3, <1>5 DEF SentInv, NewTask
<1> QED
  BY <1>2, <1>6, <1>7, <1>8, <1>9, <1>10 DEF BusInv

\* Publishing and the receivers leave the topics alone.
LEMMA TopicsKept == TopicInv /\ UNCHANGED <<subscribers, topic>> => TopicInv'
  BY DEF TopicInv

\* The receivers' side leaves the tasks alone.
LEMMA TasksKept == TaskInv /\ UNCHANGED <<topic, emitted, task>> => TaskInv'
  BY DEF TaskInv

LEMMA TimesKept == ClockInv /\ UNCHANGED <<task, clock>> => ClockInv'
  BY DEF ClockInv

\* Nothing reaches a receiver.
LEMMA StreamsKept ==
    ASSUME StreamInv, UNCHANGED topic, \A s \in Subscribers : Stream(s)' = Stream(s),
           \A e \in Events : task[e].stage \in {"sending", "ok"} =>
               task'[e].stage \in {"sending", "ok"} /\ task'[e].topic = task[e].topic,
           BusTypes
    PROVE  StreamInv'
<1>1. \A s \in Subscribers : Stream(s) \in Seq(Events)
  BY ConcatFacts DEF BusTypes, Stream
<1>2. \A s \in Subscribers : ToSet(Stream(s)) \subseteq Events
  BY <1>1, MemberFacts
<1> QED
  BY <1>2 DEF StreamInv

LEMMA SubscribeKeeps ==
    ASSUME BusInv, NEW s \in Subscribers, NEW t \in Topics, subscribe(s, t)
    PROVE  BusInv'
<1> USE DEF BusInv, subscribe
<1>1. BusTypes'
  BY DEF BusTypes
<1>2. TopicInv'
  <2> SUFFICES ASSUME NEW u \in Topics
               PROVE  /\ IsInjective(subscribers'[u])
                      /\ \A r \in ToSet(subscribers'[u]) : topic'[r] = u
    BY DEF TopicInv
  <2>1. s \notin ToSet(subscribers[u])
    BY BusAssumption DEF TopicInv
  <2>2. CASE u = t
    <3>1. subscribers'[u] = Append(subscribers[u], s) /\ subscribers[u] \in Seq(Subscribers)
      BY <2>2 DEF BusTypes
    <3>2. ToSet(subscribers'[u]) = ToSet(subscribers[u]) \cup {s} /\ IsInjective(subscribers'[u])
      BY <3>1, <2>1, AppendFacts DEF TopicInv
    <3> QED
      BY <3>2, <2>2, MemberFacts, <3>1 DEF TopicInv, BusTypes
  <2>3. CASE u # t
    <3>1. subscribers'[u] = subscribers[u] /\ ToSet(subscribers[u]) \subseteq Subscribers
      BY <2>3, MemberFacts DEF BusTypes
    <3> QED
      BY <3>1, <2>1 DEF TopicInv, BusTypes
  <2> QED
    BY <2>2, <2>3
<1>3. \A e \in Events : s \notin task[e].all
  BY BusAssumption DEF TaskInv, BusTypes
<1>4. \A e \in Events : task[e].all \subseteq Subscribers
  BY DEF BusTypes, Task
<1>5. TaskInv'
  <2>1. \A e \in Events : \A r \in task[e].all : topic'[r] = topic[r]
    BY <1>3, <1>4 DEF BusTypes
  <2> QED
    BY <2>1 DEF TaskInv
<1>6. \A r \in Subscribers : Stream(r)' = Stream(r)
  BY DEF Stream
<1>7. StreamInv'
  <2>1. ToSet(Stream(s)) = {}
    <3>1. Stream(s) \in Seq(Events)
      BY ConcatFacts DEF BusTypes, Stream
    <3>2. \A e \in ToSet(Stream(s)) : e \in Events /\ task[e].topic \in Topics
      BY <3>1, MemberFacts DEF StreamInv, TaskInv
    <3> QED
      BY <3>2, BusAssumption DEF StreamInv
  <2>2. \A r \in Subscribers : r # s => topic'[r] = topic[r]
    BY DEF BusTypes
  <2> QED
    BY <1>6, <2>1, <2>2 DEF StreamInv
<1>8. SentInv'
  BY <1>3, <1>4, <1>6 DEF SentInv, TaskInv
<1>9. SequentialInOrder'
  BY <1>6 DEF SequentialInOrder
<1> QED
  BY <1>1, <1>2, <1>5, <1>7, <1>8, <1>9, TimesKept

\* The receiver's messages go, those it has taken stay.
LEMMA DropKeeps ==
    ASSUME BusInv, NEW s \in Subscribers, DropReceiver(s)
    PROVE  BusInv'
<1> USE DEF BusInv, DropReceiver
<1>1. BusTypes'
  BY DEF BusTypes
<1>2. \A r \in Subscribers : r # s => Stream(r)' = Stream(r)
  BY DEF Stream, BusTypes
<1>3. /\ Stream(s) \in Seq(Events) /\ Stream(s)' \in Seq(Events)
      /\ Len(Stream(s)') <= Len(Stream(s))
      /\ \A i \in 1..Len(Stream(s)') : Stream(s)'[i] = Stream(s)[i]
  <2>1. received[s] \in Seq(Events) /\ queue[s] \in Seq(Events) /\ queue'[s] = <<>>
    BY DEF BusTypes
  <2>2. Stream(s)' = received[s] /\ Stream(s) = received[s] \o queue[s]
    BY <2>1, ConcatFacts DEF Stream
  <2> DEFINE r == received[s]
             q == queue[s]
  <2>3. /\ r \o q \in Seq(Events) /\ Len(r) <= Len(r \o q)
        /\ \A i \in 1..Len(r) : r[i] = (r \o q)[i]
    BY <2>1, ConcatFacts
  <2> QED
    BY <2>1, <2>2, <2>3
<1>4. /\ DOMAIN (Stream(s)') \subseteq DOMAIN Stream(s)
      /\ \A i \in DOMAIN (Stream(s)') : Stream(s)'[i] = Stream(s)[i]
  BY <1>3
<1>5. ToSet(Stream(s)') \subseteq ToSet(Stream(s))
  BY <1>4 DEF ToSet
<1>6. StreamInv'
  <2>1. IsInjective(Stream(s)')
    BY <1>4 DEF StreamInv, IsInjective
  <2> QED
    BY <2>1, <1>2, <1>5 DEF StreamInv
<1>7. SentInv'
  <2> SUFFICES ASSUME NEW e \in Events
               PROVE  /\ \A r \in ToSet(task[e].senders) : e \notin ToSet(Stream(r)')
                      /\ \A r \in task[e].all : \/ r \in ToSet(task[e].senders)
                                                \/ <<e, r>> \in dropped
                                                \/ r \notin open'
                                                \/ e \in ToSet(Stream(r)')
    BY DEF SentInv
  <2>1. ToSet(task[e].senders) \subseteq task[e].all /\ task[e].all \subseteq Subscribers
    BY DEF TaskInv, BusTypes, Task
  <2>2. \A r \in Subscribers : r # s => (r \in open' <=> r \in open)
    OBVIOUS
  <2>3. \A r \in ToSet(task[e].senders) : e \notin ToSet(Stream(r)')
    BY <2>1, <1>2, <1>5 DEF SentInv
  <2>4. \A r \in task[e].all : \/ r \in ToSet(task[e].senders)
                               \/ <<e, r>> \in dropped
                               \/ r \notin open'
                               \/ e \in ToSet(Stream(r)')
    BY <2>1, <2>2, <1>2 DEF SentInv
  <2> QED
    BY <2>3, <2>4
<1>8. SequentialInOrder'
  <2>1. \A r \in Subscribers : \A i, j \in DOMAIN (Stream(r)') :
            /\ i \in DOMAIN Stream(r) /\ j \in DOMAIN Stream(r)
            /\ Stream(r)'[i] = Stream(r)[i] /\ Stream(r)'[j] = Stream(r)[j]
    BY <1>2, <1>4
  <2> QED
    BY <2>1 DEF SequentialInOrder
<1> QED
  BY <1>1, <1>6, <1>7, <1>8, TopicsKept, TasksKept, TimesKept

LEMMA ReceiveKeeps ==
    ASSUME BusInv, NEW s \in Subscribers, Receive(s)
    PROVE  BusInv'
<1> USE DEF BusInv, Receive
<1>1. queue[s] \in Seq(Events) /\ received[s] \in Seq(Events) /\ queue[s] # <<>>
  BY DEF BusTypes
<1>2. Head(queue[s]) \in Events /\ Tail(queue[s]) \in Seq(Events)
  BY <1>1
<1>3. BusTypes'
  BY <1>1, <1>2 DEF BusTypes
<1>4. \A r \in Subscribers : Stream(r)' = Stream(r)
  <2>1. Stream(s)' = Stream(s)
    BY <1>1, ConcatFacts DEF Stream, BusTypes
  <2>2. \A r \in Subscribers : r # s => Stream(r)' = Stream(r)
    BY DEF Stream, BusTypes
  <2> QED
    BY <2>1, <2>2
<1>5. StreamInv'
  BY <1>4, StreamsKept
<1>6. SentInv'
  <2>1. \A e \in Events : /\ task[e].all \subseteq Subscribers
                          /\ ToSet(task[e].senders) \subseteq Subscribers
    BY DEF BusTypes, Task, TaskInv
  <2> QED
    BY <1>4, <2>1 DEF SentInv
<1>7. SequentialInOrder'
  BY <1>4 DEF SequentialInOrder
<1> QED
  BY <1>3, <1>5, <1>6, <1>7, TopicsKept, TasksKept, TimesKept
-----------------------------------------------------------------------------
(* The publishers.                                                         *)

\* The members of what is typed as a task.
LEMMA TaskFacts ==
    ASSUME BusTypes, NEW e \in Events
    PROVE  /\ task[e].stage \in {"new", "spawned", "sending", "ok", "failed"}
           /\ task[e].topic \in Topics \cup {NoTopic}
           /\ task[e].senders \in Seq(Subscribers)
           /\ ToSet(task[e].senders) \subseteq Subscribers
           /\ task[e].all \subseteq Subscribers
           /\ task[e].started \in Nat /\ task[e].ended \in Nat
           /\ e \in Nat
<1>1. task[e] \in Task
  BY DEF BusTypes
<1>2. task[e].senders \in Seq(Subscribers)
  BY <1>1 DEF Task
<1> QED
  BY <1>1, <1>2, MemberFacts DEF Task, Events

\* What the steps make of a task.
Spawned(r, t) == [r EXCEPT !.stage = "spawned", !.topic = t]
TaskBegun(r, q, a, k) == [r EXCEPT !.stage = "sending", !.senders = q, !.all = a, !.started = k]
Failed(r) == [r EXCEPT !.stage = "failed"]
Sent(r, q) == [r EXCEPT !.senders = q]
Returned(r, k) == [r EXCEPT !.stage = "ok", !.ended = k]

\* A task by its members.
Has(n, stage_n, topic_n, senders_n, all_n, started_n, ended_n) ==
    /\ n \in Task
    /\ n.stage = stage_n /\ n.topic = topic_n /\ n.senders = senders_n
    /\ n.all = all_n /\ n.started = started_n /\ n.ended = ended_n

LEMMA TaskSteps ==
    ASSUME NEW r \in Task
    PROVE  /\ \A t \in Topics :
                  Has(Spawned(r, t), "spawned", t, r.senders, r.all, r.started, r.ended)
           /\ \A q \in Seq(Subscribers), a \in SUBSET Subscribers, k \in Nat :
                  Has(TaskBegun(r, q, a, k), "sending", r.topic, q, a, k, r.ended)
           /\ Has(Failed(r), "failed", r.topic, r.senders, r.all, r.started, r.ended)
           /\ \A q \in Seq(Subscribers) :
                  Has(Sent(r, q), r.stage, r.topic, q, r.all, r.started, r.ended)
           /\ \A k \in Nat :
                  Has(Returned(r, k), "ok", r.topic, r.senders, r.all, r.started, k)
<1>1. ASSUME NEW t \in Topics
      PROVE  Has(Spawned(r, t), "spawned", t, r.senders, r.all, r.started, r.ended)
  BY DEF Task, Has, Spawned
<1>2. ASSUME NEW q \in Seq(Subscribers), NEW a \in SUBSET Subscribers, NEW k \in Nat
      PROVE  Has(TaskBegun(r, q, a, k), "sending", r.topic, q, a, k, r.ended)
  BY DEF Task, Has, TaskBegun
<1>3. Has(Failed(r), "failed", r.topic, r.senders, r.all, r.started, r.ended)
  BY DEF Task, Has, Failed
<1>4. ASSUME NEW q \in Seq(Subscribers)
      PROVE  Has(Sent(r, q), r.stage, r.topic, q, r.all, r.started, r.ended)
  BY DEF Task, Has, Sent
<1>5. ASSUME NEW k \in Nat
      PROVE  Has(Returned(r, k), "ok", r.topic, r.senders, r.all, r.started, k)
  BY DEF Task, Has, Returned
<1> QED
  BY <1>1, <1>2, <1>3, <1>4, <1>5, Zenon

LEMMA EmitKeeps ==
    ASSUME BusInv, NEW t \in Topics, emit(t)
    PROVE  BusInv'
<1> USE DEF BusInv
<1>0. /\ UNCHANGED <<subscribers, topic, open, queue, received, dropped, clock>>
      /\ emitted < MaxEmitted /\ emitted' = emitted + 1
  BY DEF emit
<1> DEFINE e == emitted + 1
<1>1. e \in Events /\ e \in Nat /\ emitted \in Nat
  BY <1>0, BusAssumption DEF Events, BusTypes
<1>2. task[e].stage = "new" /\ task[e].all = {} /\ task[e].senders = <<>> /\ task[e].ended = 0
  BY <1>1 DEF TaskInv, ClockInv
<1>3. task' = [task EXCEPT ![e] = [task[e] EXCEPT !.stage = "spawned", !.topic = t]]
  BY <1>1 DEF BusTypes, emit
<1>4. /\ task'[e].stage = "spawned" /\ task'[e].topic = t
      /\ task'[e].all = {} /\ task'[e].senders = <<>>
      /\ task'[e].started = task[e].started /\ task'[e].ended = 0
      /\ task'[e] \in Task
  <2>1. task[e] \in Task /\ task'[e] = Spawned(task[e], t)
    BY <1>1, <1>3 DEF BusTypes, Spawned
  <2>2. Has(task'[e], "spawned", t, task[e].senders, task[e].all, task[e].started, task[e].ended)
    BY <2>1, TaskSteps
  <2> QED
    BY <1>2, <2>2 DEF Has
<1>5. \A d \in Events : d # e => task'[d] = task[d]
  BY <1>3 DEF BusTypes
<1>6. task' \in [Events -> Task]
  BY <1>1, <1>3, <1>4, <1>5 DEF BusTypes
<1> HIDE DEF e
<1>7. BusTypes'
  BY <1>0, <1>1, <1>6 DEF BusTypes
<1>8. TaskInv'
  <2>1. \A d \in Events : d # e => (d > emitted' <=> d > emitted)
    BY <1>0, <1>1 DEF e, Events
  <2>2. ~(e > emitted')
    BY <1>0, <1>1 DEF e
  <2>3. IsInjective(<<>>) /\ ToSet(<<>>) = {}
    BY DEF IsInjective, ToSet
  <2> QED
    BY <1>0, <1>4, <1>5, <2>1, <2>2, <2>3 DEF TaskInv
<1>9. ClockInv'
  BY <1>0, <1>2, <1>4, <1>5 DEF ClockInv
<1>10. \A s \in Subscribers : Stream(s)' = Stream(s)
  BY <1>0 DEF Stream
<1>11. StreamInv'
  BY <1>0, <1>2, <1>5, <1>10, StreamsKept
<1>12. SentInv'
  <2>1. ToSet(<<>>) = {}
    BY DEF ToSet
  <2>2. \A d \in Events : /\ task'[d].senders = task[d].senders
                          /\ task'[d].all = task[d].all
    BY <1>2, <1>4, <1>5
  <2> QED
    BY <1>0, <2>2, <1>10, TaskFacts DEF SentInv
<1>13. SequentialInOrder'
  <2>1. \A d \in Events : /\ task'[d].started = task[d].started
                          /\ task'[d].ended = task[d].ended
    BY <1>2, <1>4, <1>5
  <2>2. \A s \in Subscribers : \A i \in DOMAIN Stream(s) : Stream(s)[i] \in Events
    BY ConcatFacts DEF BusTypes, Stream
  <2> QED
    BY <1>10, <2>1, <2>2 DEF SequentialInOrder
<1> QED
  BY <1>7, <1>8, <1>9, <1>11, <1>12, <1>13, <1>0, TopicsKept

\* The types of the streams.
LEMMA StreamType ==
    ASSUME BusTypes, NEW s \in Subscribers
    PROVE  /\ Stream(s) \in Seq(Events)
           /\ DOMAIN Stream(s) = 1..Len(Stream(s)) /\ Len(Stream(s)) \in Nat
           /\ \A i \in DOMAIN Stream(s) : Stream(s)[i] \in Events /\ Stream(s)[i] \in ToSet(Stream(s))
<1>1. Stream(s) \in Seq(Events)
  BY ConcatFacts DEF BusTypes, Stream
<1> QED
  BY <1>1 DEF ToSet

\* A publish that only changes its own task, while no time passes but on the clock.
LEMMA BeginsKeeps ==
    ASSUME BusInv, NEW e \in Events, PublishBegins(e)
    PROVE  BusInv'
<1> USE DEF BusInv
<1>0. /\ UNCHANGED <<subscribers, topic, open, queue, emitted, received, dropped>>
      /\ task[e].stage = "spawned" /\ clock' = clock + 1
  BY DEF PublishBegins
<1> DEFINE all == ToSet(subscribers[task[e].topic])
<1>1. /\ task[e].topic \in Topics /\ task[e].all = {} /\ task[e].senders = <<>>
      /\ task[e].ended = 0 /\ ~(e > emitted)
  BY <1>0 DEF TaskInv, ClockInv
<1>2. subscribers[task[e].topic] \in Seq(Subscribers)
  BY <1>1 DEF BusTypes
<1>3. all \subseteq Subscribers /\ IsInjective(subscribers[task[e].topic])
      /\ \A s \in all : topic[s] = task[e].topic
  BY <1>1, <1>2, MemberFacts DEF TopicInv
<1>4. clock \in Nat
  BY DEF BusTypes
<1>5. task' = [task EXCEPT ![e] = [task[e] EXCEPT !.stage = "sending",
                                                  !.senders = subscribers[task[e].topic],
                                                  !.all = all,
                                                  !.started = clock + 1]]
  BY DEF BusTypes, PublishBegins
<1>6. /\ task'[e].stage = "sending" /\ task'[e].topic = task[e].topic
      /\ task'[e].senders = subscribers[task[e].topic] /\ task'[e].all = all
      /\ task'[e].started = clock + 1 /\ task'[e].ended = 0
      /\ task'[e] \in Task
  <2>1. /\ task[e] \in Task
        /\ task'[e] = TaskBegun(task[e], subscribers[task[e].topic], all, clock + 1)
    BY <1>5 DEF BusTypes, TaskBegun
  <2>2. clock + 1 \in Nat /\ all \in SUBSET Subscribers
    BY <1>3, <1>4
  <2>3. Has(task'[e], "sending", task[e].topic, subscribers[task[e].topic], all, clock + 1, task[e].ended)
    BY <1>2, <2>1, <2>2, TaskSteps
  <2> QED
    BY <1>1, <2>3 DEF Has
<1>7. \A d \in Events : d # e => task'[d] = task[d]
  BY <1>5 DEF BusTypes
<1> HIDE DEF all
<1>8. task' \in [Events -> Task]
  BY <1>5, <1>6, <1>7 DEF BusTypes
<1>9. BusTypes'
  BY <1>0, <1>4, <1>8 DEF BusTypes
<1>10. TaskInv'
  <2>1. ToSet(task'[e].senders) = task'[e].all
    BY <1>6 DEF all
  <2> QED
    BY <1>0, <1>1, <1>3, <1>6, <1>7, <2>1 DEF TaskInv
<1>11. ClockInv'
  BY <1>0, <1>4, <1>6, <1>7, TaskFacts DEF ClockInv
<1>12. \A s \in Subscribers : Stream(s)' = Stream(s)
  BY <1>0 DEF Stream
<1>13. StreamInv'
  BY <1>0, <1>7, <1>12, StreamsKept
<1>14. \A s \in Subscribers : e \notin ToSet(Stream(s))
  BY <1>0 DEF StreamInv
<1>15. SentInv'
  <2>1. ToSet(task'[e].senders) = task'[e].all /\ task'[e].all \subseteq Subscribers
    BY <1>3, <1>6 DEF all
  <2> QED
    BY <1>0, <1>7, <1>12, <1>14, <2>1, TaskFacts DEF SentInv
<1>16. SequentialInOrder'
  <2>1. \A s \in Subscribers : \A i \in DOMAIN Stream(s) : task'[Stream(s)[i]] = task[Stream(s)[i]]
    BY <1>7, <1>14, StreamType
  <2> QED
    BY <1>12, <2>1 DEF SequentialInOrder
<1> QED
  BY <1>9, <1>10, <1>11, <1>13, <1>15, <1>16, <1>0, TopicsKept

\* The stage alone changes, of a task that has no sender to go.
LEMMA FindsNoneKeeps ==
    ASSUME BusInv, NEW e \in Events, PublishFindsNone(e)
    PROVE  BusInv'
<1> USE DEF BusInv
<1>0. /\ UNCHANGED <<subscribers, topic, open, queue, emitted, received, dropped, clock>>
      /\ task[e].stage = "spawned"
  BY DEF PublishFindsNone
<1>1. task[e].senders = <<>> /\ ~(e > emitted)
  BY <1>0 DEF TaskInv
<1>2. task' = [task EXCEPT ![e] = [task[e] EXCEPT !.stage = "failed"]]
  BY DEF BusTypes, PublishFindsNone
<1>3. /\ task'[e].stage = "failed" /\ task'[e].topic = task[e].topic
      /\ task'[e].senders = task[e].senders /\ task'[e].all = task[e].all
      /\ task'[e].started = task[e].started /\ task'[e].ended = task[e].ended
      /\ task'[e] \in Task
  <2>1. task[e] \in Task /\ task'[e] = Failed(task[e])
    BY <1>2 DEF BusTypes, Failed
  <2> QED
    BY <2>1, TaskSteps DEF Has
<1>4. \A d \in Events : d # e => task'[d] = task[d]
  BY <1>2 DEF BusTypes
<1>5. BusTypes'
  BY <1>0, <1>2, <1>3, <1>4 DEF BusTypes
<1>6. TaskInv'
  BY <1>0, <1>1, <1>3, <1>4 DEF TaskInv
<1>7. ClockInv'
  BY <1>0, <1>3, <1>4 DEF ClockInv
<1>8. \A s \in Subscribers : Stream(s)' = Stream(s)
  BY <1>0 DEF Stream
<1>9. StreamInv'
  BY <1>0, <1>4, <1>8, StreamsKept
<1>10. \A d \in Events : /\ task'[d].senders = task[d].senders /\ task'[d].all = task[d].all
                         /\ task'[d].started = task[d].started /\ task'[d].ended = task[d].ended
  BY <1>3, <1>4
<1>11. SentInv'
  BY <1>0, <1>8, <1>10, TaskFacts DEF SentInv
<1>12. SequentialInOrder'
  BY <1>8, <1>10, StreamType DEF SequentialInOrder
<1> QED
  BY <1>5, <1>6, <1>7, <1>9, <1>11, <1>12, <1>0, TopicsKept

\* A call that ends is later than the beginning of every other.
LEMMA ReturnsKeeps ==
    ASSUME BusInv, NEW e \in Events, PublishReturns(e)
    PROVE  BusInv'
<1> USE DEF BusInv
<1>0. /\ UNCHANGED <<subscribers, topic, open, queue, emitted, received, dropped>>
      /\ task[e].stage = "sending" /\ task[e].senders = <<>> /\ clock' = clock + 1
  BY DEF PublishReturns
<1>1. clock \in Nat /\ ~(e > emitted)
  BY <1>0 DEF BusTypes, TaskInv
<1>2. task' = [task EXCEPT ![e] = [task[e] EXCEPT !.stage = "ok", !.ended = clock + 1]]
  BY DEF BusTypes, PublishReturns
<1>3. /\ task'[e].stage = "ok" /\ task'[e].topic = task[e].topic
      /\ task'[e].senders = task[e].senders /\ task'[e].all = task[e].all
      /\ task'[e].started = task[e].started /\ task'[e].ended = clock + 1
      /\ task'[e] \in Task
  <2>1. task[e] \in Task /\ task'[e] = Returned(task[e], clock + 1)
    BY <1>2 DEF BusTypes, Returned
  <2>2. clock + 1 \in Nat
    BY <1>1
  <2>3. Has(task'[e], "ok", task[e].topic, task[e].senders, task[e].all, task[e].started, clock + 1)
    BY <2>1, <2>2, TaskSteps
  <2> QED
    BY <2>3 DEF Has
<1>4. \A d \in Events : d # e => task'[d] = task[d]
  BY <1>2 DEF BusTypes
<1>5. BusTypes'
  BY <1>0, <1>1, <1>2, <1>3, <1>4 DEF BusTypes
<1>6. TaskInv'
  BY <1>0, <1>1, <1>3, <1>4 DEF TaskInv
<1>7. ClockInv'
  BY <1>0, <1>1, <1>3, <1>4, TaskFacts DEF ClockInv
<1>8. \A s \in Subscribers : Stream(s)' = Stream(s)
  BY <1>0 DEF Stream
<1>9. StreamInv'
  BY <1>0, <1>3, <1>4, <1>8, StreamsKept
<1>10. \A d \in Events : /\ task'[d].senders = task[d].senders /\ task'[d].all = task[d].all
                         /\ task'[d].started = task[d].started
  BY <1>3, <1>4
<1>11. SentInv'
  BY <1>0, <1>8, <1>10, TaskFacts DEF SentInv
<1>12. SequentialInOrder'
  <2> SUFFICES ASSUME NEW s \in Subscribers,
                      NEW i \in DOMAIN Stream(s), NEW j \in DOMAIN Stream(s),
                      task'[Stream(s)[i]].ended > 0,
                      task'[Stream(s)[i]].ended < task'[Stream(s)[j]].started
               PROVE  i < j
    BY <1>8 DEF SequentialInOrder
  <2>1. Stream(s)[i] \in Events /\ Stream(s)[j] \in Events
    BY StreamType
  <2>2. task'[Stream(s)[j]].started = task[Stream(s)[j]].started
    BY <2>1, <1>10
  <2>3. task[Stream(s)[j]].started <= clock /\ task[Stream(s)[j]].started \in Nat
    BY <2>1, TaskFacts DEF ClockInv
  <2>4. Stream(s)[i] # e
    BY <2>1, <2>2, <2>3, <1>1, <1>3
  <2>5. task'[Stream(s)[i]] = task[Stream(s)[i]]
    BY <2>1, <2>4, <1>4
  <2> QED
    BY <2>2, <2>5 DEF SequentialInOrder
<1> QED
  BY <1>5, <1>6, <1>7, <1>9, <1>11, <1>12, <1>0, TopicsKept

\* A sender after the other, each once: a queue takes the event at its end, or the
\* event is marked as dropped.
LEMMA TrySendKeeps ==
    ASSUME BusInv, NEW e \in Events, TrySend(e),
           NEW q \in Seq(Subscribers), q = task[e].senders,
           NEW s \in Subscribers, s = Head(q)
    PROVE  BusInv'
<1> USE DEF BusInv
<1>0. /\ UNCHANGED <<subscribers, topic, open, emitted, received, clock>>
      /\ task[e].stage = "sending" /\ q # <<>>
      /\ \/ /\ queue' = [queue EXCEPT ![s] = Append(@, e)]
            /\ dropped' = dropped
         \/ /\ queue' = queue
            /\ dropped' = dropped \cup {<<e, s>>}
  BY DEF TrySend, Sending
<1>1. /\ q \in Seq(Subscribers) /\ IsInjective(q)
      /\ ToSet(q) \subseteq task[e].all /\ task[e].all \subseteq Subscribers
  BY TaskFacts DEF TaskInv
<1>2. /\ s \in Subscribers /\ Tail(q) \in Seq(Subscribers)
      /\ ToSet(q) = ToSet(Tail(q)) \cup {s} /\ s \notin ToSet(Tail(q))
      /\ IsInjective(Tail(q))
  BY <1>0, <1>1, TailFacts
<1>3. e \notin ToSet(Stream(s)) /\ topic[s] = task[e].topic
  BY <1>1, <1>2 DEF SentInv, TaskInv
<1>4. task' = [task EXCEPT ![e] = [task[e] EXCEPT !.senders = Tail(q)]]
  BY DEF BusTypes, TrySend
<1>5. /\ task'[e].stage = "sending" /\ task'[e].topic = task[e].topic
      /\ task'[e].senders = Tail(q) /\ task'[e].all = task[e].all
      /\ task'[e].started = task[e].started /\ task'[e].ended = task[e].ended
      /\ task'[e] \in Task
  <2>1. task[e] \in Task /\ task'[e] = Sent(task[e], Tail(q))
    BY <1>4 DEF BusTypes, Sent
  <2>2. Has(task'[e], task[e].stage, task[e].topic, Tail(q), task[e].all, task[e].started, task[e].ended)
    BY <1>2, <2>1, TaskSteps
  <2> QED
    BY <1>0, <2>2 DEF Has
<1>6. \A d \in Events : d # e => task'[d] = task[d]
  BY <1>4 DEF BusTypes
<1>7. BusTypes'
  <2>1. queue[s] \in Seq(Events)
    BY <1>2 DEF BusTypes
  <2>2. Append(queue[s], e) \in Seq(Events)
    BY <2>1
  <2>3. queue' \in [Subscribers -> Seq(Events)]
    BY <1>0, <1>2, <2>2 DEF BusTypes
  <2> QED
    BY <1>0, <1>4, <1>5, <1>6, <2>3 DEF BusTypes
<1>8. TaskInv'
  BY <1>0, <1>1, <1>2, <1>5, <1>6 DEF TaskInv
<1>9. ClockInv'
  BY <1>0, <1>5, <1>6 DEF ClockInv
<1>10. \A r \in Subscribers : r # s => Stream(r)' = Stream(r)
  BY <1>0, <1>2 DEF Stream, BusTypes
<1>11. \/ dropped' = dropped /\ Stream(s)' = Append(Stream(s), e)
       \/ dropped' = dropped \cup {<<e, s>>} /\ Stream(s)' = Stream(s)
  <2>1. received[s] \in Seq(Events) /\ queue[s] \in Seq(Events)
    BY <1>2 DEF BusTypes
  <2>2. received[s] \o Append(queue[s], e) = Append(received[s] \o queue[s], e)
    <3> DEFINE a == received[s]
               b == queue[s]
    <3>1. a \in Seq(Events) /\ b \in Seq(Events)
      BY <2>1
    <3> HIDE DEF a, b
    <3>2. a \o Append(b, e) = Append(a \o b, e)
      BY <3>1
    <3> QED
      BY <3>2 DEF a, b
  <2>3. queue'[s] = queue[s] \/ queue'[s] = Append(queue[s], e)
    BY <1>0, <1>2 DEF BusTypes
  <2>4. CASE queue' = [queue EXCEPT ![s] = Append(@, e)] /\ dropped' = dropped
    <3>1. queue'[s] = Append(queue[s], e) /\ received'[s] = received[s]
      BY <1>0, <1>2, <2>4 DEF BusTypes
    <3> QED
      BY <2>2, <2>4, <3>1 DEF Stream
  <2>5. CASE queue' = queue /\ dropped' = dropped \cup {<<e, s>>}
    BY <1>0, <2>5 DEF Stream
  <2> QED
    BY <1>0, <2>4, <2>5
<1>12. Stream(s) \in Seq(Events) /\ ToSet(Stream(s)) \subseteq Events
  BY <1>2, StreamType, MemberFacts
<1>13. ToSet(Append(Stream(s), e)) = ToSet(Stream(s)) \cup {e} /\ IsInjective(Append(Stream(s), e))
  BY <1>2, <1>3, <1>12, AppendFacts DEF StreamInv
<1>14. \A d \in Events : /\ task'[d].stage = task[d].stage /\ task'[d].topic = task[d].topic
                         /\ task'[d].all = task[d].all
                         /\ task'[d].started = task[d].started /\ task'[d].ended = task[d].ended
  BY <1>0, <1>5, <1>6
<1>15. StreamInv'
  <2> SUFFICES ASSUME NEW r \in Subscribers
               PROVE  /\ IsInjective(Stream(r)')
                      /\ \A d \in ToSet(Stream(r)') : /\ task'[d].stage \in {"sending", "ok"}
                                                      /\ task'[d].topic = topic[r]
    BY <1>0 DEF StreamInv
  <2>1. ToSet(Stream(r)) \subseteq Events
    BY StreamType, MemberFacts
  <2>2. CASE Stream(r)' = Stream(r)
    BY <2>1, <2>2, <1>14 DEF StreamInv
  <2>3. CASE r = s /\ Stream(s)' = Append(Stream(s), e)
    <3>1. \A d \in ToSet(Stream(r)') : d \in ToSet(Stream(s)) \/ d = e
      BY <2>3, <1>13
    <3>2. IsInjective(Stream(r)')
      BY <2>3, <1>13
    <3> QED
      BY <2>1, <2>3, <3>1, <3>2, <1>3, <1>5, <1>14 DEF StreamInv
  <2> QED
    BY <2>2, <2>3, <1>10, <1>11
<1>16. SentInv'
  <2> SUFFICES ASSUME NEW d \in Events
               PROVE  /\ \A r \in ToSet(task'[d].senders) : d \notin ToSet(Stream(r)')
                      /\ \A r \in task'[d].all : \/ r \in ToSet(task'[d].senders)
                                                 \/ <<d, r>> \in dropped'
                                                 \/ r \notin open
                                                 \/ d \in ToSet(Stream(r)')
    BY <1>0 DEF SentInv
  <2>1. /\ ToSet(task[d].senders) \subseteq task[d].all
        /\ task[d].all \subseteq Subscribers
    BY TaskFacts DEF TaskInv
  <2>2. \A r \in Subscribers : /\ ToSet(Stream(r)) \subseteq ToSet(Stream(r)')
                               /\ ToSet(Stream(r)') \subseteq ToSet(Stream(r)) \cup {e}
                               /\ r # s => ToSet(Stream(r)') = ToSet(Stream(r))
    BY <1>10, <1>11, <1>13
  <2>3. dropped \subseteq dropped'
    BY <1>0
  <2>4. CASE d # e
    BY <2>1, <2>2, <2>3, <2>4, <1>6 DEF SentInv
  <2>5. CASE d = e
    <3>1. ToSet(task'[d].senders) \subseteq ToSet(q) /\ s \notin ToSet(task'[d].senders)
      BY <2>5, <1>2, <1>5
    <3>2. \A r \in ToSet(task'[d].senders) : d \notin ToSet(Stream(r)')
      BY <3>1, <2>1, <2>2, <2>5 DEF SentInv
    <3>3. <<e, s>> \in dropped' \/ e \in ToSet(Stream(s)')
      BY <1>11, <1>13
    <3>4. \A r \in task[e].all : \/ r \in ToSet(q) \/ <<e, r>> \in dropped
                                 \/ r \notin open \/ e \in ToSet(Stream(r))
      BY DEF SentInv
    <3>5. \A r \in task'[d].all : \/ r \in ToSet(task'[d].senders)
                                  \/ <<d, r>> \in dropped'
                                  \/ r \notin open
                                  \/ d \in ToSet(Stream(r)')
      BY <2>1, <2>2, <2>3, <2>5, <3>3, <3>4, <1>2, <1>5
    <3> QED
      BY <3>2, <3>5
  <2> QED
    BY <2>4, <2>5
<1>17. SequentialInOrder'
  <2> SUFFICES ASSUME NEW r \in Subscribers,
                      NEW i \in DOMAIN (Stream(r)'), NEW j \in DOMAIN (Stream(r)'),
                      task'[Stream(r)'[i]].ended > 0,
                      task'[Stream(r)'[i]].ended < task'[Stream(r)'[j]].started
               PROVE  i < j
    BY DEF SequentialInOrder
  <2>1. CASE Stream(r)' = Stream(r)
    BY <2>1, <1>14, StreamType DEF SequentialInOrder
  <2>2. CASE r = s /\ Stream(s)' = Append(Stream(s), e)
    <3> DEFINE n == Len(Stream(s))
    <3>1. /\ n \in Nat /\ DOMAIN Stream(s) = 1..n /\ DOMAIN (Stream(s)') = 1..(n + 1)
          /\ Stream(s)'[n + 1] = e
          /\ \A k \in 1..n : Stream(s)'[k] = Stream(s)[k]
      BY <2>2, <1>12
    <3> HIDE DEF n
    <3>2. task'[e].ended = 0
      BY <1>0, <1>5 DEF ClockInv
    <3>3. i # n + 1
      BY <2>2, <3>1, <3>2
    <3>4. i \in 1..n
      BY <2>2, <3>1, <3>3
    <3>5. CASE j = n + 1
      BY <3>1, <3>4, <3>5
    <3>6. CASE j \in 1..n
      <4>1. Stream(r)'[i] = Stream(s)[i] /\ Stream(r)'[j] = Stream(s)[j]
        BY <2>2, <3>1, <3>4, <3>6
      <4>2. Stream(s)[i] \in Events /\ Stream(s)[j] \in Events
        BY <1>2, <3>1, <3>4, <3>6, StreamType
      <4> QED
        BY <1>2, <1>14, <3>1, <3>4, <3>6, <4>1, <4>2 DEF SequentialInOrder
    <3> QED
      BY <2>2, <3>1, <3>5, <3>6
  <2> QED
    BY <2>1, <2>2, <1>10, <1>11
<1> QED
  BY <1>0, <1>7, <1>8, <1>9, <1>15, <1>16, <1>17, TopicsKept

LEMMA NextBus == BusInv /\ [BusNext]_busVars => BusInv'
<1> SUFFICES ASSUME BusInv, [BusNext]_busVars PROVE BusInv'
  OBVIOUS
<1>1. CASE \E s \in Subscribers, t \in Topics : subscribe(s, t)
  BY <1>1, SubscribeKeeps
<1>2. CASE \E s \in Subscribers : DropReceiver(s)
  BY <1>2, DropKeeps
<1>3. CASE \E s \in Subscribers : Receive(s)
  BY <1>3, ReceiveKeeps
<1>4. CASE \E t \in Topics : emit(t)
  BY <1>4, EmitKeeps
<1>5. CASE \E e \in Events : PublishBegins(e)
  BY <1>5, BeginsKeeps
<1>6. CASE \E e \in Events : PublishFindsNone(e)
  BY <1>6, FindsNoneKeeps
<1>7. CASE \E e \in Events : TrySend(e)
  <2>1. PICK e \in Events : TrySend(e)
    BY <1>7
  <2>2. task[e].senders \in Seq(Subscribers) /\ task[e].senders # <<>>
    BY <2>1, TaskFacts DEF TrySend, Sending, BusInv
  <2>3. Head(task[e].senders) \in Subscribers
    BY <2>2
  <2> QED
    BY <2>1, <2>2, <2>3, TrySendKeeps
<1>8. CASE \E e \in Events : PublishReturns(e)
  BY <1>8, ReturnsKeeps
<1>9. CASE UNCHANGED busVars
  BY <1>9 DEF busVars, BusInv, BusTypes, TopicInv, TaskInv, ClockInv, StreamInv, SentInv,
              SequentialInOrder, Stream
<1> QED
  BY <1>1, <1>2, <1>3, <1>4, <1>5, <1>6, <1>7, <1>8, <1>9
  DEF BusNext, Publish, AllPublished

LEMMA BusInvHolds == BusSpec => []BusInv
<1> QED
  BY InitBus, NextBus, PTL DEF BusSpec
-----------------------------------------------------------------------------
\* EverySubscriberServed: publish goes on after a try_send that failed, on the
\* senders it copied when it began, for any number of subscribers and events.
THEOREM EverySubscriberServedHolds == BusSpec => []EverySubscriberServed
<1>1. BusInv => EverySubscriberServed
  <2> SUFFICES ASSUME BusInv PROVE EverySubscriberServed
    OBVIOUS
  <2> USE DEF BusInv
  <2>1. \A e \in Events : task[e].stage = "ok" => ToSet(task[e].senders) = {}
    BY DEF TaskInv, ToSet
  <2> QED
    BY <2>1 DEF EverySubscriberServed, SentInv, StreamInv
<1> QED
  BY <1>1, BusInvHolds, PTL

\* SequentialInOrder: events whose publish calls did not overlap arrive in their
\* order, in whatever order emit's tasks run, for any number of events.
THEOREM SequentialInOrderHolds == BusSpec => []SequentialInOrder
<1>1. BusInv => SequentialInOrder
  BY DEF BusInv
<1> QED
  BY <1>1, BusInvHolds, PTL
=============================================================================
