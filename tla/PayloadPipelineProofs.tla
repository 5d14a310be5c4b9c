------------------------ MODULE PayloadPipelineProofs ------------------------
(***************************************************************************)
(* Proofs about the file system store and the payload pipeline above it,   *)
(* for every set of writers, keys, pipelines and batches: create_immutable *)
(* is one step of ObjectStore however its system calls interleave, fail or *)
(* are cut off, what a reference names stays what it was made for,         *)
(* decoding is exact or fails, and its loop computes what Decode states.   *)
(***************************************************************************)
EXTENDS PayloadPipeline, SequenceTheorems, WellFoundedInduction, TLAPS

-----------------------------------------------------------------------------
(* The store. *)

\* A call that is under way has an object; its temporary file is whole when it
\* is linked.
Calls ==
    \A w \in Writer :
        /\ call[w].pc = "idle" => call[w] = Idle
        /\ call[w].pc # "idle" => call[w].key \in Key /\ call[w].bytes \in Bytes
        /\ call[w].pc \in {"sync", "link"} => call[w].temp = call[w].bytes

CallRecord ==
    [pc : Pc, key : Key \cup {Absent}, bytes : Bytes \cup {Absent},
     temp : Bytes \cup {Absent, Garbage}, result : Result]

\* What a step of one writer does to the record of its call.
LEMMA CallMoves ==
    ASSUME StoreTypeOK, NEW w \in Writer, NEW c \in CallRecord,
           call' = [call EXCEPT ![w] = c],
           disk' \in [Key -> Bytes \cup {Absent, Garbage}],
           Calls,
           c.pc = "idle" => c = Idle,
           c.pc # "idle" => c.key \in Key /\ c.bytes \in Bytes,
           c.pc \in {"sync", "link"} => c.temp = c.bytes
    PROVE  StoreTypeOK' /\ Calls'
<1>1. call \in [Writer -> CallRecord]
  BY DEF StoreTypeOK, CallRecord
<1>2. call' \in [Writer -> CallRecord]
  BY <1>1
<1>3. StoreTypeOK'
  BY <1>2 DEF StoreTypeOK, CallRecord
<1>4. ASSUME NEW v \in Writer
      PROVE  /\ call'[v].pc = "idle" => call'[v] = Idle
             /\ call'[v].pc # "idle" => call'[v].key \in Key /\ call'[v].bytes \in Bytes
             /\ call'[v].pc \in {"sync", "link"} => call'[v].temp = call'[v].bytes
  <2>1. CASE v = w
    <3>1. call'[v] = c
      BY <1>1, <2>1
    <3>2. QED
      BY <3>1
  <2>2. CASE v # w
    <3>1. call'[v] = call[v]
      BY <1>1, <2>2
    <3>2. QED
      BY <3>1 DEF Calls
  <2>3. QED
    BY <2>1, <2>2
<1>5. QED
  BY <1>3, <1>4 DEF Calls

LEMMA StoreStepKeeps ==
    ASSUME StoreTypeOK, Calls, [StoreNext]_storeVars
    PROVE  StoreTypeOK' /\ Calls'
<1>1. /\ call \in [Writer -> CallRecord]
      /\ disk \in [Key -> Bytes \cup {Absent, Garbage}]
  BY DEF StoreTypeOK, CallRecord
<1>2. Idle \in CallRecord
  BY DEF Idle, CallRecord, Pc, Result
<1>3. ASSUME NEW w \in Writer, NEW key \in Key, NEW bytes \in Bytes, Begin(w, key, bytes)
      PROVE  StoreTypeOK' /\ Calls'
  <2> DEFINE c == [Idle EXCEPT !.pc = "create", !.key = key, !.bytes = bytes]
  <2>1. /\ c \in CallRecord /\ c.pc = "create" /\ c.key = key /\ c.bytes = bytes
    BY <1>2 DEF Idle, CallRecord, Pc, Result
  <2>2. call' = [call EXCEPT ![w] = c] /\ disk' = disk
    BY <1>3 DEF Begin
  <2> HIDE DEF c
  <2>3. QED
    BY <1>1, <2>1, <2>2, CallMoves
<1>4. ASSUME NEW w \in Writer, CreateTemporary(w)
      PROVE  StoreTypeOK' /\ Calls'
  <2> DEFINE c == [call[w] EXCEPT !.pc = "write", !.temp = Garbage]
  <2>1. /\ c \in CallRecord /\ c.pc = "write" /\ c.key = call[w].key /\ c.bytes = call[w].bytes
    BY <1>1 DEF CallRecord, Pc
  <2>2. call' = [call EXCEPT ![w] = c] /\ disk' = disk /\ call[w].pc # "idle"
    BY <1>1, <1>4 DEF CreateTemporary, CallRecord
  <2> HIDE DEF c
  <2>3. QED
    BY <1>1, <2>1, <2>2, CallMoves DEF Calls
<1>5. ASSUME NEW w \in Writer, WriteAll(w)
      PROVE  StoreTypeOK' /\ Calls'
  <2> DEFINE c == [call[w] EXCEPT !.pc = "sync", !.temp = call[w].bytes]
  <2>1. /\ c \in CallRecord /\ c.pc = "sync" /\ c.key = call[w].key /\ c.bytes = call[w].bytes
        /\ c.temp = c.bytes
    BY <1>1 DEF CallRecord, Pc
  <2>2. call' = [call EXCEPT ![w] = c] /\ disk' = disk /\ call[w].pc # "idle"
    BY <1>1, <1>5 DEF WriteAll, CallRecord
  <2> HIDE DEF c
  <2>3. QED
    BY <1>1, <2>1, <2>2, CallMoves DEF Calls
<1>6. ASSUME NEW w \in Writer, NEW pc \in {"link", "compare"}, call[w].pc # "idle",
             pc = "link" => call[w].temp = call[w].bytes, Goto(w, pc), disk' = disk
      PROVE  StoreTypeOK' /\ Calls'
  <2> DEFINE c == [call[w] EXCEPT !.pc = pc]
  <2>1. /\ c \in CallRecord /\ c.pc = pc /\ c.key = call[w].key /\ c.bytes = call[w].bytes
        /\ c.temp = call[w].temp
    BY <1>1 DEF CallRecord, Pc
  <2>2. call' = [call EXCEPT ![w] = c]
    BY <1>1, <1>6 DEF Goto, CallRecord
  <2> HIDE DEF c
  <2>3. QED
    BY <1>1, <1>6, <2>1, <2>2, CallMoves DEF Calls
<1>7. ASSUME NEW w \in Writer, NEW result \in Result, call[w].pc # "idle", Give(w, result),
             disk' \in [Key -> Bytes \cup {Absent, Garbage}]
      PROVE  StoreTypeOK' /\ Calls'
  <2> DEFINE c == [call[w] EXCEPT !.pc = "cleanup", !.result = result]
  <2>1. /\ c \in CallRecord /\ c.pc = "cleanup" /\ c.key = call[w].key /\ c.bytes = call[w].bytes
    BY <1>1 DEF CallRecord, Pc
  <2>2. call' = [call EXCEPT ![w] = c]
    BY <1>1, <1>7 DEF Give, CallRecord
  <2> HIDE DEF c
  <2>3. QED
    BY <1>1, <1>7, <2>1, <2>2, CallMoves DEF Calls
<1>8. ASSUME NEW w \in Writer, SyncAll(w)
      PROVE  StoreTypeOK' /\ Calls'
  BY <1>6, <1>8 DEF SyncAll, Calls
<1>9. ASSUME NEW w \in Writer, HardLink(w)
      PROVE  StoreTypeOK' /\ Calls'
  <2>1. call[w].pc = "link" /\ call[w].temp \in Bytes \cup {Absent, Garbage} /\ "ok" \in Result
    BY <1>1, <1>9 DEF HardLink, CallRecord, Result
  <2>2. CASE disk[call[w].key] = Absent
    BY <1>1, <1>7, <1>9, <2>1, <2>2 DEF HardLink
  <2>3. CASE disk[call[w].key] # Absent
    BY <1>6, <1>9, <2>1, <2>3 DEF HardLink
  <2>4. QED
    BY <2>2, <2>3
<1>10. ASSUME NEW w \in Writer, CompareExisting(w) \/ IoError(w)
       PROVE  StoreTypeOK' /\ Calls'
  <2>1. call[w].pc # "idle" /\ disk' = disk /\ \E result \in Result : Give(w, result)
    BY <1>10 DEF CompareExisting, IoError, Result
  <2>2. QED
    BY <1>1, <1>7, <2>1
<1>11. ASSUME NEW w \in Writer, Cleanup(w) \/ Killed(w)
       PROVE  StoreTypeOK' /\ Calls'
  <2>1. PICK temp \in {Absent, call[w].temp}, result \in {"io", call[w].result} :
           call' = [call EXCEPT ![w].pc = "done", ![w].temp = temp, ![w].result = result]
    <3>1. CASE Killed(w)
      <4>1. call' = [call EXCEPT ![w].pc = "done", ![w].temp = call[w].temp, ![w].result = "io"]
        BY <1>1, <3>1 DEF Killed, CallRecord
      <4>2. QED
        BY <4>1
    <3>2. CASE Cleanup(w)
      <4>1. PICK removed \in BOOLEAN :
               call' = [call EXCEPT
                  ![w].pc = "done",
                  ![w].temp = IF removed THEN Absent ELSE @,
                  ![w].result = IF removed \/ call[w].temp = Absent \/ @ # "ok" THEN @ ELSE "io"]
        BY <3>2 DEF Cleanup
      <4>2. QED
        BY <1>1, <4>1 DEF CallRecord
    <3>3. QED
      BY <1>11, <3>1, <3>2
  <2> DEFINE c == [call[w] EXCEPT !.pc = "done", !.temp = temp, !.result = result]
  <2>2. call[w] \in CallRecord /\ disk' = disk /\ call[w].pc # "idle"
    BY <1>1, <1>11 DEF Cleanup, Killed
  <2>3. /\ c \in CallRecord /\ c.pc = "done" /\ c.key = call[w].key /\ c.bytes = call[w].bytes
    BY <2>2 DEF CallRecord, Pc, Result
  <2>4. call' = [call EXCEPT ![w] = c]
    BY <1>1, <2>1, <2>2 DEF CallRecord
  <2> HIDE DEF c
  <2>5. QED
    BY <1>1, <2>2, <2>3, <2>4, CallMoves DEF Calls
<1>12. ASSUME NEW w \in Writer, Release(w), disk' = disk
       PROVE  StoreTypeOK' /\ Calls'
  BY <1>1, <1>2, <1>12, CallMoves DEF Release, Idle
<1>13. CASE Damage
  <2>1. disk' \in [Key -> Bytes \cup {Absent, Garbage}] /\ call' = call
    BY <1>1, <1>13 DEF Damage
  <2>2. QED
    BY <2>1 DEF StoreTypeOK, Calls
<1>14. CASE UNCHANGED storeVars
  BY <1>14 DEF storeVars, StoreTypeOK, Calls
<1>15. QED
  BY <1>3, <1>4, <1>5, <1>8, <1>9, <1>10, <1>11, <1>12, <1>13, <1>14 DEF StoreNext, Progress

-----------------------------------------------------------------------------
(* The store implements ObjectStore. *)

\* The call of each writer as the contract shows it.
Shown(c) == [key |-> c.key, bytes |-> c.bytes, outcome |-> OutcomeOf(c)]

Visible == [w \in Writer |-> Shown(call[w])]

LEMMA OutcomeCases ==
    ASSUME NEW c, c.pc \in Pc, c.result \in Result
    PROVE  /\ c.pc = "idle" => OutcomeOf(c) = "none"
           /\ c.pc \in {"create", "write", "sync", "link", "compare"} => OutcomeOf(c) = "open"
           /\ c.pc = "cleanup" /\ c.result = "ok" => OutcomeOf(c) = "taken"
           /\ c.pc = "done" /\ c.result = "ok" => OutcomeOf(c) = "ok"
           /\ c.pc \in {"cleanup", "done"} /\ c.result = "conflict" => OutcomeOf(c) = "conflict"
           /\ c.pc \in {"cleanup", "done"} /\ c.result \notin {"ok", "conflict"}
                  => OutcomeOf(c) = "failed"
BY DEF OutcomeOf, Pc, Result

\* A call that keeps its object moves to another outcome.
LEMMA Becomes ==
    ASSUME NEW w \in Writer, NEW c, call \in [Writer -> CallRecord],
           call' = [call EXCEPT ![w] = c], c.key = call[w].key, c.bytes = call[w].bytes
    PROVE  Visible' = [Visible EXCEPT ![w].outcome = OutcomeOf(c)]
<1>1. ASSUME NEW v \in Writer
      PROVE  Visible'[v] = [Visible EXCEPT ![w].outcome = OutcomeOf(c)][v]
  <2>1. CASE v = w
    BY <2>1 DEF Visible, Shown
  <2>2. CASE v # w
    BY <2>2 DEF Visible
  <2>3. QED
    BY <2>1, <2>2
<1>2. QED
  BY <1>1 DEF Visible

\* A call that begins or returns.
LEMMA BecomesOther ==
    ASSUME NEW w \in Writer, NEW c, call \in [Writer -> CallRecord],
           call' = [call EXCEPT ![w] = c]
    PROVE  Visible' = [Visible EXCEPT ![w] = Shown(c)]
<1>1. ASSUME NEW v \in Writer
      PROVE  Visible'[v] = [Visible EXCEPT ![w] = Shown(c)][v]
  <2>1. CASE v = w
    BY <2>1 DEF Visible
  <2>2. CASE v # w
    BY <2>2 DEF Visible
  <2>3. QED
    BY <2>1, <2>2
<1>2. QED
  BY <1>1 DEF Visible

LEMMA StoreInitRefines ==
    ASSUME StoreInit
    PROVE  Contract!Init
BY OutcomeCases DEF StoreInit, Contract!Init, Contract!Idle, Idle, OutcomeOf

\* The call of w moves to the given outcome.
LEMMA ShownSteps ==
    ASSUME NEW w \in Writer, call \in [Writer -> CallRecord]
    PROVE  /\ \A o : Visible' = [Visible EXCEPT ![w].outcome = o] => Contract!Become(w, o)
           /\ Visible[w].key = call[w].key /\ Visible[w].bytes = call[w].bytes
           /\ Visible[w].outcome = OutcomeOf(call[w])
BY DEF Contract!Become, Visible, Shown

LEMMA StoreStepRefines ==
    ASSUME StoreTypeOK, Calls, [StoreNext]_storeVars
    PROVE  [Contract!Next]_(Contract!vars)
<1>1. /\ call \in [Writer -> CallRecord]
      /\ disk \in [Key -> Bytes \cup {Absent, Garbage}]
      /\ \A w \in Writer : call[w].pc \in Pc /\ call[w].result \in Result
  BY DEF StoreTypeOK, CallRecord
<1>2. ASSUME disk' = disk, Visible' = Visible
      PROVE  [Contract!Next]_(Contract!vars)
  BY <1>2 DEF Contract!vars, Visible, Shown
<1>3. ASSUME NEW w \in Writer,
             Contract!Begin(w) \/ Contract!Take(w) \/ Contract!Succeed(w) \/ Contract!Conflict(w)
                \/ Contract!Fail(w) \/ Contract!Return(w)
      PROVE  [Contract!Next]_(Contract!vars)
  BY <1>3 DEF Contract!Next
\* Open calls, and calls that were over before, stay as they are.
<1>4. ASSUME NEW w \in Writer, NEW c, call' = [call EXCEPT ![w] = c], disk' = disk,
             c.key = call[w].key, c.bytes = call[w].bytes, OutcomeOf(c) = OutcomeOf(call[w])
      PROVE  [Contract!Next]_(Contract!vars)
  <2>1. Visible' = [Visible EXCEPT ![w].outcome = OutcomeOf(c)]
    BY <1>1, <1>4, Becomes
  <2>2. Visible' = Visible
    BY <1>4, <2>1 DEF Visible, Shown
  <2>3. QED
    BY <1>2, <1>4, <2>2
<1>5. ASSUME NEW w \in Writer, NEW c, call' = [call EXCEPT ![w] = c], disk' = disk,
             c.key = call[w].key, c.bytes = call[w].bytes,
             OutcomeOf(call[w]) \in {"open", "taken", "conflict"}, OutcomeOf(c) = "failed"
      PROVE  [Contract!Next]_(Contract!vars)
  <2>1. Visible' = [Visible EXCEPT ![w].outcome = OutcomeOf(c)]
    BY <1>1, <1>5, Becomes
  <2>2. Contract!Become(w, "failed") /\ Visible[w].outcome \in {"open", "taken", "conflict"}
    BY <1>1, <1>5, <2>1, ShownSteps
  <2>3. Contract!Fail(w)
    BY <1>5, <2>2 DEF Contract!Fail, Visible, Shown
  <2>4. QED
    BY <1>3, <2>3
\* The link, or the comparison that finds the same bytes.
<1>6. ASSUME NEW w \in Writer, NEW c, call' = [call EXCEPT ![w] = c],
             c.key = call[w].key, c.bytes = call[w].bytes, c.pc = "cleanup", c.result = "ok",
             OutcomeOf(call[w]) = "open", disk[call[w].key] \in {Absent, call[w].bytes},
             disk' = [disk EXCEPT ![call[w].key] = call[w].bytes]
      PROVE  [Contract!Next]_(Contract!vars)
  <2>1. OutcomeOf(c) = "taken"
    BY <1>6, OutcomeCases DEF Pc, Result
  <2>2. Visible' = [Visible EXCEPT ![w].outcome = OutcomeOf(c)]
    BY <1>1, <1>6, Becomes
  <2>3. Contract!Become(w, "taken") /\ Visible[w].outcome = "open"
    BY <1>1, <1>6, <2>1, <2>2, ShownSteps
  <2>4. Contract!Take(w)
    BY <1>6, <2>3 DEF Contract!Take, Visible, Shown
  <2>5. QED
    BY <1>3, <2>4
<1>7. ASSUME NEW w \in Writer, NEW key \in Key, NEW bytes \in Bytes, Begin(w, key, bytes)
      PROVE  [Contract!Next]_(Contract!vars)
  <2> DEFINE c == [Idle EXCEPT !.pc = "create", !.key = key, !.bytes = bytes]
  <2>1. call[w].pc = "idle" /\ call' = [call EXCEPT ![w] = c] /\ disk' = disk
    BY <1>7 DEF Begin
  <2>2. c.pc = "create" /\ c.key = key /\ c.bytes = bytes /\ c.result = "none"
    BY DEF Idle
  <2> HIDE DEF c
  <2>3. OutcomeOf(c) = "open" /\ OutcomeOf(call[w]) = "none"
    BY <1>1, <2>1, <2>2, OutcomeCases DEF Pc, Result
  <2>4. Visible' = [Visible EXCEPT ![w] = [key |-> key, bytes |-> bytes, outcome |-> "open"]]
    BY <1>1, <2>1, <2>2, <2>3, BecomesOther DEF Shown
  <2>5. Contract!Begin(w)
    BY <2>1, <2>3, <2>4 DEF Contract!Begin, Visible, Shown
  <2>6. QED
    BY <1>3, <2>5
<1>8. ASSUME NEW w \in Writer, CreateTemporary(w) \/ WriteAll(w) \/ SyncAll(w)
      PROVE  [Contract!Next]_(Contract!vars)
  <2>1. PICK pc \in {"write", "sync", "link"}, temp \in {Garbage, call[w].bytes, call[w].temp} :
           call' = [call EXCEPT ![w].pc = pc, ![w].temp = temp]
    BY <1>1, <1>8 DEF CreateTemporary, WriteAll, SyncAll, Goto, CallRecord
  <2> DEFINE c == [call[w] EXCEPT !.pc = pc, !.temp = temp]
  <2>2. disk' = disk /\ call[w].pc \in {"create", "write", "sync"}
    BY <1>8 DEF CreateTemporary, WriteAll, SyncAll
  <2>3. call' = [call EXCEPT ![w] = c]
    BY <1>1, <2>1
  <2>4. c.pc = pc /\ c.key = call[w].key /\ c.bytes = call[w].bytes /\ c.result = call[w].result
    BY <1>1 DEF CallRecord
  <2> HIDE DEF c
  <2>5. OutcomeOf(c) = "open" /\ OutcomeOf(call[w]) = "open"
    BY <1>1, <2>2, <2>4, OutcomeCases DEF Pc
  <2>6. QED
    BY <1>4, <2>2, <2>3, <2>4, <2>5
\* A step to the cleanup.
<1>9. ASSUME NEW w \in Writer, NEW result \in Result, Give(w, result)
      PROVE  LET c == [call[w] EXCEPT !.pc = "cleanup", !.result = result]
             IN  /\ call' = [call EXCEPT ![w] = c]
                 /\ c.pc = "cleanup" /\ c.result = result
                 /\ c.key = call[w].key /\ c.bytes = call[w].bytes
  BY <1>1, <1>9 DEF Give, CallRecord
<1>10. ASSUME NEW w \in Writer, HardLink(w)
       PROVE  [Contract!Next]_(Contract!vars)
  <2>1. call[w].pc = "link" /\ call[w].temp = call[w].bytes /\ OutcomeOf(call[w]) = "open"
    BY <1>1, <1>10, OutcomeCases DEF HardLink, Calls
  <2>2. CASE disk[call[w].key] = Absent
    <3>1. Give(w, "ok") /\ "ok" \in Result /\ disk' = [disk EXCEPT ![call[w].key] = call[w].bytes]
      BY <1>10, <2>1, <2>2 DEF HardLink, Result
    <3> DEFINE c == [call[w] EXCEPT !.pc = "cleanup", !.result = "ok"]
    <3>2. /\ call' = [call EXCEPT ![w] = c] /\ c.pc = "cleanup" /\ c.result = "ok"
          /\ c.key = call[w].key /\ c.bytes = call[w].bytes
      BY <1>9, <3>1
    <3> HIDE DEF c
    <3>3. QED
      BY <1>6, <2>1, <2>2, <3>1, <3>2
  <2>3. CASE disk[call[w].key] # Absent
    <3> DEFINE c == [call[w] EXCEPT !.pc = "compare"]
    <3>1. disk' = disk /\ call' = [call EXCEPT ![w] = c]
      BY <1>1, <1>10, <2>3 DEF HardLink, Goto
    <3>2. c.pc = "compare" /\ c.key = call[w].key /\ c.bytes = call[w].bytes /\ c.result = call[w].result
      BY <1>1 DEF CallRecord
    <3> HIDE DEF c
    <3>3. OutcomeOf(c) = "open"
      BY <1>1, <3>2, OutcomeCases DEF Pc
    <3>4. QED
      BY <1>4, <2>1, <3>1, <3>2, <3>3
  <2>4. QED
    BY <2>2, <2>3
<1>11. ASSUME NEW w \in Writer, CompareExisting(w)
       PROVE  [Contract!Next]_(Contract!vars)
  <2>1. /\ call[w].pc = "compare" /\ OutcomeOf(call[w]) = "open" /\ disk' = disk
        /\ call[w].key \in Key
    BY <1>1, <1>11, OutcomeCases DEF CompareExisting, Calls
  <2>2. PICK result \in {"ok", "missing", "conflict"} :
           /\ Give(w, result) /\ result \in Result
           /\ result = "ok" <=> disk[call[w].key] = call[w].bytes
           /\ result = "conflict" => disk[call[w].key] \notin {Absent, call[w].bytes}
    BY <1>11 DEF CompareExisting, Result
  <2> DEFINE c == [call[w] EXCEPT !.pc = "cleanup", !.result = result]
  <2>3. /\ call' = [call EXCEPT ![w] = c] /\ c.pc = "cleanup" /\ c.result = result
        /\ c.key = call[w].key /\ c.bytes = call[w].bytes
    BY <1>9, <2>2
  <2> HIDE DEF c
  <2>4. CASE result = "ok"
    <3>1. disk' = [disk EXCEPT ![call[w].key] = call[w].bytes]
      BY <1>1, <2>1, <2>2, <2>4
    <3>2. QED
      BY <1>6, <2>1, <2>2, <2>3, <2>4, <3>1
  <2>5. CASE result = "missing"
    <3>1. OutcomeOf(c) = "failed"
      BY <2>3, <2>5, OutcomeCases DEF Pc, Result
    <3>2. QED
      BY <1>5, <2>1, <2>3, <3>1
  <2>6. CASE result = "conflict"
    <3>1. OutcomeOf(c) = "conflict"
      BY <2>3, <2>6, OutcomeCases DEF Pc, Result
    <3>2. Visible' = [Visible EXCEPT ![w].outcome = OutcomeOf(c)]
      BY <1>1, <2>3, Becomes
    <3>3. Contract!Become(w, "conflict") /\ Visible[w].outcome = "open"
      BY <1>1, <2>1, <3>1, <3>2, ShownSteps
    <3>4. Contract!Conflict(w)
      BY <2>1, <2>2, <2>6, <3>3 DEF Contract!Conflict, Visible, Shown
    <3>5. QED
      BY <1>3, <3>4
  <2>7. QED
    BY <2>4, <2>5, <2>6
<1>12. ASSUME NEW w \in Writer, IoError(w)
       PROVE  [Contract!Next]_(Contract!vars)
  <2> DEFINE c == [call[w] EXCEPT !.pc = "cleanup", !.result = "io"]
  <2>1. /\ call' = [call EXCEPT ![w] = c] /\ c.pc = "cleanup" /\ c.result = "io"
        /\ c.key = call[w].key /\ c.bytes = call[w].bytes
    BY <1>9, <1>12 DEF IoError, Result
  <2> HIDE DEF c
  <2>2. OutcomeOf(c) = "failed" /\ OutcomeOf(call[w]) = "open" /\ disk' = disk
    BY <1>1, <1>12, <2>1, OutcomeCases DEF IoError, Pc, Result
  <2>3. QED
    BY <1>5, <2>1, <2>2
<1>13. ASSUME NEW w \in Writer, NEW temp, NEW result \in Result, disk' = disk,
              call' = [call EXCEPT ![w].pc = "done", ![w].temp = temp, ![w].result = result],
              \/ /\ call[w].pc = "cleanup"
                 /\ result = call[w].result \/ (result = "io" /\ call[w].result = "ok")
              \/ call[w].pc \notin {"idle", "done"} /\ result = "io"
       PROVE  [Contract!Next]_(Contract!vars)
  <2> DEFINE c == [call[w] EXCEPT !.pc = "done", !.temp = temp, !.result = result]
  <2>1. call' = [call EXCEPT ![w] = c]
    BY <1>1, <1>13
  <2>2. c.pc = "done" /\ c.key = call[w].key /\ c.bytes = call[w].bytes /\ c.result = result
    BY <1>1 DEF CallRecord
  <2> HIDE DEF c
  <2>3. CASE result = "io"
    <3>1. OutcomeOf(c) = "failed"
      BY <2>2, <2>3, OutcomeCases DEF Pc, Result
    <3>2. OutcomeOf(call[w]) \in {"open", "taken", "conflict", "failed"}
      BY <1>1, <1>13, OutcomeCases DEF Pc
    <3>3. QED
      BY <1>4, <1>5, <1>13, <2>1, <2>2, <3>1, <3>2
  <2>4. CASE result = "ok"
    <3>1. OutcomeOf(call[w]) = "taken" /\ OutcomeOf(c) = "ok"
      BY <1>1, <1>13, <2>2, <2>4, OutcomeCases DEF Pc, Result
    <3>2. Visible' = [Visible EXCEPT ![w].outcome = OutcomeOf(c)]
      BY <1>1, <2>1, <2>2, Becomes
    <3>3. Contract!Become(w, "ok") /\ Visible[w].outcome = "taken"
      BY <1>1, <3>1, <3>2, ShownSteps
    <3>4. Contract!Succeed(w)
      BY <1>13, <3>3 DEF Contract!Succeed, Visible, Shown
    <3>5. QED
      BY <1>3, <3>4
  <2>5. CASE result \notin {"ok", "io"}
    <3>1. call[w].pc = "cleanup" /\ result = call[w].result
      BY <1>13, <2>5
    <3>2. OutcomeOf(c) = OutcomeOf(call[w])
      BY <1>1, <2>2, <2>5, <3>1, OutcomeCases DEF Pc, Result
    <3>3. QED
      BY <1>4, <1>13, <2>1, <2>2, <3>2
  <2>6. QED
    BY <2>3, <2>4, <2>5
<1>14. ASSUME NEW w \in Writer, Cleanup(w)
       PROVE  [Contract!Next]_(Contract!vars)
  <2>1. PICK removed \in BOOLEAN :
           call' = [call EXCEPT
              ![w].pc = "done",
              ![w].temp = IF removed THEN Absent ELSE @,
              ![w].result = IF removed \/ call[w].temp = Absent \/ @ # "ok" THEN @ ELSE "io"]
    BY <1>14 DEF Cleanup
  <2> DEFINE temp == IF removed THEN Absent ELSE call[w].temp
             result == IF removed \/ call[w].temp = Absent \/ call[w].result # "ok"
                       THEN call[w].result ELSE "io"
  <2>2. call' = [call EXCEPT ![w].pc = "done", ![w].temp = temp, ![w].result = result]
    BY <1>1, <2>1 DEF CallRecord
  <2>3. /\ result \in Result /\ disk' = disk /\ call[w].pc = "cleanup"
        /\ result = call[w].result \/ (result = "io" /\ call[w].result = "ok")
    BY <1>1, <1>14 DEF Cleanup, Result
  <2> HIDE DEF temp, result
  <2>4. QED
    BY <1>13, <2>2, <2>3
<1>15. ASSUME NEW w \in Writer, Killed(w)
       PROVE  [Contract!Next]_(Contract!vars)
  <2>1. /\ call' = [call EXCEPT ![w].pc = "done", ![w].temp = call[w].temp, ![w].result = "io"]
        /\ disk' = disk /\ call[w].pc \notin {"idle", "done"} /\ "io" \in Result
    BY <1>1, <1>15 DEF Killed, CallRecord, Result
  <2>2. QED
    BY <1>13, <2>1
<1>16. ASSUME NEW w \in Writer, Release(w), disk' = disk
       PROVE  [Contract!Next]_(Contract!vars)
  <2>1. call' = [call EXCEPT ![w] = Idle] /\ call[w].pc \in {"idle", "done"}
    BY <1>16 DEF Release
  <2>2. CASE call[w].pc = "idle"
    <3>1. call[w] = Idle
      BY <2>2 DEF Calls
    <3>2. QED
      BY <1>4, <1>16, <2>1, <3>1
  <2>3. CASE call[w].pc = "done"
    <3>1. OutcomeOf(call[w]) \in {"ok", "conflict", "failed"}
      BY <1>1, <2>3, OutcomeCases DEF Pc
    <3>2. OutcomeOf(Idle) = "none"
      BY OutcomeCases DEF Idle, Pc, Result
    <3>3. Visible' = [Visible EXCEPT ![w] = Contract!Idle]
      BY <1>1, <2>1, <3>2, BecomesOther DEF Shown, Contract!Idle, Idle
    <3>4. Contract!Return(w)
      BY <1>16, <3>1, <3>3 DEF Contract!Return, Visible, Shown
    <3>5. QED
      BY <1>3, <3>4
  <2>4. QED
    BY <2>1, <2>2, <2>3
<1>17. CASE Damage
  <2>1. PICK k \in Key, content \in {Absent, Garbage} \cup {disk[other] : other \in Key} :
           disk[k] \notin {Absent, content} /\ disk' = [disk EXCEPT ![k] = content]
    BY <1>17 DEF Damage
  <2>2. content \in Bytes \cup {Absent, Garbage}
    BY <1>1, <2>1
  <2>3. disk[k] # Absent
    BY <2>1
  <2>4. Visible' = Visible
    BY <1>17 DEF Damage, Visible
  <2>5. Contract!Damage
    BY <2>1, <2>2, <2>3, <2>4 DEF Contract!Damage, Visible, Shown
  <2>6. QED
    BY <2>5 DEF Contract!Next
<1>18. CASE UNCHANGED storeVars
  BY <1>2, <1>18 DEF storeVars, Visible
<1>19. QED
  BY <1>7, <1>8, <1>10, <1>11, <1>12, <1>14, <1>15, <1>16, <1>17, <1>18 DEF StoreNext, Progress

-----------------------------------------------------------------------------
(* The pipeline: the inductive invariant. *)

References == {Reference(p, k, bytes) : p \in Pipelines, k \in Key, bytes \in Bytes}

\* The object under a key is what was stored there, unless it was harmed.
Kept(k, bytes) == k \in damaged \/ disk[k] = bytes

\* A reference that stands for a payload.
Holds(p, payload, ref) ==
    \E k \in Key : ref = Reference(p, k, Prepared(p, payload)) /\ Kept(k, Prepared(p, payload))

\* A call that has returned ok, or is about to, has its object in the store.
Confirmed ==
    \A w \in Writer :
        call[w].pc \in {"cleanup", "done"} /\ call[w].result = "ok"
            => Kept(call[w].key, call[w].bytes)

\* What a writer has made and has left to do are the two parts of its batch.
Halves(j) ==
    /\ j.todo \in Seq(Bytes) /\ j.refs \in Seq(References) /\ j.payloads \in Seq(Payload)
    /\ Len(j.todo) + Len(j.refs) = Len(j.payloads)
    /\ \A i \in 1..Len(j.todo) : j.todo[i] = Prepared(j.pipeline, j.payloads[Len(j.refs) + i])
    /\ \A i \in 1..Len(j.refs) : Holds(j.pipeline, j.payloads[i], j.refs[i])

Admitted(p, payloads) == p \in Pipelines /\ WithinLimits(p, PreparedBatch(p, payloads))

Job == [pipeline : Pipelines \cup {Absent}, todo : Seq(Bytes), refs : Seq(References),
        payloads : Seq(Payload)]

Jobs ==
    /\ job \in [Writer -> Job]
    /\ \A w \in Writer :
          /\ Halves(job[w])
          /\ job[w].payloads # << >> => Admitted(job[w].pipeline, job[w].payloads)
          /\ call[w].pc # "idle" => job[w].todo # << >> /\ call[w].bytes = Head(job[w].todo)

\* References that were issued for payloads.
Stands(batch) ==
    /\ batch.refs \in Seq(References) /\ batch.payloads \in Seq(Payload)
    /\ Len(batch.refs) = Len(batch.payloads)
    /\ Admitted(batch.by, batch.payloads)
    /\ \A i \in 1..Len(batch.refs) : Holds(batch.by, batch.payloads[i], batch.refs[i])

Issued == \A batch \in issued : Stands(batch)

Inv ==
    /\ StoreTypeOK /\ damaged \subseteq Key
    /\ Calls /\ Confirmed /\ Jobs /\ Issued

-----------------------------------------------------------------------------
(* The pipeline: its steps in the store. *)

\* Every step of the pipeline is one of the store, or leaves the store alone.
LEMMA PipelineStepIsStoreStep ==
    ASSUME Jobs, [Next]_vars
    PROVE  [StoreNext]_storeVars
<1>1. ASSUME NEW w \in Writer, BeginStore(w)
      PROVE  StoreNext
  <2>1. job[w].todo # << >> /\ job[w].todo \in Seq(Bytes)
    BY <1>1 DEF BeginStore, Jobs, Halves
  <2>2. Head(job[w].todo) \in Bytes
    BY <2>1, HeadTailProperties
  <2>3. QED
    BY <1>1, <2>2 DEF BeginStore, StoreNext
<1>2. ASSUME NEW w \in Writer, Stored(w) \/ StoreFailed(w) \/ WriterKilled(w)
      PROVE  StoreNext
  BY <1>2 DEF Stored, StoreFailed, WriterKilled, StoreNext
<1>3. ASSUME NEW w \in Writer, StoreStep(w)
      PROVE  StoreNext
  BY <1>3 DEF StoreStep, StoreNext
<1>4. CASE ObjectDamaged
  BY <1>4 DEF ObjectDamaged, StoreNext
<1>5. CASE UNCHANGED vars \/ \E w \in Writer : Encode(w)
  BY <1>5 DEF vars, Encode, storeVars
<1>6. QED
  BY <1>1, <1>2, <1>3, <1>4, <1>5 DEF Next

\* The objects change in two ways: one is linked where there was none, or harmed.
LEMMA ObjectsMove ==
    ASSUME [Next]_vars
    PROVE  \/ disk' = disk /\ damaged' = damaged
           \/ /\ \E w \in Writer : /\ HardLink(w) /\ disk[call[w].key] = Absent
                                   /\ disk' = [disk EXCEPT ![call[w].key] = call[w].temp]
              /\ damaged' = damaged
           \/ damaged = {} /\ damaged' = {k \in Key : disk'[k] # disk[k]}
<1>1. ASSUME NEW w \in Writer, StoreStep(w)
      PROVE  \/ disk' = disk /\ damaged' = damaged
             \/ /\ HardLink(w) /\ disk[call[w].key] = Absent
                /\ disk' = [disk EXCEPT ![call[w].key] = call[w].temp]
                /\ damaged' = damaged
  BY <1>1 DEF StoreStep, Progress, CreateTemporary, WriteAll, SyncAll, HardLink,
              CompareExisting, IoError, Cleanup
<1>2. ASSUME NEW w \in Writer,
             Encode(w) \/ BeginStore(w) \/ Stored(w) \/ StoreFailed(w) \/ WriterKilled(w)
      PROVE  disk' = disk /\ damaged' = damaged
  BY <1>2 DEF Encode, BeginStore, Begin, Stored, StoreFailed, WriterKilled, Killed
<1>3. CASE ObjectDamaged \/ UNCHANGED vars
  BY <1>3 DEF ObjectDamaged, vars
<1>4. QED
  BY <1>1, <1>2, <1>3 DEF Next

LEMMA KeptStays ==
    ASSUME StoreTypeOK, Calls, [Next]_vars, NEW k \in Key, NEW bytes \in Bytes, Kept(k, bytes)
    PROVE  Kept(k, bytes)'
<1>1. disk \in [Key -> Bytes \cup {Absent, Garbage}] /\ bytes # Absent
  BY StoreAssumption DEF StoreTypeOK
<1>2. CASE disk' = disk /\ damaged' = damaged
  BY <1>2 DEF Kept
<1>3. ASSUME NEW w \in Writer, disk[call[w].key] = Absent, damaged' = damaged,
             disk' = [disk EXCEPT ![call[w].key] = call[w].temp]
      PROVE  Kept(k, bytes)'
  BY <1>1, <1>3 DEF Kept
<1>4. CASE damaged = {} /\ damaged' = {x \in Key : disk'[x] # disk[x]}
  BY <1>4 DEF Kept
<1>5. QED
  BY <1>2, <1>3, <1>4, ObjectsMove

LEMMA HoldsStays ==
    ASSUME StoreTypeOK, Calls, [Next]_vars,
           NEW p \in Pipelines, NEW payload \in Payload, NEW ref, Holds(p, payload, ref)
    PROVE  Holds(p, payload, ref)'
<1>1. PICK k \in Key : ref = Reference(p, k, Prepared(p, payload)) /\ Kept(k, Prepared(p, payload))
  BY DEF Holds
<1>2. Prepared(p, payload) \in Bytes
  BY PipelineAssumption
<1>3. Kept(k, Prepared(p, payload))'
  BY <1>1, <1>2, KeptStays
<1>4. QED
  BY <1>1, <1>3 DEF Holds

\* A result ok comes from a link or from the comparison.
LEMMA OkIsEarned ==
    ASSUME StoreTypeOK, Calls, [StoreNext]_storeVars, NEW w \in Writer,
           call'[w].pc \in {"cleanup", "done"}, call'[w].result = "ok"
    PROVE  /\ call'[w].key = call[w].key /\ call'[w].bytes = call[w].bytes
           /\ call[w].key \in Key /\ call[w].bytes \in Bytes
           /\ \/ call[w].pc \in {"cleanup", "done"} /\ call[w].result = "ok"
              \/ disk'[call[w].key] = call[w].bytes
<1>1. /\ call \in [Writer -> CallRecord]
      /\ disk \in [Key -> Bytes \cup {Absent, Garbage}]
  BY DEF StoreTypeOK, CallRecord
<1>2. ASSUME call[w].pc # "idle"
      PROVE  call[w].key \in Key /\ call[w].bytes \in Bytes
  BY <1>2 DEF Calls
<1>3. ASSUME call'[w] = call[w]
      PROVE  call[w].pc \in {"cleanup", "done"} /\ call[w].result = "ok"
  BY <1>3
<1>4. ASSUME NEW v \in Writer, v # w,
             \/ \E key \in Key, bytes \in Bytes : Begin(v, key, bytes)
             \/ Progress(v) \/ Killed(v) \/ Release(v)
      PROVE  call'[w] = call[w]
  BY <1>1, <1>4 DEF Progress, Begin, CreateTemporary, WriteAll, SyncAll, HardLink, CompareExisting,
                    IoError, Cleanup, Killed, Release, Goto, Give
<1>5. ASSUME NEW key \in Key, NEW bytes \in Bytes, Begin(w, key, bytes)
      PROVE  FALSE
  BY <1>1, <1>5 DEF Begin, Idle
<1>6. ASSUME CreateTemporary(w) \/ WriteAll(w) \/ SyncAll(w) \/ Release(w) \/ Killed(w) \/ IoError(w)
      PROVE  FALSE
  BY <1>1, <1>6 DEF CreateTemporary, WriteAll, SyncAll, Release, Killed, IoError, Goto, Give,
                    Idle, CallRecord
<1>7. CASE HardLink(w)
  <2>1. call[w].pc = "link" /\ call[w].temp = call[w].bytes /\ call[w].key \in Key
    BY <1>2, <1>7 DEF HardLink, Calls
  <2>2. CASE disk[call[w].key] = Absent
    <3>1. call'[w].key = call[w].key /\ call'[w].bytes = call[w].bytes
      BY <1>1, <1>7, <2>2 DEF HardLink, Give, CallRecord
    <3>2. disk'[call[w].key] = call[w].bytes
      BY <1>1, <1>7, <2>1, <2>2 DEF HardLink
    <3>3. QED
      BY <1>2, <2>1, <3>1, <3>2
  <2>3. CASE disk[call[w].key] # Absent
    BY <1>1, <1>7, <2>3 DEF HardLink, Goto, CallRecord
  <2>4. QED
    BY <2>2, <2>3
<1>8. CASE CompareExisting(w)
  <2>1. call[w].pc = "compare" /\ disk' = disk
    BY <1>8 DEF CompareExisting
  <2>2. PICK result \in {"ok", "missing", "conflict"} :
           Give(w, result) /\ (result = "ok" => disk[call[w].key] = call[w].bytes)
    BY <1>8 DEF CompareExisting
  <2>3. call'[w].result = result /\ call'[w].key = call[w].key /\ call'[w].bytes = call[w].bytes
    BY <1>1, <2>2 DEF Give, CallRecord
  <2>4. QED
    BY <1>2, <2>1, <2>2, <2>3
<1>9. CASE Cleanup(w)
  <2>1. call[w].pc = "cleanup"
    BY <1>9 DEF Cleanup
  <2>2. PICK removed \in BOOLEAN :
           call' = [call EXCEPT
              ![w].pc = "done",
              ![w].temp = IF removed THEN Absent ELSE @,
              ![w].result = IF removed \/ call[w].temp = Absent \/ @ # "ok" THEN @ ELSE "io"]
    BY <1>9 DEF Cleanup
  <2>3. /\ call'[w].key = call[w].key /\ call'[w].bytes = call[w].bytes
        /\ call'[w].result \in {"io", call[w].result}
    BY <1>1, <2>2 DEF CallRecord
  <2>4. QED
    BY <1>2, <2>1, <2>3
<1>10. CASE UNCHANGED storeVars \/ Damage
  BY <1>2, <1>3, <1>10 DEF storeVars, Damage
<1>11. CASE call'[w] = call[w]
  BY <1>2, <1>3, <1>11
<1>12. \/ \E v \in Writer :
             \/ \E key \in Key, bytes \in Bytes : Begin(v, key, bytes)
             \/ Progress(v) \/ Killed(v) \/ Release(v)
       \/ UNCHANGED storeVars \/ Damage
  BY DEF StoreNext
<1>13. QED
  BY <1>4, <1>5, <1>6, <1>7, <1>8, <1>9, <1>10, <1>11, <1>12 DEF Progress

LEMMA StepKeepsConfirmed ==
    ASSUME StoreTypeOK, Calls, Confirmed, Jobs, [Next]_vars
    PROVE  Confirmed'
<1>1. ASSUME NEW w \in Writer, call'[w].pc \in {"cleanup", "done"}, call'[w].result = "ok"
      PROVE  Kept(call[w].key, call[w].bytes)'
  <2>1. /\ call'[w].key = call[w].key /\ call'[w].bytes = call[w].bytes
        /\ call[w].key \in Key /\ call[w].bytes \in Bytes
        /\ \/ call[w].pc \in {"cleanup", "done"} /\ call[w].result = "ok"
           \/ disk'[call[w].key] = call[w].bytes
    BY <1>1, PipelineStepIsStoreStep, OkIsEarned
  <2>2. CASE call[w].pc \in {"cleanup", "done"} /\ call[w].result = "ok"
    <3>1. ASSUME NEW k \in Key, NEW bytes \in Bytes, k = call[w].key, bytes = call[w].bytes
          PROVE  Kept(k, bytes)'
      <4>1. Kept(k, bytes)
        BY <2>2, <3>1 DEF Confirmed
      <4>2. QED
        BY <4>1, KeptStays
    <3>2. QED
      BY <2>1, <3>1 DEF Kept
  <2>3. CASE disk'[call[w].key] = call[w].bytes
    BY <2>1, <2>3 DEF Kept
  <2>4. QED
    BY <2>1, <2>2, <2>3
<1>2. QED
  BY <1>1 DEF Confirmed

-----------------------------------------------------------------------------
(* The pipeline: jobs and what is issued. *)

LEMMA NoJobHalves == NoJob \in Job /\ Halves(NoJob) /\ NoJob.payloads = << >>
<1>1. << >> \in Seq(Bytes) /\ << >> \in Seq(References) /\ << >> \in Seq(Payload) /\ Len(<< >>) = 0
  OBVIOUS
<1>2. QED
  BY <1>1 DEF NoJob, Job, Halves

\* A batch that is admitted is left to be stored, in order.
LEMMA EncodedHalves ==
    ASSUME NEW p \in Pipelines, NEW payloads \in Seq(Payload)
    PROVE  LET j == [pipeline |-> p, todo |-> PreparedBatch(p, payloads), refs |-> << >>,
                     payloads |-> payloads]
           IN  j \in Job /\ Halves(j)
<1> DEFINE todo == PreparedBatch(p, payloads)
           j == [pipeline |-> p, todo |-> todo, refs |-> << >>, payloads |-> payloads]
<1>1. /\ Len(payloads) \in Nat /\ DOMAIN payloads = 1..Len(payloads)
      /\ \A i \in 1..Len(payloads) : payloads[i] \in Payload
  OBVIOUS
<1>2. /\ todo = [i \in 1..Len(payloads) |-> Prepared(p, payloads[i])]
      /\ \A i \in 1..Len(payloads) : Prepared(p, payloads[i]) \in Bytes
  BY <1>1, PipelineAssumption DEF PreparedBatch
<1> HIDE DEF todo
<1>3. todo \in Seq(Bytes) /\ Len(todo) = Len(payloads)
  BY <1>1, <1>2
<1>4. << >> \in Seq(References) /\ Len(<< >>) = 0
  OBVIOUS
<1>5. \A i \in 1..Len(todo) : todo[i] = Prepared(p, payloads[0 + i])
  BY <1>1, <1>2, <1>3
<1>6. j \in Job
  BY <1>3, <1>4 DEF Job
<1>7. Halves(j)
  BY <1>1, <1>3, <1>4, <1>5 DEF Halves
<1>8. QED
  BY <1>6, <1>7 DEF todo

LEMMA Parts == \A a, b, c \in Nat : a + b = c /\ a # 0 => c # 0
  OBVIOUS

LEMMA Lengths ==
    ASSUME NEW j, Halves(j)
    PROVE  /\ j.todo \in Seq(Bytes) /\ j.refs \in Seq(References) /\ j.payloads \in Seq(Payload)
           /\ Len(j.todo) \in Nat /\ Len(j.refs) \in Nat /\ Len(j.payloads) \in Nat
           /\ Len(j.todo) + Len(j.refs) = Len(j.payloads)
           /\ j.todo # << >> => /\ Len(j.todo) # 0 /\ j.payloads # << >>
                                /\ Head(j.todo) = j.todo[1]
                                /\ Tail(j.todo) \in Seq(Bytes) /\ Len(Tail(j.todo)) = Len(j.todo) - 1
                                /\ \A i \in 1..(Len(j.todo) - 1) : Tail(j.todo)[i] = j.todo[i + 1]
<1>1. /\ j.todo \in Seq(Bytes) /\ j.refs \in Seq(References) /\ j.payloads \in Seq(Payload)
      /\ Len(j.todo) + Len(j.refs) = Len(j.payloads)
  BY DEF Halves
<1>2. Len(j.todo) \in Nat /\ Len(j.refs) \in Nat /\ Len(j.payloads) \in Nat
  BY <1>1, LenProperties
<1>3. ASSUME j.todo # << >>
      PROVE  /\ Len(j.todo) # 0
             /\ Head(j.todo) = j.todo[1]
             /\ Tail(j.todo) \in Seq(Bytes) /\ Len(Tail(j.todo)) = Len(j.todo) - 1
             /\ \A i \in 1..(Len(j.todo) - 1) : Tail(j.todo)[i] = j.todo[i + 1]
  BY <1>1, <1>3, HeadTailProperties, EmptySeq
<1>4. ASSUME Len(j.todo) # 0
      PROVE  j.payloads # << >>
  <2>1. Len(j.payloads) # 0
    BY <1>1, <1>2, <1>4, Parts, Zenon
  <2>2. Len(<< >>) = 0
    OBVIOUS
  <2>3. QED
    BY <2>1, <2>2
<1>5. QED
  BY <1>1, <1>2, <1>3, <1>4

\* An object that is stored moves from the one half to the other.
LEMMA MovedHalves ==
    ASSUME NEW j \in Job, Halves(j), j.todo # << >>, NEW ref \in References,
           \A payload \in Payload : Head(j.todo) = Prepared(j.pipeline, payload)
                => Holds(j.pipeline, payload, ref)
    PROVE  LET moved == [j EXCEPT !.todo = Tail(@), !.refs = Append(j.refs, ref)]
           IN  moved \in Job /\ Halves(moved)
<1> DEFINE todo == Tail(j.todo)
           refs == Append(j.refs, ref)
           moved == [j EXCEPT !.todo = todo, !.refs = refs]
<1>1. /\ j.todo \in Seq(Bytes) /\ j.refs \in Seq(References) /\ j.payloads \in Seq(Payload)
      /\ Len(j.todo) + Len(j.refs) = Len(j.payloads)
      /\ Len(j.todo) \in Nat /\ Len(j.todo) # 0 /\ Len(j.refs) \in Nat /\ Len(j.payloads) \in Nat
      /\ Head(j.todo) = j.todo[1]
  BY Lengths
<1>2. /\ todo \in Seq(Bytes) /\ Len(todo) = Len(j.todo) - 1
      /\ \A i \in 1..(Len(j.todo) - 1) : todo[i] = j.todo[i + 1]
  BY Lengths
<1>3. /\ refs \in Seq(References) /\ Len(refs) = Len(j.refs) + 1
      /\ \A i \in 1..Len(j.refs) : refs[i] = j.refs[i]
      /\ refs[Len(j.refs) + 1] = ref
  BY <1>1, AppendProperties
<1> HIDE DEF todo, refs
<1>4. /\ moved \in Job /\ moved.pipeline = j.pipeline /\ moved.payloads = j.payloads
      /\ moved.todo = todo /\ moved.refs = refs
  BY <1>2, <1>3 DEF Job
<1> HIDE DEF moved
<1> DEFINE a == Len(j.todo)
           b == Len(j.refs)
           c == Len(j.payloads)
           x == Len(todo)
           y == Len(refs)
<1>41. a \in Nat /\ b \in Nat /\ c \in Nat /\ a + b = c /\ a # 0 /\ x = a - 1 /\ y = b + 1
  BY <1>1, <1>2, <1>3
<1>42. /\ x + y = c /\ b + 1 \in 1..c
       /\ \A i \in 1..x : i + 1 \in 1..a /\ b + (i + 1) = y + i
       /\ \A i \in 1..y : i \in 1..b \/ i = b + 1
  <2> HIDE DEF a, b, c, x, y
  <2>1. QED
    BY <1>41
<1>5. ASSUME NEW i \in 1..Len(todo)
      PROVE  todo[i] = Prepared(j.pipeline, j.payloads[Len(refs) + i])
  <2>1. i + 1 \in 1..Len(j.todo) /\ todo[i] = j.todo[i + 1]
    BY <1>2, <1>42
  <2>2. j.todo[i + 1] = Prepared(j.pipeline, j.payloads[Len(j.refs) + (i + 1)])
    BY <2>1 DEF Halves
  <2>3. Len(j.refs) + (i + 1) = Len(refs) + i
    BY <1>42, Zenon
  <2>4. QED
    BY <2>1, <2>2, <2>3
<1>6. ASSUME NEW i \in 1..Len(refs)
      PROVE  Holds(j.pipeline, j.payloads[i], refs[i])
  <2>1. CASE i \in 1..Len(j.refs)
    BY <1>3, <2>1 DEF Halves
  <2>2. CASE i = Len(j.refs) + 1
    <3>1. j.todo[1] = Prepared(j.pipeline, j.payloads[Len(j.refs) + 1])
      BY <1>1 DEF Halves
    <3>2. j.payloads[Len(j.refs) + 1] \in Payload
      <4>1. Len(j.refs) + 1 \in 1..Len(j.payloads)
        BY <1>42
      <4>2. j.payloads \in Seq(Payload)
        BY <1>1
      <4>3. QED
        BY <4>1, <4>2, ElementOfSeq
    <3>3. QED
      BY <1>1, <1>3, <2>2, <3>1, <3>2
  <2>3. QED
    BY <1>42, <2>1, <2>2
<1>7. Len(todo) + Len(refs) = Len(j.payloads)
  BY <1>42
<1>8. Halves(moved)
  BY <1>1, <1>2, <1>3, <1>4, <1>5, <1>6, <1>7 DEF Halves
<1>9. QED
  BY <1>4, <1>8 DEF moved, todo, refs

\* The halves of a batch stay what they are while objects are stored or harmed.
LEMMA HalvesStay ==
    ASSUME StoreTypeOK, Calls, [Next]_vars, NEW j, Halves(j),
           j.payloads # << >> => j.pipeline \in Pipelines
    PROVE  Halves(j)'
<1>1. ASSUME NEW i \in 1..Len(j.refs)
      PROVE  Holds(j.pipeline, j.payloads[i], j.refs[i])'
  <2>1. /\ Len(j.todo) \in Nat /\ Len(j.refs) \in Nat /\ Len(j.payloads) \in Nat
        /\ Len(j.todo) + Len(j.refs) = Len(j.payloads) /\ Len(<< >>) = 0
    BY Lengths
  <2>2. i \in 1..Len(j.payloads) /\ Len(j.payloads) # 0
    <3> DEFINE a == Len(j.todo)
               b == Len(j.refs)
               c == Len(j.payloads)
    <3>1. a \in Nat /\ b \in Nat /\ c \in Nat /\ a + b = c /\ i \in 1..b
      BY <2>1
    <3> HIDE DEF a, b, c
    <3>2. i \in 1..c /\ c # 0
      BY <3>1
    <3>3. QED
      BY <3>2 DEF c
  <2>3. j.pipeline \in Pipelines /\ j.payloads[i] \in Payload
    <3>1. j.payloads # << >> /\ j.payloads \in Seq(Payload)
      BY <2>1, <2>2, Lengths
    <3>2. QED
      BY <2>2, <3>1, ElementOfSeq
  <2>4. Holds(j.pipeline, j.payloads[i], j.refs[i])
    BY DEF Halves
  <2>5. QED
    BY <2>3, <2>4, HoldsStays
<1>2. QED
  BY <1>1 DEF Halves

\* The reference of an object that was stored.
LEMMA StoredHolds ==
    ASSUME Calls, Confirmed, Jobs, NEW w \in Writer, Stored(w)
    PROVE  LET ref == Reference(job[w].pipeline, call[w].key, call[w].bytes)
           IN  /\ job[w] \in Job /\ Halves(job[w]) /\ job[w].todo # << >>
               /\ job[w].payloads # << >> /\ Admitted(job[w].pipeline, job[w].payloads)
               /\ ref \in References
               /\ \A payload \in Payload : Head(job[w].todo) = Prepared(job[w].pipeline, payload)
                     => Holds(job[w].pipeline, payload, ref)
<1>1. /\ call[w].pc = "done" /\ call[w].result = "ok"
      /\ job[w] \in Job /\ Halves(job[w]) /\ job[w].todo # << >> /\ call[w].bytes = Head(job[w].todo)
  BY DEF Stored, Jobs
<1>2. job[w].payloads # << >>
  BY <1>1, Lengths
<1>3. Admitted(job[w].pipeline, job[w].payloads) /\ job[w].pipeline \in Pipelines
  BY <1>2 DEF Jobs, Admitted
<1>4. call[w].key \in Key /\ call[w].bytes \in Bytes /\ Kept(call[w].key, call[w].bytes)
  BY <1>1 DEF Calls, Confirmed
<1>5. QED
  BY <1>1, <1>2, <1>3, <1>4 DEF References, Holds

\* A step that starts no call leaves the bytes of those under way.
LEMMA BytesStay ==
    ASSUME StoreTypeOK, NEW v \in Writer,
           Progress(v) \/ Killed(v) \/ Release(v) \/ UNCHANGED call, NEW w \in Writer
    PROVE  \/ call'[w].pc = "idle"
           \/ call[w].pc # "idle" /\ call'[w].bytes = call[w].bytes
<1>1. call \in [Writer -> CallRecord]
  BY DEF StoreTypeOK, CallRecord
<1>2. CASE w # v \/ UNCHANGED call
  <2>1. call'[w] = call[w]
    BY <1>1, <1>2 DEF Progress, CreateTemporary, WriteAll, SyncAll, HardLink, CompareExisting,
                      IoError, Cleanup, Killed, Release, Goto, Give
  <2>2. QED
    BY <2>1
<1>3. CASE w = v /\ Release(v)
  BY <1>1, <1>3 DEF Release, Idle
<1>4. CASE w = v /\ (Progress(v) \/ Killed(v))
  <2>1. call[w].pc # "idle"
    BY <1>4 DEF Progress, CreateTemporary, WriteAll, SyncAll, HardLink, CompareExisting,
                IoError, Cleanup, Killed
  <2>2. ASSUME NEW pc, NEW temp, NEW result,
               call' = [call EXCEPT ![w].pc = pc, ![w].temp = temp, ![w].result = result]
        PROVE  call'[w].bytes = call[w].bytes
    BY <1>1, <2>2 DEF CallRecord
  <2>3. CASE CreateTemporary(w) \/ WriteAll(w)
    BY <1>1, <2>3 DEF CreateTemporary, WriteAll, CallRecord
  <2>4. ASSUME NEW pc, Goto(w, pc)
        PROVE  call'[w].bytes = call[w].bytes
    BY <1>1, <2>4 DEF Goto, CallRecord
  <2>5. ASSUME NEW result, Give(w, result)
        PROVE  call'[w].bytes = call[w].bytes
    BY <1>1, <2>5 DEF Give, CallRecord
  <2>6. CASE Cleanup(w)
    <3>1. PICK removed \in BOOLEAN :
             call' = [call EXCEPT
                ![w].pc = "done",
                ![w].temp = IF removed THEN Absent ELSE @,
                ![w].result = IF removed \/ call[w].temp = Absent \/ @ # "ok" THEN @ ELSE "io"]
      BY <2>6 DEF Cleanup
    <3>2. call'[w] = [call[w] EXCEPT !.pc = "done",
                          !.temp = IF removed THEN Absent ELSE call[w].temp,
                          !.result = IF removed \/ call[w].temp = Absent \/ call[w].result # "ok"
                                     THEN call[w].result ELSE "io"]
      BY <1>1, <3>1
    <3>3. call'[w].bytes = call[w].bytes
      BY <1>1, <3>2 DEF CallRecord
    <3>4. QED
      BY <2>1, <3>3
  <2>7. CASE Killed(w)
    BY <1>1, <2>7 DEF Killed, CallRecord
  <2>8. CASE SyncAll(w) \/ HardLink(w)
    BY <2>4, <2>5, <2>8 DEF SyncAll, HardLink
  <2>9. CASE CompareExisting(w) \/ IoError(w)
    BY <2>5, <2>9 DEF CompareExisting, IoError
  <2>10. QED
    BY <1>4, <2>1, <2>3, <2>6, <2>7, <2>8, <2>9 DEF Progress
<1>5. QED
  BY <1>2, <1>3, <1>4

\* What a job must be, with the call of its writer.
Fits(j, c) ==
    /\ j \in Job /\ Halves(j)
    /\ j.payloads # << >> => Admitted(j.pipeline, j.payloads)
    /\ c.pc # "idle" => j.todo # << >> /\ c.bytes = Head(j.todo)

LEMMA JobsFit == Jobs <=> (job \in [Writer -> Job] /\ \A w \in Writer : Fits(job[w], call[w]))
  BY DEF Jobs, Fits

\* A job that is kept, and one that is given up.
LEMMA FitStays ==
    ASSUME StoreTypeOK, Calls, [Next]_vars, NEW j, NEW c, NEW d, Fits(j, c),
           d.pc = "idle" \/ (c.pc # "idle" /\ d.bytes = c.bytes)
    PROVE  Fits(j, d)'
<1>1. Halves(j)'
  BY HalvesStay DEF Fits, Admitted
<1>2. Admitted(j.pipeline, j.payloads)' <=> Admitted(j.pipeline, j.payloads)
  OBVIOUS
<1>3. (j \in Job)' <=> j \in Job
  BY DEF Job
<1>4. QED
  BY <1>1, <1>2, <1>3 DEF Fits

LEMMA NoJobFits ==
    ASSUME StoreTypeOK, Calls, [Next]_vars, NEW d, d.pc = "idle"
    PROVE  Fits(NoJob, d)'
<1>1. Fits(NoJob, Idle)
  BY NoJobHalves DEF Fits, Idle
<1>2. QED
  BY <1>1, FitStays

LEMMA StepKeepsJobs ==
    ASSUME Inv, [Next]_vars
    PROVE  Jobs'
<1> USE DEF Inv
<1>1. job \in [Writer -> Job] /\ \A w \in Writer : Fits(job[w], call[w])
  BY JobsFit
<1>2. call \in [Writer -> CallRecord]
  BY DEF StoreTypeOK, CallRecord
\* What a step of one writer must come to.
<1>3. ASSUME NEW v \in Writer, NEW i, NEW c, Fits(i, c), job' = [job EXCEPT ![v] = i],
             call'[v].pc = "idle" \/ (c.pc # "idle" /\ call'[v].bytes = c.bytes),
             \A w \in Writer \ {v} : call'[w] = call[w]
      PROVE  Jobs'
  <2>1. job' \in [Writer -> Job] /\ job'[v] = i /\ \A w \in Writer \ {v} : job'[w] = job[w]
    BY <1>1, <1>3 DEF Fits
  <2>2. ASSUME NEW w \in Writer, NEW j, NEW d, j = job'[w], d = call'[w]
        PROVE  Fits(j, d)'
    <3>1. CASE w = v
      BY <1>3, <2>1, <2>2, <3>1, FitStays
    <3>2. CASE w # v
      <4>1. Fits(job[w], call[w]) /\ j = job[w] /\ d = call[w]
        BY <1>1, <1>3, <2>1, <2>2, <3>2
      <4>2. Fits(j, d)
        BY <4>1 DEF Fits
      <4>3. QED
        BY <4>2, FitStays DEF Fits
    <3>3. QED
      BY <3>1, <3>2
  <2>3. \A w \in Writer : Fits(job[w], call[w])'
    BY <2>2 DEF Fits
  <2>4. QED
    BY <2>1, <2>3 DEF Jobs, Fits
<1>4. ASSUME NEW v \in Writer, Encode(v)
      PROVE  Jobs'
  <2>1. PICK p \in Pipelines, payloads \in Batches :
           /\ WithinLimits(p, PreparedBatch(p, payloads))
           /\ job' = [job EXCEPT ![v] = [pipeline |-> p, todo |-> PreparedBatch(p, payloads),
                                         refs |-> << >>, payloads |-> payloads]]
    BY <1>4 DEF Encode
  <2> DEFINE j == [pipeline |-> p, todo |-> PreparedBatch(p, payloads), refs |-> << >>,
                   payloads |-> payloads]
  <2>2. payloads \in Seq(Payload)
    BY PipelineAssumption
  <2>3. j \in Job /\ Halves(j) /\ j.pipeline = p /\ j.payloads = payloads
    BY <2>2, EncodedHalves
  <2>4. call[v].pc = "idle" /\ call' = call
    BY <1>1, <1>4 DEF Encode, NoJob, Fits
  <2> HIDE DEF j
  <2>5. Fits(j, Idle)
    BY <2>1, <2>3 DEF Fits, Admitted, Idle
  <2>6. QED
    BY <1>3, <2>1, <2>4, <2>5 DEF j
<1>5. ASSUME NEW v \in Writer, BeginStore(v)
      PROVE  Jobs'
  <2>1. PICK key \in Key : Begin(v, key, Head(job[v].todo))
    BY <1>5 DEF BeginStore
  <2>2. /\ call'[v].pc = "create" /\ call'[v].bytes = Head(job[v].todo)
        /\ \A w \in Writer \ {v} : call'[w] = call[w]
    BY <1>2, <2>1 DEF Begin, Idle, CallRecord
  <2>3. job' = [job EXCEPT ![v] = job[v]] /\ job[v].todo # << >>
    BY <1>1, <1>5 DEF BeginStore
  <2>4. ASSUME NEW i, NEW c, i = job[v], c = call'[v]
        PROVE  Jobs'
    <3>1. Fits(i, c)
      BY <1>1, <2>2, <2>3, <2>4 DEF Fits
    <3>2. QED
      BY <1>3, <2>2, <2>3, <2>4, <3>1
  <2>5. QED
    BY <2>4
<1>6. ASSUME NEW v \in Writer, job' = job, Progress(v) \/ Killed(v)
      PROVE  Jobs'
  <2>1. call'[v].pc = "idle" \/ (call[v].pc # "idle" /\ call'[v].bytes = call[v].bytes)
    BY <1>6, BytesStay
  <2>2. \A w \in Writer \ {v} : call'[w] = call[w]
    BY <1>2, <1>6 DEF Progress, CreateTemporary, WriteAll, SyncAll, HardLink, CompareExisting,
                      IoError, Cleanup, Killed, Goto, Give
  <2>3. ASSUME NEW i, NEW c, i = job[v], c = call[v]
        PROVE  Jobs'
    <3>1. Fits(i, c) /\ job' = [job EXCEPT ![v] = i]
      BY <1>1, <1>6, <2>3 DEF Fits
    <3>2. QED
      BY <1>3, <2>1, <2>2, <2>3, <3>1
  <2>4. QED
    BY <2>3
<1>7. ASSUME NEW v \in Writer, NEW i, Fits(i, Idle), job' = [job EXCEPT ![v] = i], Release(v)
      PROVE  Jobs'
  <2>1. call'[v].pc = "idle" /\ \A w \in Writer \ {v} : call'[w] = call[w]
    BY <1>2, <1>7 DEF Release, Idle
  <2>2. QED
    BY <1>3, <1>7, <2>1
<1>8. Fits(NoJob, Idle)
  BY NoJobHalves DEF Fits, Idle
<1>9. ASSUME NEW v \in Writer, Stored(v)
      PROVE  Jobs'
  <2>1. CASE Len(job[v].todo) = 1
    BY <1>7, <1>8, <1>9, <2>1 DEF Stored
  <2>2. CASE Len(job[v].todo) # 1
    <3>1. ASSUME NEW j, NEW ref, j = job[v],
                 ref = Reference(job[v].pipeline, call[v].key, call[v].bytes)
          PROVE  Jobs'
      <4> DEFINE moved == [j EXCEPT !.todo = Tail(@), !.refs = Append(j.refs, ref)]
      <4>1. /\ j \in Job /\ Halves(j) /\ j.todo # << >> /\ ref \in References
            /\ j.payloads # << >> /\ Admitted(j.pipeline, j.payloads)
            /\ \A payload \in Payload : Head(j.todo) = Prepared(j.pipeline, payload)
                  => Holds(j.pipeline, payload, ref)
        BY <1>9, <3>1, StoredHolds
      <4>2. moved \in Job /\ Halves(moved)
        BY <4>1, MovedHalves
      <4>3. moved.pipeline = j.pipeline /\ moved.payloads = j.payloads
        BY <4>1 DEF Job
      <4>4. job' = [job EXCEPT ![v] = moved]
        <5>1. job' = [job EXCEPT ![v].todo = Tail(@), ![v].refs = Append(job[v].refs, ref)]
          BY <1>9, <2>2, <3>1 DEF Stored
        <5>2. QED
          BY <1>1, <3>1, <5>1
      <4> HIDE DEF moved
      <4>5. Fits(moved, Idle)
        BY <4>1, <4>2, <4>3 DEF Fits, Idle
      <4>6. QED
        BY <1>7, <1>9, <4>4, <4>5 DEF Stored
    <3>2. QED
      BY <3>1
  <2>3. QED
    BY <2>1, <2>2
<1>10. ASSUME NEW v \in Writer, StoreFailed(v) \/ WriterKilled(v)
       PROVE  Jobs'
  BY <1>6, <1>7, <1>8, <1>10 DEF StoreFailed, WriterKilled
<1>11. ASSUME NEW v \in Writer, StoreStep(v)
       PROVE  Jobs'
  BY <1>6, <1>11 DEF StoreStep
<1>12. CASE ObjectDamaged \/ UNCHANGED vars
  <2>1. job' = job /\ call' = call
    BY <1>12 DEF ObjectDamaged, Damage, vars
  <2>2. ASSUME NEW w \in Writer, NEW j, NEW d, j = job[w], d = call[w]
        PROVE  Fits(j, d)'
    <3>1. Fits(j, d)
      BY <1>1, <2>2 DEF Fits
    <3>2. QED
      BY <3>1, FitStays DEF Fits
  <2>3. \A w \in Writer : Fits(job[w], call[w])'
    BY <2>1, <2>2 DEF Fits
  <2>4. QED
    BY <1>1, <2>1, <2>3 DEF Jobs, Fits
<1>13. QED
  BY <1>4, <1>5, <1>9, <1>10, <1>11, <1>12 DEF Next

LEMMA StandsStays ==
    ASSUME StoreTypeOK, Calls, [Next]_vars, NEW batch, Stands(batch)
    PROVE  Stands(batch)'
<1>1. /\ batch.refs \in Seq(References) /\ batch.payloads \in Seq(Payload)
      /\ Len(batch.refs) = Len(batch.payloads)
      /\ Admitted(batch.by, batch.payloads) /\ batch.by \in Pipelines
  BY DEF Stands, Admitted
<1>2. ASSUME NEW i \in 1..Len(batch.refs)
      PROVE  Holds(batch.by, batch.payloads[i], batch.refs[i])'
  <2>1. batch.payloads[i] \in Payload
    BY <1>1, ElementOfSeq
  <2>2. Holds(batch.by, batch.payloads[i], batch.refs[i])
    BY DEF Stands
  <2>3. QED
    BY <1>1, <2>1, <2>2, HoldsStays
<1>3. Admitted(batch.by, batch.payloads)' <=> Admitted(batch.by, batch.payloads)
  OBVIOUS
<1>4. QED
  BY <1>1, <1>2, <1>3 DEF Stands

\* The last object of a batch completes its references.
LEMMA CompletedStands ==
    ASSUME NEW j \in Job, Halves(j), Len(j.todo) = 1, j.todo # << >>, NEW ref \in References,
           Admitted(j.pipeline, j.payloads),
           \A payload \in Payload : Head(j.todo) = Prepared(j.pipeline, payload)
                => Holds(j.pipeline, payload, ref)
    PROVE  Stands([by |-> j.pipeline, refs |-> Append(j.refs, ref), payloads |-> j.payloads])
<1> DEFINE moved == [j EXCEPT !.todo = Tail(@), !.refs = Append(j.refs, ref)]
<1>1. moved \in Job /\ Halves(moved)
  BY MovedHalves
<1>2. /\ moved.pipeline = j.pipeline /\ moved.payloads = j.payloads
      /\ moved.todo = Tail(j.todo) /\ moved.refs = Append(j.refs, ref)
  BY DEF Job
<1>3. Len(moved.todo) = 0
  BY <1>2, Lengths
<1> HIDE DEF moved
<1>4. Len(moved.refs) = Len(moved.payloads)
  <2> DEFINE b == Len(moved.refs)
             c == Len(moved.payloads)
  <2>1. b \in Nat /\ c \in Nat /\ 0 + b = c
    BY <1>1, <1>3, Lengths
  <2> HIDE DEF b, c
  <2>2. b = c
    BY <2>1
  <2>3. QED
    BY <2>2 DEF b, c
<1>5. QED
  BY <1>1, <1>2, <1>4 DEF Stands, Halves

LEMMA StepKeepsIssued ==
    ASSUME Inv, [Next]_vars
    PROVE  Issued'
<1> USE DEF Inv
<1>1. ASSUME NEW batch \in issued
      PROVE  Stands(batch)'
  BY <1>1, StandsStays DEF Issued
<1>2. CASE issued' = issued
  BY <1>1, <1>2 DEF Issued
<1>3. ASSUME NEW v \in Writer, Stored(v), Len(job[v].todo) = 1
      PROVE  Issued'
  <2>1. ASSUME NEW j, NEW ref, j = job[v],
               ref = Reference(job[v].pipeline, call[v].key, call[v].bytes)
        PROVE  Issued'
    <3> DEFINE batch == [by |-> j.pipeline, refs |-> Append(j.refs, ref), payloads |-> j.payloads]
    <3>1. Stands(batch)
      <4>1. /\ j \in Job /\ Halves(j) /\ j.todo # << >> /\ ref \in References
            /\ Admitted(j.pipeline, j.payloads)
            /\ \A payload \in Payload : Head(j.todo) = Prepared(j.pipeline, payload)
                  => Holds(j.pipeline, payload, ref)
        BY <1>3, <2>1, StoredHolds
      <4>2. QED
        BY <1>3, <2>1, <4>1, CompletedStands
    <3>2. issued' = issued \cup {batch}
      BY <1>3, <2>1 DEF Stored
    <3> HIDE DEF batch
    <3>3. Stands(batch)'
      BY <3>1, StandsStays
    <3>4. QED
      BY <1>1, <3>2, <3>3 DEF Issued
  <2>2. QED
    BY <2>1
<1>4. issued' = issued \/ \E v \in Writer : Stored(v) /\ Len(job[v].todo) = 1
  BY DEF Next, vars, Encode, BeginStore, StoreStep, Stored, StoreFailed, WriterKilled, ObjectDamaged
<1>5. QED
  BY <1>2, <1>3, <1>4

LEMMA StepKeepsInv ==
    ASSUME Inv, [Next]_vars
    PROVE  Inv'
<1>1. StoreTypeOK' /\ Calls'
  BY StoreStepKeeps, PipelineStepIsStoreStep DEF Inv
<1>2. Confirmed' /\ Jobs' /\ Issued'
  BY StepKeepsConfirmed, StepKeepsJobs, StepKeepsIssued DEF Inv
<1>3. damaged' \subseteq Key
  BY ObjectsMove DEF Inv
<1>4. QED
  BY <1>1, <1>2, <1>3 DEF Inv

LEMMA InitIsSound == Init => Inv
<1> SUFFICES ASSUME Init PROVE Inv
  OBVIOUS
<1>1. /\ disk = [k \in Key |-> Absent] /\ call = [w \in Writer |-> Idle]
      /\ job = [w \in Writer |-> NoJob] /\ issued = {} /\ damaged = {}
  BY DEF Init, StoreInit
<1>2. StoreTypeOK
  BY <1>1 DEF StoreTypeOK, Idle, Pc, Result
<1>3. Calls /\ Confirmed
  BY <1>1 DEF Calls, Confirmed, Idle
<1>4. Jobs
  BY <1>1, NoJobHalves DEF Jobs, Idle
<1>5. QED
  BY <1>1, <1>2, <1>3, <1>4 DEF Inv, Issued

\* The inductive invariant: what a writer has under way is whole before it is
\* linked, an ok stands for an object in the store, a job's references and what
\* it has left are the two parts of its batch, and every reference that was
\* handed out names what was prepared for its payload, or a harmed object
\* (store_prepared and encode_batch, pipeline.rs; create_immutable, storage.rs).
THEOREM PipelineStaysSound == Spec => []Inv
<1>1. Inv /\ [Next]_vars => Inv'
  BY StepKeepsInv
<1>2. QED
  BY InitIsSound, <1>1, PTL DEF Spec

\* What a writer has in the store belongs to its batch, what a caller holds is a
\* whole batch, and the objects its references name stay as they were stored, but
\* for those that were harmed (encode_batch, pipeline.rs; create_immutable,
\* storage.rs).
THEOREM PipelineIsTyped == Spec => []TypeOK
<1>1. Inv => TypeOK
  <2> SUFFICES ASSUME Inv PROVE TypeOK
    OBVIOUS
  <2>1. ASSUME NEW w \in Writer
        PROVE  /\ call[w].pc # "idle" => job[w].todo # << >> /\ call[w].bytes = Head(job[w].todo)
               /\ Len(job[w].todo) + Len(job[w].refs) = Len(job[w].payloads)
    BY DEF Inv, Jobs, Halves
  <2>2. \A batch \in issued : Len(batch.refs) = Len(batch.payloads)
    BY DEF Inv, Issued, Stands
  <2>3. ASSUME NEW batch \in issued, NEW i \in DOMAIN batch.refs, batch.refs[i].key \notin damaged
        PROVE  disk[batch.refs[i].key] = batch.refs[i].sha256
    <3>1. Stands(batch)
      BY DEF Inv, Issued
    <3>2. i \in 1..Len(batch.refs)
      BY <3>1, LenProperties DEF Stands
    <3>3. PICK k \in Key : LET bytes == Prepared(batch.by, batch.payloads[i])
                          IN  batch.refs[i] = Reference(batch.by, k, bytes) /\ Kept(k, bytes)
      BY <3>1, <3>2 DEF Stands, Holds
    <3>4. QED
      BY <2>3, <3>3 DEF Reference, Kept
  <2>4. QED
    BY <2>1, <2>2, <2>3 DEF Inv, TypeOK
<1>2. QED
  BY PipelineStaysSound, <1>1, PTL

\* The file system driver keeps the contract of ObjectStore, whatever the
\* pipelines above it do: every step of its system calls is a step of
\* create_immutable as a whole, or none ("Creates an object or confirms an
\* existing object has identical bytes", storage.rs:141).
THEOREM StoreKeepsContract == Spec => ImplementsObjectStore
<1>1. Init => Contract!Init
  BY StoreInitRefines DEF Init
<1>2. Inv /\ [Next]_vars => [Contract!Next]_(Contract!vars)
  BY PipelineStepIsStoreStep, StoreStepRefines DEF Inv
<1>3. QED
  BY PipelineStaysSound, <1>1, <1>2, PTL DEF Spec, ImplementsObjectStore, Contract!Spec

-----------------------------------------------------------------------------
(* Decoding. *)

\* What a reference that stands for a payload says.
LEMMA ReferenceSays ==
    ASSUME NEW q \in Pipelines, NEW payload \in Payload, NEW ref, Holds(q, payload, ref)
    PROVE  LET bytes == Prepared(q, payload)
           IN  /\ bytes \in Bytes /\ bytes.payload = payload
               /\ bytes.layers \in Seq(Range(bytes.layers)) /\ Size(bytes) > 0
               /\ ref.sha256 = bytes /\ ref.encoded_size = Size(bytes)
               /\ ref.codecs = bytes.layers /\ ref.fingerprint = Fingerprint(q)
               /\ ref.key \in damaged \/ disk[ref.key] = bytes
<1> DEFINE bytes == Prepared(q, payload)
<1>1. bytes.payload = payload
  BY DEF Prepared, Encoded
<1>2. bytes \in Bytes /\ bytes.layers \in Seq(Range(bytes.layers)) /\ Size(bytes) > 0
  BY PipelineAssumption
<1> HIDE DEF bytes
<1>3. PICK k \in Key : ref = Reference(q, k, bytes) /\ Kept(k, bytes)
  BY DEF Holds, bytes
<1>4. /\ ref.key = k /\ ref.sha256 = bytes /\ ref.encoded_size = Size(bytes)
      /\ ref.codecs = bytes.layers /\ ref.fingerprint = Fingerprint(q)
  BY <1>3 DEF Reference
<1>5. QED
  BY <1>1, <1>2, <1>3, <1>4 DEF bytes, Kept

\* One reference is decoded to its payload or not at all.
LEMMA DecodeIsHonest ==
    ASSUME NEW q \in Pipelines, NEW payload \in Payload, NEW ref, Holds(q, payload, ref),
           NEW p \in Pipelines
    PROVE  Decode(p, ref) \in {payload, Absent}
BY ReferenceSays DEF Decode

\* One that a pipeline is configured to read is decoded.
LEMMA DecodeSucceeds ==
    ASSUME NEW q \in Pipelines, NEW payload \in Payload, NEW ref, Holds(q, payload, ref),
           NEW p \in Pipelines, ref.key \notin damaged,
           Fingerprint(q) \in Accepted(p),
           \A j \in DOMAIN ref.codecs : \E k \in DOMAIN p.codecs : Owns(p.codecs[k], ref.codecs[j]),
           Size(Prepared(q, payload)) <= q.batch_bytes, q.batch_bytes <= p.batch_bytes,
           SizeOf[payload] <= q.decoded_payload_bytes,
           q.decoded_payload_bytes <= p.decoded_payload_bytes
    PROVE  Decode(p, ref) = payload
<1> DEFINE bytes == Prepared(q, payload)
           n == Len(bytes.layers)
<1>1. /\ bytes.payload = payload
      /\ bytes.layers \in Seq(Range(bytes.layers)) /\ Size(bytes) > 0
      /\ ref.sha256 = bytes /\ ref.encoded_size = Size(bytes)
      /\ ref.codecs = bytes.layers /\ ref.fingerprint = Fingerprint(q)
      /\ disk[ref.key] = bytes
  BY ReferenceSays
<1> HIDE DEF bytes
<1>2. n \in Nat /\ DOMAIN bytes.layers = 1..n
  BY <1>1, LenProperties
<1>3. /\ SizeOf[payload] \in Nat /\ q.batch_bytes \in Nat /\ p.batch_bytes \in Nat
      /\ q.decoded_payload_bytes \in Nat /\ p.decoded_payload_bytes \in Nat
  BY PipelineAssumption
<1>4. Size(bytes) \in Int
  BY <1>1, <1>2, <1>3 DEF Size
<1>5. Valid(p, ref)
  <2>1. Size(bytes) <= p.batch_bytes /\ Size(bytes) # 0
    <3> DEFINE size == Size(bytes)
    <3>1. size \in Int /\ size > 0 /\ size <= q.batch_bytes
      BY <1>1, <1>4 DEF bytes
    <3> HIDE DEF size
    <3>2. size <= p.batch_bytes /\ size # 0
      BY <1>3, <3>1
    <3>3. QED
      BY <3>2 DEF size
  <2>2. QED
    BY <1>1, <2>1 DEF Valid
<1>6. Reversible(p, ref.codecs, bytes)
  <2>1. n - n = 0
    BY <1>2
  <2>2. ASSUME NEW j \in 1..n
        PROVE  /\ \E i \in DOMAIN p.codecs : Owns(p.codecs[i], ref.codecs[j])
               /\ bytes.layers[0 + j] = ref.codecs[j]
               /\ SizeOf[bytes.payload] - (0 + j - 1) <= p.decoded_payload_bytes
    <3>1. \E i \in DOMAIN p.codecs : Owns(p.codecs[i], ref.codecs[j])
      BY <1>1, <1>2
    <3>2. 0 + j = j /\ j \in Nat /\ j >= 1
      BY <1>2
    <3>3. bytes.layers[0 + j] = ref.codecs[j]
      BY <1>1, <3>2
    <3>4. SizeOf[payload] - (0 + j - 1) <= p.decoded_payload_bytes
      BY <1>3, <3>2
    <3>5. QED
      BY <1>1, <3>1, <3>3, <3>4
  <2>3. QED
    BY <1>1, <2>1, <2>2 DEF Reversible
<1>7. QED
  BY <1>1, <1>5, <1>6 DEF Decode

\* Decoding is exact or it fails, whatever became of the objects; and a pipeline
\* that is configured to read a batch whose objects are unharmed does
\* (decode_batch, pipeline.rs:257 and 62).
THEOREM DecodingIsExact == Spec => []DecodeIsExact
<1>1. Inv => DecodeIsExact
  <2> SUFFICES ASSUME Inv, NEW batch \in issued, NEW p \in Pipelines
               PROVE  LET payloads == DecodeBatch(p, batch.refs)
                      IN  /\ payloads \in {batch.payloads, Absent}
                          /\ (/\ CanRead(p, batch)
                              /\ \A i \in DOMAIN batch.refs : batch.refs[i].key \notin damaged)
                                => payloads = batch.payloads
    BY DEF DecodeIsExact
  <2> DEFINE q == batch.by
             refs == batch.refs
             payloads == batch.payloads
             decoded == [i \in DOMAIN refs |-> Decode(p, refs[i])]
             prepared == PreparedBatch(q, payloads)
  <2>1. /\ refs \in Seq(References) /\ payloads \in Seq(Payload) /\ Len(refs) = Len(payloads)
        /\ q \in Pipelines /\ WithinLimits(q, prepared)
        /\ \A i \in 1..Len(refs) : Holds(q, payloads[i], refs[i])
    BY DEF Inv, Issued, Stands, Admitted
  <2>2. /\ DOMAIN refs = DOMAIN payloads
        /\ \A i \in DOMAIN refs : payloads[i] \in Payload /\ Holds(q, payloads[i], refs[i])
        /\ payloads = [i \in DOMAIN refs |-> payloads[i]]
    BY <2>1
  <2>3. \A i \in DOMAIN refs : Decode(p, refs[i]) \in {payloads[i], Absent}
    BY <2>1, <2>2, DecodeIsHonest
  <2>4. (\A i \in DOMAIN refs : decoded[i] # Absent) => decoded = payloads
    BY <2>2, <2>3
  <2>5. DecodeBatch(p, refs) \in {payloads, Absent}
    BY <2>4 DEF DecodeBatch
  <2>6. ASSUME CanRead(p, batch), \A i \in DOMAIN refs : refs[i].key \notin damaged
        PROVE  DecodeBatch(p, refs) = payloads
    <3>1. /\ Fingerprint(q) \in Accepted(p)
          /\ q.batch_bytes <= p.batch_bytes
          /\ q.decoded_payload_bytes <= p.decoded_payload_bytes
      BY <2>6 DEF CanRead
    <3>2. /\ DOMAIN prepared = DOMAIN refs
          /\ \A i \in DOMAIN refs : /\ prepared[i] = Prepared(q, payloads[i])
                                    /\ prepared[i].payload = payloads[i]
      BY <2>2 DEF PreparedBatch, Prepared, Encoded
    <3>3. ASSUME NEW i \in DOMAIN refs
          PROVE  Decode(p, refs[i]) = payloads[i]
      <4>1. /\ Size(Prepared(q, payloads[i])) <= q.batch_bytes
            /\ SizeOf[payloads[i]] <= q.decoded_payload_bytes
        BY <2>1, <3>2 DEF WithinLimits
      <4>2. \A j \in DOMAIN refs[i].codecs :
               \E k \in DOMAIN p.codecs : Owns(p.codecs[k], refs[i].codecs[j])
        BY <2>6 DEF CanRead
      <4>3. payloads[i] \in Payload /\ Holds(q, payloads[i], refs[i]) /\ refs[i].key \notin damaged
        BY <2>2, <2>6
      <4>4. QED
        BY <2>1, <3>1, <4>1, <4>2, <4>3, DecodeSucceeds
    <3>4. decoded = payloads /\ \A i \in DOMAIN refs : decoded[i] # Absent
      BY <2>2, <3>3, PipelineAssumption
    <3> DEFINE encodedSizes == [i \in DOMAIN refs |-> refs[i].encoded_size]
               sizes == [i \in DOMAIN refs |-> SizeOf[decoded[i]]]
    <3>5. encodedSizes = [i \in DOMAIN prepared |-> Size(prepared[i])]
      <4>1. ASSUME NEW i \in DOMAIN refs
            PROVE  refs[i].encoded_size = Size(prepared[i])
        <5>1. q \in Pipelines /\ payloads[i] \in Payload /\ Holds(q, payloads[i], refs[i])
          BY <2>1, <2>2
        <5>2. refs[i].encoded_size = Size(Prepared(q, payloads[i]))
          BY <5>1, ReferenceSays
        <5>3. QED
          BY <3>2, <5>2
      <4>2. QED
        BY <3>2, <4>1
    <3>6. sizes = [i \in DOMAIN prepared |-> SizeOf[prepared[i].payload]]
      BY <3>2, <3>3
    <3>7. Total(encodedSizes) \in 0..q.batch_bytes /\ Total(sizes) \in 0..q.batch_bytes
      BY <2>1, <3>5, <3>6 DEF WithinLimits
    <3>8. q.batch_bytes \in Nat /\ p.batch_bytes \in Nat
      BY <2>1, PipelineAssumption
    <3> HIDE DEF encodedSizes, sizes
    <3>9. Total(encodedSizes) <= p.batch_bytes /\ Total(sizes) <= p.batch_bytes
      BY <3>1, <3>7, <3>8
    <3>10. QED
      BY <3>4, <3>9 DEF DecodeBatch, encodedSizes, sizes
  <2>7. QED
    BY <2>5, <2>6
<1>2. QED
  BY PipelineStaysSound, <1>1, PTL

-----------------------------------------------------------------------------
(* The loop of decode.  FoldRight recurs over sets of indices and takes off *)
(* the smallest one at a time.                                             *)

\* Induction over the natural numbers, for a property given as a set.
LEMMA NatSetInduction ==
    ASSUME NEW F \in SUBSET Nat, 0 \in F, \A n \in F : n + 1 \in F
    PROVE  F = Nat
<1> DEFINE Less == {p \in Nat \X Nat : p[1] < p[2]}
           Rest == Nat \ F
<1>1. SUFFICES ASSUME Rest # {} PROVE FALSE
  OBVIOUS
<1>2. IsWellFoundedOn(Less, Nat)
  BY NatLessThanWellFounded DEF OpToRel
<1>3. PICK m \in Rest : \A y \in Rest : <<y, m>> \notin Less
  <2> HIDE DEF Less
  <2>1. QED
    BY <1>1, <1>2, WFMin
<1>4. m \in Nat /\ m # 0
  BY <1>3
<1>5. <<m - 1, m>> \in Less
  BY <1>4
<1>6. m - 1 \in F
  BY <1>3, <1>4, <1>5
<1>7. QED
  BY <1>3, <1>4, <1>6

Smallest(s) == CHOOSE x \in s : \A y \in s : x =< y

LEMMA SmallestIs ==
    ASSUME NEW n \in Nat, NEW s \in SUBSET (1..n), NEW x \in s, \A y \in s : x <= y
    PROVE  Smallest(s) = x
<1>1. /\ Smallest(s) \in s
      /\ \A y \in s : Smallest(s) =< y
  BY DEF Smallest
<1> DEFINE z == Smallest(s)
<1> HIDE DEF z
<1>2. z \in s /\ z <= x
  BY <1>1 DEF z
<1>3. x <= z /\ x \in Int /\ z \in Int
  BY <1>2
<1>4. z = x
  BY <1>2, <1>3
<1>5. QED
  BY <1>4 DEF z

\* The recursive function behind the loop, on sets of indices.
IsUnwrapIter(g, p, uses, bytes) ==
    g = [s \in SUBSET DOMAIN uses |->
           IF s = {} THEN bytes ELSE Unwrap(p, uses[Smallest(s)], g[s \ {Smallest(s)}])]

UnwrapIter(p, uses, bytes) == CHOOSE g : IsUnwrapIter(g, p, uses, bytes)

LEMMA ReversedUnfolds ==
    ASSUME NEW p, NEW uses, NEW bytes
    PROVE  Reversed(p, uses, bytes) = UnwrapIter(p, uses, bytes)[DOMAIN uses]
BY DEF Reversed, FoldRight, MapThenFoldSet, Min, UnwrapIter, IsUnwrapIter, Smallest

\* The recursion is well founded: the library's function exists.
LEMMA UnwrapIterExists ==
    ASSUME NEW p, NEW bytes, NEW X, NEW uses \in Seq(X)
    PROVE  IsUnwrapIter(UnwrapIter(p, uses, bytes), p, uses, bytes)
<1> DEFINE n == Len(uses)
           From(k, h) == \A s \in SUBSET ((n - k + 1)..n) :
                            h[s] = IF s = {} THEN bytes
                                   ELSE Unwrap(p, uses[Smallest(s)], h[s \ {Smallest(s)}])
           F == {k \in Nat : k <= n => \E h : From(k, h)}
<1>0. n \in Nat /\ DOMAIN uses = 1..n
  OBVIOUS
<1>1. 0 \in F
  <2> DEFINE h == [s \in {{}} |-> bytes]
  <2>1. (n - 0 + 1)..n = {}
    BY <1>0
  <2>2. From(0, h)
    BY <2>1
  <2>3. QED
    BY <2>2
<1>2. ASSUME NEW k \in F PROVE k + 1 \in F
  <2>1. k \in Nat /\ (k <= n => \E h : From(k, h))
    <3> HIDE DEF From
    <3>1. QED
      BY <1>2
  <2>2. SUFFICES ASSUME k + 1 <= n
                 PROVE  \E g : From(k + 1, g)
    <3> HIDE DEF From
    <3>1. k + 1 \in Nat
      BY <2>1
    <3>2. QED
      BY <3>1
  <2>3. PICK h : From(k, h)
    <3> HIDE DEF From
    <3>1. k <= n
      BY <1>0, <2>1, <2>2
    <3>2. QED
      BY <2>1, <3>1
  <2> DEFINE f == n - k
             g == [s \in SUBSET (f..n) |->
                     IF f \in s THEN Unwrap(p, uses[f], h[s \ {f}]) ELSE h[s]]
  <2>4. /\ f \in 1..n /\ n - (k + 1) + 1 = f /\ n - k + 1 = f + 1
    BY <1>0, <2>1, <2>2
  <2> HIDE DEF f
  <2>5. ASSUME NEW s \in SUBSET (f..n), f \in s
        PROVE  g[s] = Unwrap(p, uses[Smallest(s)], g[s \ {Smallest(s)}])
    <3>1. Smallest(s) = f
      <4>1. s \in SUBSET (1..n) /\ \A y \in s : f <= y
        BY <1>0, <2>4
      <4>2. QED
        BY <1>0, <2>5, <4>1, SmallestIs
    <3>2. s \ {f} \in SUBSET (f..n) /\ f \notin s \ {f}
      OBVIOUS
    <3>3. g[s \ {f}] = h[s \ {f}]
      BY <3>2
    <3>4. g[s] = Unwrap(p, uses[f], h[s \ {f}])
      BY <2>5
    <3>5. QED
      BY <3>1, <3>3, <3>4
  <2>6. ASSUME NEW s \in SUBSET (f..n), f \notin s
        PROVE  g[s] = IF s = {} THEN bytes
                      ELSE Unwrap(p, uses[Smallest(s)], g[s \ {Smallest(s)}])
    <3>1. s \in SUBSET ((n - k + 1)..n)
      <4>1. \A y \in f..n : y # f => y \in (f + 1)..n
        BY <1>0, <2>4
      <4>2. QED
        BY <2>4, <2>6, <4>1
    <3> DEFINE less == s \ {Smallest(s)}
    <3>2. less \in SUBSET (f..n) /\ f \notin less
      BY <2>6
    <3>3. g[s] = h[s] /\ g[less] = h[less]
      BY <2>6, <3>2
    <3>4. h[s] = IF s = {} THEN bytes ELSE Unwrap(p, uses[Smallest(s)], h[less])
      BY <2>3, <3>1
    <3> HIDE DEF g, less
    <3>5. QED
      BY <3>3, <3>4 DEF less
  <2>7. \A s \in SUBSET (f..n) :
           g[s] = IF s = {} THEN bytes
                  ELSE Unwrap(p, uses[Smallest(s)], g[s \ {Smallest(s)}])
    <3> HIDE DEF g
    <3>1. QED
      BY <2>5, <2>6
  <2>8. From(k + 1, g)
    <3> HIDE DEF g
    <3>1. QED
      BY <2>4, <2>7
  <2>9. QED
    <3> HIDE DEF From, g
    <3>1. QED
      BY <2>8
<1>3. F = Nat
  <2> HIDE DEF F
  <2>1. F \in SUBSET Nat
    BY DEF F
  <2>2. QED
    BY <1>1, <1>2, <2>1, NatSetInduction
<1>4. n - n + 1 = 1 /\ n <= n
  BY <1>0
<1>5. PICK h : From(n, h)
  BY <1>0, <1>3, <1>4
<1> DEFINE g == [s \in SUBSET DOMAIN uses |-> h[s]]
<1>6. IsUnwrapIter(g, p, uses, bytes)
  <2>1. \A s \in SUBSET DOMAIN uses : g[s \ {Smallest(s)}] = h[s \ {Smallest(s)}]
    OBVIOUS
  <2>2. \A s \in SUBSET DOMAIN uses :
           g[s] = IF s = {} THEN bytes
                  ELSE Unwrap(p, uses[Smallest(s)], g[s \ {Smallest(s)}])
    BY <1>0, <1>4, <1>5, <2>1
  <2>3. g = [s \in SUBSET DOMAIN uses |->
               IF s = {} THEN bytes
               ELSE Unwrap(p, uses[Smallest(s)], g[s \ {Smallest(s)}])]
    BY <2>2
  <2>4. QED
    BY <2>3 DEF IsUnwrapIter
<1>7. QED
  <2> HIDE DEF g
  <2>1. QED
    BY <1>6 DEF UnwrapIter

\* One more transform reversed.
LEMMA UnwrapIterAt ==
    ASSUME NEW p, NEW bytes, NEW X, NEW uses \in Seq(X), NEW i \in 1..(Len(uses) + 1)
    PROVE  UnwrapIter(p, uses, bytes)[i..Len(uses)] =
              IF i = Len(uses) + 1 THEN bytes
              ELSE Unwrap(p, uses[i], UnwrapIter(p, uses, bytes)[(i + 1)..Len(uses)])
<1> DEFINE g == UnwrapIter(p, uses, bytes)
           n == Len(uses)
           s == i..n
<1>0. n \in Nat /\ DOMAIN uses = 1..n /\ IsUnwrapIter(g, p, uses, bytes)
  BY UnwrapIterExists
<1> HIDE DEF g
<1>1. \A r \in SUBSET DOMAIN uses :
         g[r] = IF r = {} THEN bytes ELSE Unwrap(p, uses[Smallest(r)], g[r \ {Smallest(r)}])
  <2> DEFINE h == [r \in SUBSET DOMAIN uses |->
                     IF r = {} THEN bytes
                     ELSE Unwrap(p, uses[Smallest(r)], g[r \ {Smallest(r)}])]
  <2>1. g = h
    BY <1>0 DEF IsUnwrapIter
  <2>2. \A r \in SUBSET DOMAIN uses : h[r] =
           IF r = {} THEN bytes ELSE Unwrap(p, uses[Smallest(r)], g[r \ {Smallest(r)}])
    OBVIOUS
  <2> HIDE DEF h
  <2>3. QED
    BY <2>1, <2>2
<1>2. s \in SUBSET (1..n)
  BY <1>0
<1>3. CASE i = n + 1
  <2>1. s = {}
    BY <1>0, <1>3
  <2>2. g[s] = bytes
    BY <1>0, <1>1, <1>2, <2>1
  <2>3. QED
    BY <1>3, <2>2 DEF g
<1>4. CASE i # n + 1
  <2>1. i \in s /\ i \in Nat /\ \A y \in s : i <= y
    BY <1>0, <1>4
  <2>2. s \ {i} = (i + 1)..n
    BY <1>0, <2>1
  <2>3. s # {}
    BY <2>1
  <2> HIDE DEF s
  <2>4. Smallest(s) = i
    BY <1>0, <1>2, <2>1, SmallestIs
  <2>5. g[s] = Unwrap(p, uses[i], g[s \ {i}])
    BY <1>0, <1>1, <1>2, <2>3, <2>4
  <2>6. QED
    BY <1>4, <2>2, <2>5 DEF g, s
<1>5. QED
  BY <1>3, <1>4

\* What the loop needs of the transforms from the i-th on: kept are the ones that
\* stay, m the ones the object has.
Undone(p, uses, payload, layers, i) ==
    LET kept == Len(layers) - Len(uses)
    IN  /\ i <= Len(uses) => kept + i > 0
        /\ \A j \in i..Len(uses) :
              /\ \E k \in DOMAIN p.codecs : Owns(p.codecs[k], uses[j])
              /\ layers[kept + j] = uses[j]
              /\ SizeOf[payload] - (kept + j - 1) <= p.decoded_payload_bytes

\* Reversing one transform of an object that has layers.
LEMMA UnwrapIs ==
    ASSUME NEW p \in Pipelines, NEW payload \in Payload, NEW X, NEW layers \in Seq(X), NEW use,
           Encoded(payload, layers) # Absent
    PROVE  LET m == Len(layers) IN
           Unwrap(p, use, Encoded(payload, layers)) =
              IF /\ m > 0
                 /\ \E k \in DOMAIN p.codecs : Owns(p.codecs[k], use)
                 /\ layers[m] = use
                 /\ SizeOf[payload] - (m - 1) <= p.decoded_payload_bytes
              THEN Encoded(payload, SubSeq(layers, 1, m - 1)) ELSE Absent
<1> DEFINE m == Len(layers)
           bytes == Encoded(payload, layers)
           limit == p.decoded_payload_bytes
           size == SizeOf[payload]
<1>1. bytes.payload = payload /\ bytes.layers = layers
  BY DEF Encoded
<1>2. m \in Nat /\ size \in Nat /\ limit \in Nat
  BY PipelineAssumption
<1>3. Last(layers) = layers[m] /\ Front(layers) = SubSeq(layers, 1, m - 1)
  BY DEF Last, Front
<1>4. layers # << >> <=> m > 0
  OBVIOUS
<1>5. Size(bytes) + 1 <= limit <=> size - (m - 1) <= limit
  <2>1. Size(bytes) = size - m
    BY <1>1 DEF Size
  <2> HIDE DEF m, size, limit
  <2>2. QED
    BY <1>2, <2>1
<1>6. [bytes EXCEPT !.layers = Front(@)] = Encoded(payload, Front(layers))
  BY DEF Encoded
<1>7. QED
  <2> HIDE DEF bytes, limit, size
  <2>1. bytes # Absent
    BY DEF bytes
  <2>2. Unwrap(p, use, bytes) =
           IF /\ \E k \in DOMAIN p.codecs : Owns(p.codecs[k], use)
              /\ layers # << >> /\ Last(layers) = use /\ Size(bytes) + 1 <= limit
           THEN Encoded(payload, Front(layers)) ELSE Absent
    BY <1>1, <1>6, <2>1 DEF Unwrap, limit
  <2>3. QED
    BY <1>3, <1>4, <1>5, <2>2 DEF bytes, limit, size

\* Reversing the i-th transform after the later ones.
LEMMA UndoneBefore ==
    ASSUME NEW p \in Pipelines, NEW payload \in Payload, NEW X, NEW layers \in Seq(X),
           NEW Y, NEW uses \in Seq(Y), NEW i \in 1..Len(uses),
           \A n \in 0..Len(layers) : Encoded(payload, SubSeq(layers, 1, n)) # Absent,
           NEW acc,
           acc = IF Undone(p, uses, payload, layers, i + 1)
                 THEN Encoded(payload, SubSeq(layers, 1, Len(layers) - Len(uses) + i)) ELSE Absent
    PROVE  Unwrap(p, uses[i], acc) =
              IF Undone(p, uses, payload, layers, i)
              THEN Encoded(payload, SubSeq(layers, 1, Len(layers) - Len(uses) + i - 1)) ELSE Absent
<1> DEFINE m == Len(layers)
           n == Len(uses)
           kept == m - n
           size == SizeOf[payload]
           limit == p.decoded_payload_bytes
           Sound(j) == /\ \E k \in DOMAIN p.codecs : Owns(p.codecs[k], uses[j])
                       /\ layers[kept + j] = uses[j]
                       /\ size - (kept + j - 1) <= limit
<1>1. m \in Nat /\ n \in Nat /\ kept \in Int /\ kept + n = m /\ i \in 1..n
  OBVIOUS
<1>2. Undone(p, uses, payload, layers, i + 1) <=>
         (i + 1 <= n => kept + (i + 1) > 0) /\ \A j \in (i + 1)..n : Sound(j)
  BY DEF Undone
<1>3. Undone(p, uses, payload, layers, i) <=>
         (i <= n => kept + i > 0) /\ \A j \in i..n : Sound(j)
  BY DEF Undone
<1>4. Undone(p, uses, payload, layers, i) <=>
         /\ Undone(p, uses, payload, layers, i + 1)
         /\ kept + i > 0 /\ Sound(i)
  <2> HIDE DEF Sound, m, n, kept
  <2>1. \A j \in i..n : j = i \/ j \in (i + 1)..n
    BY <1>1
  <2>2. i \in i..n /\ \A j \in (i + 1)..n : j \in i..n
    BY <1>1
  <2>3. kept + i > 0 => kept + (i + 1) > 0
    BY <1>1
  <2>4. (\A j \in i..n : Sound(j)) <=> (Sound(i) /\ \A j \in (i + 1)..n : Sound(j))
    BY <2>1, <2>2
  <2>5. i <= n
    BY <1>1
  <2>6. QED
    BY <1>2, <1>3, <2>3, <2>4, <2>5
<1>5. CASE ~Undone(p, uses, payload, layers, i + 1)
  <2>1. acc = Absent
    BY <1>5
  <2>2. Unwrap(p, uses[i], acc) = Absent
    BY <2>1 DEF Unwrap
  <2>3. QED
    BY <1>4, <1>5, <2>2
<1>6. CASE Undone(p, uses, payload, layers, i + 1)
  <2> DEFINE q == kept + i
             rest == SubSeq(layers, 1, q)
  <2>1. q \in 0..m
    <3>1. i + 1 <= n => kept + (i + 1) > 0
      BY <1>2, <1>6
    <3> HIDE DEF m, n, kept
    <3>2. QED
      BY <1>1, <3>1
  <2>2. acc = Encoded(payload, rest) /\ acc # Absent
    BY <1>6, <2>1
  <2> HIDE DEF q
  <2>3. /\ rest \in Seq(X) /\ Len(rest) = q
        /\ q > 0 => rest[q] = layers[q]
        /\ q > 0 => SubSeq(rest, 1, q - 1) = SubSeq(layers, 1, q - 1)
    BY <2>1
  <2> HIDE DEF rest
  <2>4. Unwrap(p, uses[i], acc) =
           IF /\ q > 0
              /\ \E k \in DOMAIN p.codecs : Owns(p.codecs[k], uses[i])
              /\ rest[q] = uses[i]
              /\ size - (q - 1) <= limit
           THEN Encoded(payload, SubSeq(rest, 1, q - 1)) ELSE Absent
    BY <2>2, <2>3, UnwrapIs
  <2> DEFINE owned == \E k \in DOMAIN p.codecs : Owns(p.codecs[k], uses[i])
             small == size - (q - 1) <= limit
  <2>5. Sound(i) <=> owned /\ layers[q] = uses[i] /\ small
    BY DEF q
  <2> HIDE DEF owned, small, Sound
  <2>6. Unwrap(p, uses[i], acc) =
           IF q > 0 /\ Sound(i)
           THEN Encoded(payload, SubSeq(layers, 1, q - 1)) ELSE Absent
    BY <2>3, <2>4, <2>5 DEF owned, small
  <2>7. QED
    BY <1>4, <1>6, <2>6 DEF q
<1>7. QED
  BY <1>5, <1>6

\* The loop of decode over the recorded transforms, the last one first
\* (pipeline.rs:257): for any number of transforms of an object it gives back the
\* payload below them exactly when they are its outermost ones, each is owned by a codec of
\* the chain and nothing on the way is over the limit.  Decode states the rule;
\* the code computes the loop.
THEOREM LoopComputesDecode ==
    \A p \in Pipelines, bytes \in Bytes : \A Y : \A uses \in Seq(Y) : LoopAgrees(p, uses, bytes)
<1> SUFFICES ASSUME NEW p \in Pipelines, NEW bytes \in Bytes, NEW Y, NEW uses \in Seq(Y)
             PROVE  LoopAgrees(p, uses, bytes)
  OBVIOUS
<1> DEFINE payload == bytes.payload
           layers == bytes.layers
           X == Range(layers)
           m == Len(layers)
           n == Len(uses)
           g == UnwrapIter(p, uses, bytes)
           At(i) == g[i..n] = IF Undone(p, uses, payload, layers, i)
                              THEN Encoded(payload, SubSeq(layers, 1, m - n + i - 1))
                              ELSE Absent
           F == {k \in Nat : k <= n => At(n + 1 - k)}
<1>1. /\ payload \in Payload /\ layers \in Seq(X) /\ bytes = Encoded(payload, layers)
      /\ \A q \in 0..m : Encoded(payload, SubSeq(layers, 1, q)) # Absent
  BY PipelineAssumption
<1>2. m \in Nat /\ n \in Nat /\ DOMAIN uses = 1..n
  BY <1>1
<1>3. ASSUME NEW i \in 1..(n + 1)
      PROVE  g[i..n] = IF i = n + 1 THEN bytes ELSE Unwrap(p, uses[i], g[(i + 1)..n])
  BY <1>3, UnwrapIterAt
<1> HIDE DEF g, payload, layers, X
<1>4. 0 \in F
  <2>1. n + 1 - 0 = n + 1 /\ n + 1 \in 1..(n + 1)
    BY <1>2
  <2>2. g[(n + 1)..n] = bytes
    BY <1>3, <2>1
  <2>3. Undone(p, uses, payload, layers, n + 1)
    <3>1. ~(n + 1 <= n) /\ (n + 1)..n = {}
      BY <1>2
    <3>2. QED
      BY <3>1 DEF Undone
  <2>4. SubSeq(layers, 1, m) = layers /\ m - n + (n + 1) - 1 = m
    BY <1>1, <1>2
  <2>5. At(n + 1)
    BY <1>1, <2>2, <2>3, <2>4
  <2> HIDE DEF At
  <2>6. QED
    BY <2>1, <2>5
<1>5. ASSUME NEW k \in F PROVE k + 1 \in F
  <2>1. k \in Nat /\ (k <= n => At(n + 1 - k))
    <3> HIDE DEF At
    <3>1. QED
      BY <1>5
  <2>2. SUFFICES ASSUME k + 1 <= n
                 PROVE  At(n + 1 - (k + 1))
    <3> HIDE DEF At
    <3>1. QED
      BY <2>1
  <2> DEFINE i == n - k
  <2>3. /\ i \in 1..n /\ i \in 1..(n + 1) /\ i # n + 1
        /\ n + 1 - k = i + 1 /\ n + 1 - (k + 1) = i /\ k <= n
    <3> HIDE DEF m, n, At, F
    <3>1. QED
      BY <1>2, <2>1, <2>2
  <2> HIDE DEF i
  <2>4. At(i + 1)
    <3> HIDE DEF At
    <3>1. QED
      BY <2>1, <2>3
  <2>5. m - n + (i + 1) - 1 = m - n + i
    BY <1>2, <2>3
  <2>6. g[(i + 1)..n] = IF Undone(p, uses, payload, layers, i + 1)
                        THEN Encoded(payload, SubSeq(layers, 1, m - n + i)) ELSE Absent
    BY <2>4, <2>5
  <2>7. Unwrap(p, uses[i], g[(i + 1)..n]) =
           IF Undone(p, uses, payload, layers, i)
           THEN Encoded(payload, SubSeq(layers, 1, m - n + i - 1)) ELSE Absent
    BY <1>1, <2>3, <2>6, UndoneBefore
  <2>8. At(i)
    BY <1>3, <2>3, <2>7
  <2>9. QED
    <3> HIDE DEF At
    <3>1. QED
      BY <2>3, <2>8
<1>6. F = Nat
  <2> HIDE DEF F
  <2>1. F \in SUBSET Nat
    BY DEF F
  <2>2. QED
    BY <1>4, <1>5, <2>1, NatSetInduction
<1>7. At(1)
  <2>1. n \in F /\ n <= n /\ n + 1 - n = 1
    BY <1>2, <1>6
  <2> HIDE DEF At
  <2>2. QED
    BY <2>1
<1>8. Reversed(p, uses, bytes) = g[1..n]
  BY <1>2, ReversedUnfolds DEF g
<1>9. Undone(p, uses, payload, layers, 1) <=> Reversible(p, uses, bytes)
  <2>1. (1 <= n => m - n + 1 > 0) <=> m - n >= 0
    <3> HIDE DEF m, n
    <3>1. QED
      BY <1>2
  <2>2. QED
    BY <2>1 DEF Undone, Reversible, payload, layers
<1>10. /\ m - n + 1 - 1 = m - n
       /\ [bytes EXCEPT !.layers = SubSeq(@, 1, Len(@) - Len(uses))]
             = Encoded(payload, SubSeq(layers, 1, m - n))
  <2>1. m - n + 1 - 1 = m - n
    <3> HIDE DEF m, n
    <3>1. QED
      BY <1>2
  <2>2. bytes.layers = layers
    BY DEF layers
  <2> DEFINE rest == SubSeq(layers, 1, m - n)
  <2>3. SubSeq(bytes.layers, 1, Len(bytes.layers) - Len(uses)) = rest
    BY <2>2
  <2> HIDE DEF rest
  <2>4. [bytes EXCEPT !.layers = rest] = Encoded(payload, rest)
    BY <1>1 DEF Encoded
  <2>5. QED
    BY <2>1, <2>3, <2>4 DEF rest
<1>11. QED
  BY <1>7, <1>8, <1>9, <1>10 DEF LoopAgrees
=============================================================================
