------------------------------ MODULE FileStore ------------------------------
(***************************************************************************)
(* FilesystemStorage (crates/temporal/src/storage.rs:199): create_immutable *)
(* as the system calls it makes, by several processes on a shared medium.  *)
(* A call writes a temporary file under a random name, syncs it, links it  *)
(* to the object's path, which fails if the path exists, and removes the   *)
(* temporary name; every call may fail and every process may be killed     *)
(* between two of them.  The operator, or a power loss before the          *)
(* directory reached the disk, may remove an object or put another one in  *)
(* its place, and the medium may damage one.                               *)
(***************************************************************************)
EXTENDS Naturals, Sequences

CONSTANTS
    Key,       \* object keys, one for each random object id
    Bytes,     \* the contents a writer may store
    Writer,    \* the processes that write
    Absent,    \* no file
    Garbage    \* a content that no writer stored

ASSUME StoreAssumption == {Absent, Garbage} \cap Bytes = {}

VARIABLES
    disk,     \* the content of each object's path
    call      \* the create_immutable call of each writer

storeVars == <<disk, call>>

Pc == {"idle", "create", "write", "sync", "link", "compare", "cleanup", "done"}

Result == {"none", "ok", "conflict", "missing", "io"}

\* temp is the content of the temporary file: Garbage while it is not whole.
Idle == [pc |-> "idle", key |-> Absent, bytes |-> Absent, temp |-> Absent, result |-> "none"]

StoreInit ==
    /\ disk = [k \in Key |-> Absent]
    /\ call = [w \in Writer |-> Idle]

Goto(w, pc) == call' = [call EXCEPT ![w].pc = pc]

Give(w, result) == call' = [call EXCEPT ![w].pc = "cleanup", ![w].result = result]

Begin(w, key, bytes) ==
    /\ call[w].pc = "idle"
    /\ call' = [call EXCEPT ![w] = [Idle EXCEPT !.pc = "create", !.key = key, !.bytes = bytes]]
    /\ UNCHANGED disk

CreateTemporary(w) ==
    /\ call[w].pc = "create"
    /\ call' = [call EXCEPT ![w].pc = "write", ![w].temp = Garbage]
    /\ UNCHANGED disk

WriteAll(w) ==
    /\ call[w].pc = "write"
    /\ call' = [call EXCEPT ![w].pc = "sync", ![w].temp = call[w].bytes]
    /\ UNCHANGED disk

SyncAll(w) ==
    /\ call[w].pc = "sync"
    /\ Goto(w, "link")
    /\ UNCHANGED disk

\* Faulty variant: a rename, which replaces what is there.
LinkByRename(w) ==
    /\ call[w].pc = "link"
    /\ disk' = [disk EXCEPT ![call[w].key] = call[w].temp]
    /\ Give(w, "ok")

HardLink(w) ==
    /\ call[w].pc = "link"
    /\ IF disk[call[w].key] = Absent
       THEN /\ disk' = [disk EXCEPT ![call[w].key] = call[w].temp]
            /\ Give(w, "ok")
       ELSE /\ Goto(w, "compare")
            /\ UNCHANGED disk

CompareExisting(w) ==
    /\ call[w].pc = "compare"
    /\ LET existing == disk[call[w].key]
       IN  Give(w, IF existing = call[w].bytes THEN "ok"
                   ELSE IF existing = Absent THEN "missing" ELSE "conflict")
    /\ UNCHANGED disk

\* Any system call before the cleanup fails; what was written stays written.
IoError(w) ==
    /\ call[w].pc \in {"create", "write", "sync", "link", "compare"}
    /\ Give(w, "io")
    /\ UNCHANGED disk

\* The first error is the one that is returned; a cleanup that fails is one.
Cleanup(w) ==
    /\ call[w].pc = "cleanup"
    /\ \E removed \in BOOLEAN :
          call' = [call EXCEPT
              ![w].pc = "done",
              ![w].temp = IF removed THEN Absent ELSE @,
              ![w].result = IF removed \/ call[w].temp = Absent \/ @ # "ok" THEN @ ELSE "io"]
    /\ UNCHANGED disk

Killed(w) ==
    /\ call[w].pc \notin {"idle", "done"}
    /\ call' = [call EXCEPT ![w].pc = "done", ![w].result = "io"]
    /\ UNCHANGED disk

\* The call returns, and its process goes on.
Release(w) ==
    /\ call[w].pc \in {"idle", "done"}
    /\ call' = [call EXCEPT ![w] = Idle]

Damage ==
    /\ \E k \in Key, content \in {Absent, Garbage} \cup {disk[other] : other \in Key} :
          disk[k] \notin {Absent, content} /\ disk' = [disk EXCEPT ![k] = content]
    /\ UNCHANGED call

Progress(w) ==
    \/ CreateTemporary(w) \/ WriteAll(w) \/ SyncAll(w) \/ HardLink(w) \/ CompareExisting(w)
    \/ IoError(w) \/ Cleanup(w)

StoreNext ==
    \/ \E w \in Writer :
          \/ \E key \in Key, bytes \in Bytes : Begin(w, key, bytes)
          \/ Progress(w) \/ Killed(w) \/ (Release(w) /\ UNCHANGED disk)
    \/ Damage

StoreSpec == StoreInit /\ [][StoreNext]_storeVars

StoreTypeOK ==
    /\ disk \in [Key -> Bytes \cup {Absent, Garbage}]
    /\ call \in [Writer -> [pc : Pc, key : Key \cup {Absent}, bytes : Bytes \cup {Absent},
                            temp : Bytes \cup {Absent, Garbage}, result : Result]]

-----------------------------------------------------------------------------
(* The driver keeps the contract of ObjectStore: what takes effect is the  *)
(* link, or the comparison that finds the same bytes.                      *)

OutcomeOf(c) ==
    CASE c.pc = "idle" -> "none"
      [] c.pc \in {"create", "write", "sync", "link", "compare"} -> "open"
      [] c.pc = "cleanup" /\ c.result = "ok" -> "taken"
      [] c.pc = "done" /\ c.result = "ok" -> "ok"
      [] c.pc \in {"cleanup", "done"} /\ c.result = "conflict" -> "conflict"
      [] OTHER -> "failed"

Contract == INSTANCE ObjectStore WITH
    objects <- disk,
    call <- [w \in Writer |-> [key |-> call[w].key, bytes |-> call[w].bytes,
                               outcome |-> OutcomeOf(call[w])]]

\* However the system calls of several writers interleave, fail or are cut off,
\* create_immutable is one step: a whole object, or none, and never another one
\* ("Creates an object or confirms an existing object has identical bytes",
\* storage.rs:141).
ImplementsObjectStore == Contract!Spec
=============================================================================
