------------------------------ MODULE FileStore ------------------------------
(***************************************************************************)
(* The files of an auth state (utils/use_multi_file_auth_state.py).  A     *)
(* write waits for the lock of its file, then a thread empties the file    *)
(* and writes it.  A task that is cancelled leaves the lock and its        *)
(* thread, which goes on beside the next writer; a crash leaves the files  *)
(* as they are.  The module has the steps of the files alone: who writes   *)
(* what is for the module that extends it.                                 *)
(***************************************************************************)
EXTENDS Naturals, Sequences

CONSTANTS
    Files,
    Absent,         \* no file
    Torn            \* emptied, or mixed up by two writers: json.loads raises

ASSUME ContentsAssumption == Absent # Torn

VARIABLES
    files,          \* what each file holds
    lines,          \* the writes that have or wait for the lock of a file
    strays,         \* what threads write whose task is gone
    damaged         \* history: files that a crash, a full disk or two threads spoilt

fileVars == <<files, lines, strays, damaged>>

InitFiles(contents) ==
    /\ files = contents
    /\ lines = [f \in Files |-> <<>>]
    /\ strays = [f \in Files |-> {}]
    /\ damaged = {}

(* write_data of a task, up to the lock. *)
Job(task, value) == [task |-> task, value |-> value, open |-> FALSE, mixed |-> FALSE]
Queued(f, task, value) == [lines EXCEPT ![f] = Append(@, Job(task, value))]
Settled(task) == \A f \in Files : \A n \in DOMAIN lines[f] : lines[f][n].task # task

(* Mutant: a reader does not wait for the lock. *)
ReadableAnytime(f) == TRUE

(* read_data gets its turn when the lock is free. *)
Readable(f) == lines[f] = <<>>

Straying(f) == strays[f] # {}

(* write_text opens the file, which empties it ... *)
OpenFile(f) ==
    /\ lines[f] # <<>> /\ ~Head(lines[f]).open
    /\ lines' = [lines EXCEPT ![f][1].open = TRUE]
    /\ files' = [files EXCEPT ![f] = Torn]
    /\ UNCHANGED <<strays, damaged>>

(* ... and writes it, next to or over what a stray thread writes. *)
WriteFile(f) ==
    /\ lines[f] # <<>> /\ Head(lines[f]).open
    /\ lines' = [lines EXCEPT ![f] = Tail(@)]
    /\ \/ /\ files' = [files EXCEPT ![f] = Head(lines[f]).value]
          /\ damaged' = IF Straying(f) THEN damaged ELSE damaged \ {f}
       \/ /\ Straying(f) \/ Head(lines[f]).mixed
          /\ files' = [files EXCEPT ![f] = Torn]
          /\ damaged' = damaged \cup {f}
    /\ UNCHANGED strays

(* The write raises, with the file emptied. *)
FailFile(f) ==
    /\ lines[f] # <<>> /\ Head(lines[f]).open
    /\ lines' = [lines EXCEPT ![f] = Tail(@)]
    /\ damaged' = damaged \cup {f}
    /\ UNCHANGED <<files, strays>>

(* The thread of a cancelled task ends: what it wrote stands alone, or is  *)
(* mixed with what another wrote since.                                    *)
StrayWrites(f) ==
    /\ \E x \in strays[f] :
         /\ strays' = [strays EXCEPT ![f] = @ \ {x}]
         /\ \/ /\ files' = [files EXCEPT ![f] = x]
               /\ damaged' = damaged \ {f}
            \/ /\ files[f] # Torn \/ ~Readable(f) \/ f \in damaged
               /\ files' = [files EXCEPT ![f] = Torn]
               /\ damaged' = damaged \cup {f}
    /\ lines' = IF lines[f] # <<>> /\ Head(lines[f]).open
                 THEN [lines EXCEPT ![f][1].mixed = TRUE] ELSE lines

(* The writes of the other tasks. *)
Without(line, task) ==
    LET rest[n \in 0 .. Len(line)] ==
          IF n = 0 THEN <<>>
          ELSE IF line[n].task = task THEN rest[n - 1] ELSE Append(rest[n - 1], line[n])
    IN  rest[Len(line)]

(* A task is cancelled: it leaves the lines, its running threads remain. *)
Abandon(task) ==
    /\ lines' = [f \in Files |-> Without(lines[f], task)]
    /\ strays' = [f \in Files |->
         IF lines[f] # <<>> /\ Head(lines[f]).open /\ Head(lines[f]).task = task
         THEN strays[f] \cup {Head(lines[f]).value} ELSE strays[f]]
    /\ UNCHANGED <<files, damaged>>

(* The process ends. *)
CrashFiles ==
    /\ lines' = [f \in Files |-> <<>>]
    /\ strays' = [f \in Files |-> {}]
    /\ damaged' = damaged \cup {f \in Files : files[f] = Torn}
    /\ UNCHANGED files

(* A reader that has the lock finds a file that can be read, unless a      *)
(* crash, a failed write or a cancelled task's thread spoilt it            *)
(* (use_multi_file_auth_state.py 63-76).                                   *)
ReadersFindData ==
    \A f \in Files :
        Readable(f) /\ files[f] = Torn => f \in damaged \/ Straying(f)
=============================================================================
