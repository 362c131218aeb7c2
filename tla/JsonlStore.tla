------------------------------ MODULE JsonlStore ------------------------------
(***************************************************************************)
(* data/stores.py, JsonlStore: the keyed store behind every journal.       *)
(*                                                                         *)
(* A store is a file of JSON lines and, in the process that uses it, an    *)
(* insertion-ordered dict read from the file the first time it is needed.  *)
(* Setting a key changes the dict, then appends a line; deleting a key     *)
(* changes the dict, writes it whole to a second file and renames that     *)
(* over the first.  A write can stop half way, because the disk is full    *)
(* (it raises, the process goes on) or because the process is killed; what *)
(* was written is then with the operating system.                          *)
(*                                                                         *)
(* Nothing is ever synced.  `disk' is what the file may hold when the      *)
(* machine loses power: any of its contents since the system last wrote it *)
(* back, and after a rename the new file with only a beginning of its      *)
(* lines.  A file's lines reach the disk in their order.                   *)
(*                                                                         *)
(* One process uses the store.  A line is an entry; what is left of a line *)
(* that was cut is kept apart, in `tail'.                                  *)
(***************************************************************************)
EXTENDS Naturals, Sequences, FiniteSets

CONSTANTS
  Keys,      \* the keys
  Values,    \* the values, opaque to the store
  Env,       \* which mishaps this instance allows
  MaxLines,     \* bound: lines of the file
  MaxUnsynced   \* bound: contents that a loss of power may leave

Mishaps == {"cut_write", "lost_newline", "disk_full", "crash", "power"}

ASSUME StoreAssumption == Env \subseteq Mishaps /\ MaxLines \in Nat /\ MaxUnsynced \in Nat

VARIABLES
  file,      \* the complete lines of the file
  tail,      \* what follows them: nothing, an entry without its newline, or junk
  tmp,       \* the complete lines of the .tmp file of a rewrite going on
  cache,     \* _cache: {} for None, {d} for the ordered dict d
  pc,        \* "idle", or "flush" while _flush writes
  disk,      \* external: the contents of the file a loss of power may leave
  acked,     \* history: acked[k], the entries of k that the caller may rely on
  unsure,    \* history: entries whose write or delete raised or was interrupted
  diverged,  \* history: a write raised since the dict was loaded or rewritten
  volatile   \* history: the keys whose last write is not known to be on disk

vars == <<file, tail, tmp, cache, pc, disk, acked, unsure, diverged, volatile>>
storage == <<disk, volatile>>

Entry == [key : Keys, value : Values]

-------------------------------------------------------------------------------
(* Ordered dicts, as sequences of entries with distinct keys.              *)

KeysOf(d) == {d[i].key : i \in DOMAIN d}

EntriesOf(d, k) == {d[i] : i \in {j \in DOMAIN d : d[j].key = k}}

\* del d[k], for a key of d: what comes after it moves up.
Without(d, k) ==
  LET at == CHOOSE i \in DOMAIN d : d[i].key = k
  IN  [i \in 1 .. Len(d) - 1 |-> IF i < at THEN d[i] ELSE d[i + 1]]

\* Mutant: a key set again is held twice.
PutTwice(d, e) == Append(d, e)

\* Mutant: setting a known key moves it to the end.
PutLast(d, e) ==
  Append(IF e.key \in KeysOf(d) THEN Without(d, e.key) ELSE d, e)

\* d[k] = v: a known key keeps its place.
Put(d, e) ==
  IF e.key \in KeysOf(d)
    THEN [i \in DOMAIN d |-> IF d[i].key = e.key THEN e ELSE d[i]]
    ELSE Append(d, e)

\* What _load makes of a sequence of lines.
Replay(lines) ==
  LET upto[i \in 0 .. Len(lines)] ==
        IF i = 0 THEN <<>> ELSE
          IF lines[i].key \in KeysOf(upto[i - 1])
            THEN [j \in DOMAIN upto[i - 1] |->
                    IF upto[i - 1][j].key = lines[i].key THEN lines[i]
                                                         ELSE upto[i - 1][j]]
            ELSE Append(upto[i - 1], lines[i])
  IN  upto[Len(lines)]

-------------------------------------------------------------------------------
\* json.loads raises on a cut line: every operation that has to load raises.
Readable == tail.kind # "junk"

\* The lines there are to read, one without its newline included.
Lines(f, t) == IF t.kind = "entry" THEN Append(f, t.entry) ELSE f

OnDisk == Replay(Lines(file, tail))

\* _load: the dict in memory if there is one, else the file.
Loadable == cache # {} \/ Readable
Dict == IF cache = {} THEN OnDisk ELSE CHOOSE d \in cache : TRUE

Load ==
  /\ pc = "idle" /\ cache = {} /\ Readable
  /\ cache' = {OnDisk} /\ diverged' = FALSE
  /\ UNCHANGED <<file, tail, tmp, pc, acked, unsure, storage>>

NoTail == [kind |-> "none"]
Junk == [kind |-> "junk"]

\* A line appended to an unfinished one makes junk of both.
AppendLine(e) ==
  IF tail.kind = "none" THEN file' = Append(file, e) /\ tail' = NoTail
                        ELSE file' = file /\ tail' = Junk

\* The line appended stops short: nothing of it is there, a part of it, or all
\* but the newline.
AppendPart(e) ==
  \/ UNCHANGED <<file, tail>>
  \/ "cut_write" \in Env /\ UNCHANGED file /\ tail' = Junk
  \/ /\ "lost_newline" \in Env
     /\ UNCHANGED file
     /\ tail' = IF tail.kind = "none" THEN [kind |-> "entry", entry |-> e] ELSE Junk

Content == [lines |-> file, tail |-> tail]

\* New contents are on their way to the disk; followed only where power may be lost.
Unsynced(contents) ==
  /\ Cardinality(disk) <= MaxUnsynced
  /\ disk' = IF "power" \in Env THEN disk \cup contents ELSE disk

\* __setitem__ returns.
Set(e) ==
  /\ pc = "idle" /\ Loadable /\ Len(file) < MaxLines
  /\ cache' = {Put(Dict, e)}
  /\ AppendLine(e)
  /\ acked' = [acked EXCEPT ![e.key] = {e}]
  /\ unsure' = {u \in unsure : u.key # e.key}
  /\ Unsynced({Content'}) /\ volatile' = volatile \cup {e.key}
  /\ UNCHANGED <<tmp, pc, diverged>>

\* __setitem__ raises: the dict has the entry, the file has what was written.
SetRaises(e) ==
  /\ "disk_full" \in Env
  /\ pc = "idle" /\ Loadable
  /\ cache' = {Put(Dict, e)}
  /\ AppendPart(e) /\ Unsynced({Content'})
  /\ unsure' = unsure \cup {e} /\ diverged' = TRUE
  /\ UNCHANGED <<tmp, pc, acked, volatile>>

\* The process is killed in __setitem__.
SetInterrupted(e) ==
  /\ "crash" \in Env
  /\ pc = "idle" /\ Loadable
  /\ cache' = {}
  /\ AppendPart(e) /\ Unsynced({Content'})
  /\ unsure' = unsure \cup {e} /\ diverged' = FALSE
  /\ UNCHANGED <<tmp, pc, acked, volatile>>

\* Mutant: the rewrite opens the file itself, which empties it.
StartDeleteInPlace(k) ==
  /\ pc = "idle" /\ Loadable /\ k \in KeysOf(Dict)
  /\ cache' = {Without(Dict, k)}
  /\ pc' = "flush" /\ tmp' = <<>>
  /\ unsure' = unsure \cup acked[k]
  /\ acked' = [acked EXCEPT ![k] = {}]
  /\ file' = <<>> /\ tail' = NoTail
  /\ Unsynced({Content'})
  /\ UNCHANGED <<diverged, volatile>>

\* __delitem__ up to the rewrite: the key is gone from the dict.
StartDelete(k) ==
  /\ pc = "idle" /\ Loadable /\ k \in KeysOf(Dict)
  /\ cache' = {Without(Dict, k)}
  /\ pc' = "flush" /\ tmp' = <<>>
  /\ unsure' = unsure \cup acked[k]
  /\ acked' = [acked EXCEPT ![k] = {}]
  /\ UNCHANGED <<file, tail, diverged, storage>>

\* _flush writes the next entry of the dict to the .tmp file.
FlushLine ==
  /\ pc = "flush" /\ Len(tmp) < Len(Dict)
  /\ tmp' = Append(tmp, Dict[Len(tmp) + 1])
  /\ UNCHANGED <<file, tail, cache, pc, acked, unsure, diverged, storage>>

Beginnings(f) == {SubSeq(f, 1, n) : n \in 0 .. Len(f)}

\* ... and renames it over the file.  An entry whose write had raised is there now.
\* The new name may reach the disk before the lines do.
Replace ==
  /\ pc = "flush" /\ Len(tmp) = Len(Dict)
  /\ pc' = "idle"
  /\ file' = tmp /\ tail' = NoTail /\ tmp' = <<>>
  /\ unsure' = {u \in unsure : u.key \in KeysOf(Dict)} /\ diverged' = FALSE
  /\ Unsynced([lines : Beginnings(tmp), tail : {NoTail}])
  /\ volatile' = Keys
  /\ UNCHANGED <<cache, acked>>

\* The rewrite raises: the key is gone from the dict, the file is as it was.
FlushRaises ==
  /\ "disk_full" \in Env
  /\ pc = "flush"
  /\ pc' = "idle" /\ tmp' = <<>> /\ diverged' = TRUE
  /\ UNCHANGED <<file, tail, cache, acked, unsure, storage>>

\* The process stops, in a rewrite or between operations, and a new one starts.
Restart ==
  /\ pc = "idle" \/ "crash" \in Env
  /\ pc' = "idle" /\ tmp' = <<>> /\ cache' = {} /\ diverged' = FALSE
  /\ UNCHANGED <<file, tail, acked, unsure, storage>>

\* The operating system writes the file back.
WriteBack ==
  /\ "power" \in Env
  /\ disk' = {Content} /\ volatile' = {}
  /\ UNCHANGED <<file, tail, tmp, cache, pc, acked, unsure, diverged>>

\* The machine loses power: what is on disk is all there is.  A caller can rely on no
\* more than that for a key whose last write was not.
PowerLoss ==
  /\ "power" \in Env
  /\ \E c \in disk :
       /\ file' = c.lines
       /\ \/ tail' = c.tail
          \/ tail' = Junk /\ disk # {c}  \* the next line was on its way
       /\ disk' = {Content'}
       /\ acked' = [k \in Keys |-> IF k \in volatile THEN EntriesOf(OnDisk', k) ELSE acked[k]]
  /\ pc' = "idle" /\ tmp' = <<>> /\ cache' = {} /\ diverged' = FALSE /\ volatile' = {}
  /\ UNCHANGED unsure

-------------------------------------------------------------------------------
Init ==
  /\ file = <<>> /\ tail = NoTail /\ tmp = <<>> /\ cache = {}
  /\ pc = "idle" /\ acked = [k \in Keys |-> {}] /\ unsure = {} /\ diverged = FALSE
  /\ disk = {Content} /\ volatile = {}

Next ==
  \/ Load
  \/ \E e \in Entry : Set(e) \/ SetRaises(e) \/ SetInterrupted(e)
  \/ \E k \in Keys : StartDelete(k)
  \/ FlushLine \/ Replace \/ FlushRaises \/ Restart
  \/ WriteBack \/ PowerLoss

Spec == Init /\ [][Next]_vars

-------------------------------------------------------------------------------
(* Properties.                                                             *)

Tails == {NoTail, Junk} \cup [kind : {"entry"}, entry : Entry]

\* Every variable has its type; the dict in memory holds a key once.
TypeOK ==
  /\ file \in Seq(Entry) /\ tmp \in Seq(Entry) /\ tail \in Tails
  /\ cache \in SUBSET Seq(Entry)
  /\ \A d \in cache : \A i, j \in DOMAIN d : d[i].key = d[j].key => i = j
  /\ pc \in {"idle", "flush"}
  /\ acked \in [Keys -> SUBSET Entry]
  /\ unsure \in SUBSET Entry /\ diverged \in BOOLEAN
  /\ disk \in SUBSET [lines : Seq(Entry), tail : Tails] /\ volatile \in SUBSET Keys

\* As long as the file can be read at all, a restart finds for every key what was
\* last written to it, or a value whose write or delete was cut short since: a
\* process killed anywhere in an append or a rewrite loses nothing.  A loss of power
\* costs no more than the keys written since the system wrote the file back, or
\* every key if a rewrite was among that (JsonlStore.__setitem__, _flush).
AckedSurvives ==
  Readable => \A k \in Keys : \/ EntriesOf(OnDisk, k) = acked[k]
                              \/ EntriesOf(OnDisk, k) # {} /\ EntriesOf(OnDisk, k) \subseteq unsure

\* As long as every write succeeded, a restart changes neither what the store
\* holds nor the order it is iterated in, by which Runner._last_snapshot breaks
\* ties: the file, read back, is the dict (JsonlStore._load, __setitem__, _flush).
RestartIsInvisible ==
  pc = "idle" /\ ~diverged /\ Readable => \A d \in cache : d = OnDisk

===============================================================================
