------------------------------ MODULE WalFile -------------------------------
(***************************************************************************)
(* runs/<id>/wal.jsonl (state.WAL): the text of the log, the indexes one   *)
(* process keeps of it, and what the next process makes of the text.       *)
(*                                                                         *)
(* Two goroutines append: the loop writes transactions, the sidecar worker *)
(* writes events.  A mutex makes an append one step, but a write may fail  *)
(* half way, and the goroutine that was told stops while the other one     *)
(* still appends behind the fragment.  A process may end anywhere; a power *)
(* loss also takes what was not synced, at any byte.                       *)
(*                                                                         *)
(* A line is the sequence of what was written into it: whole records or a  *)
(* Fragment.  Only the last line can miss its newline.                     *)
(***************************************************************************)
EXTENDS Naturals, Sequences, FiniteSets, TLC, SequencesExt, Functions

CONSTANTS
  Owner,      \* rel_path values transactions and events are about
  RunFamily,  \* name of the event family of the run's payload
  MaxTx,      \* bound: transactions and events begun
  MaxRecords, \* bound: records written
  MaxFailures   \* bound: failed writes, failed syncs, crashes and power losses

ASSUME LogAssumption ==
  /\ Owner # {} /\ RunFamily \in {"preview", "text"}
  /\ {MaxTx, MaxRecords, MaxFailures} \subseteq Nat

VARIABLES
  log,        \* lines of wal.jsonl
  synced,     \* lines no power loss takes
  ix,         \* indexes of the process: what it knows of the log
  up,         \* "idle", "down", "up", or "refused": the log was called corrupt
  stopped,    \* appenders that were told of an error
  acked,      \* history: records whose append returned without error
  glued,      \* history: a record was written behind an unended line
  failures

walVars == <<log, synced, ix, up, stopped, acked, glued, failures>>

Preview == [name |-> "preview", begin |-> "preview_begin", done |-> "preview_done",
            failed |-> "preview_failed", delete |-> "preview_delete", deleted |-> "preview_deleted"]
Text == [name |-> "text", begin |-> "text_begin", done |-> "text_done",
         failed |-> "text_failed", delete |-> "text_delete", deleted |-> "text_deleted"]
EventFamilies == {Preview, Text}
Family == CHOOSE fam \in EventFamilies : fam.name = RunFamily

Opens(fam, step) == step \in {fam.begin, fam.delete}
Closes(fam, step) == step \in {fam.done, fam.failed, fam.deleted}
FamilySteps(fam) == {fam.begin, fam.done, fam.failed, fam.delete, fam.deleted}
EventSteps == UNION {FamilySteps(fam) : fam \in EventFamilies}
TxSteps == {"begin", "copied", "placed", "commit", "aborted"}
NeedsFsync(step) == step # "copied"                         \* nor "verified"

Fragment == [tx |-> 0, seq |-> 0, step |-> "begin", owner |-> CHOOSE o \in Owner : TRUE]

-----------------------------------------------------------------------------
(* The indexes: the last seq and transaction number, and by transaction    *)
(* the path of its begin record, its last step, its outcome, its open event. *)
Fresh == [seq |-> 0, nextTx |-> 0, begin |-> <<>>, last |-> <<>>, done |-> <<>>,
          events |-> <<>>, commits |-> {}]

Put(f, tx, v) == [t \in DOMAIN f \cup {tx} |-> IF t = tx THEN v ELSE f[t]]

Note(x, rec) ==
  IF rec.step \in EventSteps
    THEN [x EXCEPT !.events = IF \E fam \in EventFamilies : Opens(fam, rec.step)
                                THEN Put(@, rec.tx, rec)
                                ELSE Restrict(@, DOMAIN @ \ {rec.tx})]
    ELSE [x EXCEPT
           !.begin = IF rec.step = "begin" THEN Put(@, rec.tx, rec.owner) ELSE @,
           !.last = Put(@, rec.tx, rec.step),
           !.done = IF rec.step \in {"commit", "aborted"} THEN Put(@, rec.tx, rec.step) ELSE @,
           !.commits = IF rec.step = "commit" THEN @ \cup {x.begin[rec.tx]} ELSE @]

OpenTransactions(x) == DOMAIN x.begin \ DOMAIN x.done

(* ingest: what a record read from the file has to satisfy.                *)
Acceptable(x, rec) ==
  /\ rec.seq > x.seq
  /\ rec.step = "begin" => rec.tx \notin DOMAIN x.begin
  /\ rec.step \in TxSteps \ {"begin"} => rec.tx \in DOMAIN x.begin
  /\ \A fam \in EventFamilies :
       /\ Opens(fam, rec.step) => rec.tx \notin DOMAIN x.events
       /\ Closes(fam, rec.step) => rec.tx \in DOMAIN x.events /\ Opens(fam, x.events[rec.tx].step)

Ingest(x, rec) ==
  LET larger == IF rec.tx > x.nextTx THEN rec.tx ELSE x.nextTx
  IN  Note([x EXCEPT !.seq = rec.seq, !.nextTx = larger], rec)

Decodes(line) == Len(line.parts) = 1 /\ line.parts[1] # Fragment

TornNever(lines, n) == FALSE                               \* mutant of Torn
Torn(lines, n) == ~Decodes(lines[n]) /\ n = Len(lines)

(* WAL.load: a last line that does not decode is torn, another one makes   *)
(* the log corrupt.  A last line that decodes is accepted without its      *)
(* newline.                                                                *)
Start == [verdict |-> "ok", x |-> Fresh, good |-> 0]

ReadLine(file, acc, n) ==
  IF acc.verdict # "ok" THEN acc
  ELSE IF Torn(file, n) THEN [acc EXCEPT !.verdict = "torn"]
  ELSE IF ~Decodes(file[n]) \/ ~Acceptable(acc.x, file[n].parts[1])
    THEN [acc EXCEPT !.verdict = "corrupt"]
  ELSE [acc EXCEPT !.x = Ingest(acc.x, file[n].parts[1]), !.good = n]

Reading(file) ==
  LET read[n \in 0..Len(file)] == IF n = 0 THEN Start ELSE ReadLine(file, read[n - 1], n)
  IN  read

Load(file) == Reading(file)[Len(file)]

(* ReadWALRecords, for runs that are not opened: an unended last line is   *)
(* no record.                                                              *)
Ended(file) == IF file # <<>> /\ ~Last(file).nl THEN Front(file) ELSE file
ReadWALRecords(file) ==
  IF \E n \in DOMAIN Ended(file) : ~Decodes(file[n]) THEN [err |-> TRUE, recs |-> <<>>]
  ELSE [err |-> FALSE, recs |-> [n \in DOMAIN Ended(file) |-> file[n].parts[1]]]

-----------------------------------------------------------------------------
WalAt(state) ==
  /\ log = <<>> /\ synced = 0 /\ ix = Fresh /\ up = state /\ stopped = {}
  /\ acked = {} /\ glued = FALSE /\ failures = 0

WalInit == WalAt("down")
WalIdle == WalAt("idle")

(* WAL.truncate, and a mutant that cuts before the last whole line.        *)
TruncateMore(lines, good) == SubSeq(lines, 1, good - 1)
Truncate(lines, good) == SubSeq(lines, 1, good)

(* OpenWAL.                                                                *)
OpenWAL ==
  /\ up = "down"
  /\ LET read == Load(log) IN
       \/ read.verdict = "ok" /\ up' = "up" /\ ix' = read.x /\ UNCHANGED <<log, synced>>
       \/ /\ read.verdict = "torn" /\ up' = "up" /\ ix' = read.x
          /\ log' = Truncate(log, read.good) /\ synced' = read.good
       \/ read.verdict = "corrupt" /\ up' = "refused" /\ UNCHANGED <<log, synced, ix>>
  /\ stopped' = {} /\ UNCHANGED <<acked, glued, failures>>

(* The text goes behind what is there, whoever left it unended.            *)
WriteText(text, nl) ==
  IF log # <<>> /\ ~Last(log).nl
    THEN Append(Front(log), [parts |-> Last(log).parts \o text, nl |-> nl])
    ELSE Append(log, [parts |-> text, nl |-> nl])

(* The record of an append.                                                *)
Record(x, tx, step, owner) == [tx |-> tx, seq |-> x.seq + 1, step |-> step, owner |-> owner]

(* appendLocked: x is the index before it, with the transaction number     *)
(* taken.  The write may fail before anything, within the record or before *)
(* its newline; the sync may fail.                                         *)
AppendLocked(who, x, tx, step, owner) ==
  LET rec == Record(x, tx, step, owner)
  IN  \/ /\ log' = WriteText(<<rec>>, TRUE)
         /\ glued' = (glued \/ (log # <<>> /\ ~Last(log).nl))
         /\ ix' = Note([x EXCEPT !.seq = rec.seq], rec)
         /\ \/ /\ synced' = IF NeedsFsync(step) THEN Len(log') ELSE synced
               /\ acked' = acked \cup {rec} /\ UNCHANGED <<stopped, failures>>
            \/ /\ NeedsFsync(step) /\ failures < MaxFailures /\ failures' = failures + 1
               /\ stopped' = stopped \cup {who} /\ UNCHANGED <<synced, acked>>
      \/ /\ failures < MaxFailures /\ failures' = failures + 1 /\ stopped' = stopped \cup {who}
         /\ log' \in {log, WriteText(<<Fragment>>, FALSE), WriteText(<<rec>>, FALSE)}
         /\ ix' = x /\ UNCHANGED <<synced, acked, glued>>

MayAppend(who) == up = "up" /\ who \notin stopped /\ Len(log) < MaxRecords

Begin ==
  /\ MayAppend("loop") /\ ix.nextTx < MaxTx /\ OpenTransactions(ix) = {}
  /\ \E owner \in Owner :
       AppendLocked("loop", [ix EXCEPT !.nextTx = @ + 1], ix.nextTx + 1, "begin", owner)
  /\ UNCHANGED up

(* Append: refused for a transaction that is unknown or settled.           *)
AppendStep ==
  /\ MayAppend("loop")
  /\ \E tx \in OpenTransactions(ix), step \in TxSteps \ {"begin"} :
       AppendLocked("loop", ix, tx, step, ix.begin[tx])
  /\ UNCHANGED up

BeginEvent ==
  /\ MayAppend("worker") /\ ix.nextTx < MaxTx /\ DOMAIN ix.events = {}
  /\ \E owner \in Owner, step \in {Family.begin, Family.delete} :
       AppendLocked("worker", [ix EXCEPT !.nextTx = @ + 1], ix.nextTx + 1, step, owner)
  /\ UNCHANGED up

(* FinishEvent: a generation ends done or failed, a deletion deleted.      *)
Outcomes(fam, step) == IF step = fam.delete THEN {fam.deleted} ELSE {fam.done, fam.failed}

FinishEvent ==
  /\ MayAppend("worker")
  /\ \E tx \in DOMAIN ix.events : \E step \in Outcomes(Family, ix.events[tx].step) :
       AppendLocked("worker", ix, tx, step, ix.events[tx].owner)
  /\ UNCHANGED up

(* Close: the rest is synced.                                              *)
CloseWAL ==
  /\ up = "up" /\ up' = "down" /\ ix' = Fresh /\ synced' = Len(Ended(log))
  /\ UNCHANGED <<log, stopped, acked, glued, failures>>

Killed ==
  /\ up = "up" /\ failures < MaxFailures /\ failures' = failures + 1
  /\ up' = "down" /\ ix' = Fresh
  /\ UNCHANGED <<log, synced, stopped, acked, glued>>

(* What a power loss may leave: the synced lines, further whole ones, and  *)
(* the beginning of the next.                                              *)
Cuts(line) ==
  LET texts == {SubSeq(line.parts, 1, j) : j \in 0..(Len(line.parts) - 1)}
  IN  {[parts |-> text, nl |-> FALSE] :
         text \in texts \cup {Append(t, Fragment) : t \in texts} \cup {line.parts}}

LinesLost ==
  /\ up \in {"up", "down"} /\ failures < MaxFailures /\ failures' = failures + 1
  /\ up' = "down" /\ ix' = Fresh
  /\ \E keep \in synced..Len(log) :
       \/ log' = SubSeq(log, 1, keep)
       \/ keep < Len(log) /\ \E cut \in Cuts(log[keep + 1]) :
            cut.parts # <<>> /\ log' = Append(SubSeq(log, 1, keep), cut)
  /\ UNCHANGED <<synced, stopped, acked, glued>>

Refused == up = "refused" /\ UNCHANGED walVars

WalNext == OpenWAL \/ Begin \/ AppendStep \/ BeginEvent \/ FinishEvent \/ CloseWAL \/ Killed
           \/ LinesLost \/ Refused
WalSpec == WalInit /\ [][WalNext]_walVars

-----------------------------------------------------------------------------
Readable(file) == {file[n].parts[1] : n \in {k \in DOMAIN file : Decodes(file[k])}}
Durable == {rec \in acked : NeedsFsync(rec.step)}

(* Unless a record was written behind an unended line (a fragment, or a   *)
(* whole record without its newline), every record whose append returned   *)
(* and whose step is synced is in the log for good: no crash, power loss,  *)
(* failed write of the other goroutine or repair of a torn tail takes it.  *)
AckedKept == glued \/ Durable \subseteq Readable(log)

(* ... and no start, nor the reader of other runs, ever calls the log      *)
(* corrupt: seq, transaction numbers and events stay acceptable through    *)
(* failed appends that gave a number back.                                 *)
NeverRefused == glued \/ (up # "refused" /\ ~ReadWALRecords(log).err)

(* integrity.md: begin, placed, ..., commit and aborted "are fsynced after *)
(* the write"; a record that was synced stays readable.                    *)
AckedReadable == Durable \subseteq Readable(log)
=============================================================================
