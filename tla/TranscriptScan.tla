--------------------------- MODULE TranscriptScan ---------------------------
(***************************************************************************)
(* The viewer's incremental index of the session transcripts               *)
(* (viewer/scan.go).  Each poll walks the tree; of a file that changed it  *)
(* reads what lies beyond the offset it remembers, a line at a time, while *)
(* Pi goes on writing.  A file that shrank is forgotten and read anew; a   *)
(* file that is gone is forgotten.                                         *)
(*                                                                         *)
(* A path is its place in the walk.  A file is how many whole lines it has *)
(* of the text it was last replaced with, and whether half a line follows; *)
(* that is also its size and mtime, for every write changes it.  Sizes and *)
(* offsets count half lines.  Of an entry only its kind and the call it    *)
(* belongs to matter: Text[n] is the n-th text a file may be given.        *)
(***************************************************************************)
EXTENDS Integers, Sequences, FiniteSets

CONSTANTS
  Last,          (* the paths of the tree are 1..Last                       *)
  Sessions,      (* session ids                                             *)
  SessionIn,     (* the id in a path's name: sessionIDFor                   *)
  HeaderOf,      (* the id in the header of the file at a path, or NoId     *)
  Texts,         (* each a sequence of [kind, id], the header first         *)
  MaxMishaps     (* bound: half lines written, and reads that fail          *)

Paths == 1..Last
NoId == ""
Kinds == {"header", "call", "result", "wake", "note"}

(* What the index of a path may suffer: half a line taken for a whole one,  *)
(* a rewrite taken for an append, lines read twice, and a reading cut short.*)
Mistakes == {"half", "longer", "broken"}
Faults == Mistakes \cup {"cut"}

ASSUME ScanAssumption ==
  /\ Last \in Nat
  /\ SessionIn \in [Paths -> Sessions]
  /\ HeaderOf \in [Paths -> Sessions \cup {NoId}]
  /\ NoId \notin Sessions
  /\ \A p, q \in Paths :
       p # q => {SessionIn[p], HeaderOf[p]} \cap {SessionIn[q], HeaderOf[q]} \subseteq {NoId}
  /\ Texts \in Seq(Seq([kind : Kinds, id : Nat]))
  /\ \A v \in DOMAIN Texts : Texts[v] # <<>> => Texts[v][1].kind = "header"
  /\ MaxMishaps \in Nat

Versions == 1..Len(Texts)

VARIABLES
  disk,       (* the file at each path: [text, lines, torn]; text 0 is none *)
  written,    (* the texts given to files so far                            *)
  files,      (* store.files: what the index remembers of each path         *)
  sessions,   (* store.sessions: [file, read]; file 0 is no record          *)
  calls,      (* store.calls, by session, in the order they were read       *)
  wakes,      (* store.wakes, likewise                                      *)
  scan,       (* the refresh under way                                      *)
  changed,    (* what the last refresh returned                             *)
  mishaps,    (* half lines and failures so far                            *)
  faults      (* history: <<fault, path>> since the path was last read anew *)

vars == <<disk, written, files, sessions, calls, wakes, scan, changed, mishaps, faults>>
index == <<files, sessions, calls, wakes>>

NoFile == [text |-> 0, lines |-> 0, torn |-> FALSE]
Size(f) == 2 * f.lines + (IF f.torn THEN 1 ELSE 0)
There(p) == disk[p].text # 0
Entry(v, n) == Texts[v][n]

(* What a path is remembered as before its first poll, and once forgotten.  *)
Unknown(p) ==
  [known |-> FALSE, session |-> SessionIn[p], offset |-> 0, stat |-> NoFile,
   hdrDone |-> FALSE, pending |-> {}, stable |-> FALSE]

NoSession == [file |-> 0, read |-> <<>>]
Idle == [at |-> 0, reading |-> FALSE, pos |-> 0, stat |-> NoFile, seen |-> {}]

Init ==
  /\ disk = [p \in Paths |-> NoFile]
  /\ written = 0
  /\ files = [p \in Paths |-> Unknown(p)]
  /\ sessions = [s \in Sessions |-> NoSession]
  /\ calls = [s \in Sessions |-> <<>>]
  /\ wakes = [s \in Sessions |-> <<>>]
  /\ scan = Idle
  /\ changed = FALSE
  /\ mishaps = 0
  /\ faults = {}

-----------------------------------------------------------------------------
(* The writers.                                                             *)

Reading(p) == scan.at = p /\ scan.reading

Write(p, f) ==
  /\ disk' = [disk EXCEPT ![p] = f]
  /\ UNCHANGED <<written, index, scan, changed, mishaps>>

(* A session appends a line, or the half of it that was missing.            *)
AppendLine(p) ==
  /\ There(p) /\ disk[p].lines < Len(Texts[disk[p].text])
  /\ Write(p, [disk[p] EXCEPT !.lines = @ + 1, !.torn = FALSE])
  /\ UNCHANGED faults

(* Only half a line has reached the file.                                   *)
AppendHalf(p) ==
  /\ There(p) /\ ~disk[p].torn /\ disk[p].lines < Len(Texts[disk[p].text])
  /\ mishaps < MaxMishaps /\ mishaps' = mishaps + 1
  /\ disk' = [disk EXCEPT ![p].torn = TRUE]
  /\ UNCHANGED <<written, index, scan, changed>>
  /\ UNCHANGED faults

(* A file appears, or is replaced by the next text.  The index cannot tell  *)
(* if the file is being read just then.                                     *)
Replace(p) ==
  /\ written < Len(Texts)
  /\ written' = written + 1
  /\ \E n \in 0..Len(Texts[written + 1]) :
       /\ disk' = [disk EXCEPT ![p] = [text |-> written + 1, lines |-> n, torn |-> FALSE]]
       /\ faults' = IF Reading(p) THEN faults \cup {<<"longer", p>>} ELSE faults
  /\ UNCHANGED <<index, scan, changed, mishaps>>

(* A file is deleted, or its project directory is.                          *)
Delete(p) ==
  /\ There(p)
  /\ Write(p, NoFile)
  /\ UNCHANGED faults

-----------------------------------------------------------------------------
(* The index, as store.line changes it: what follows is the index as a      *)
(* value, [files, sessions, calls, wakes].                                  *)

Index == [files |-> files, sessions |-> sessions, calls |-> calls, wakes |-> wakes]

Becomes(x) ==
  /\ files' = x.files /\ sessions' = x.sessions
  /\ calls' = x.calls /\ wakes' = x.wakes

(* dropSession: whatever was derived from a session's file.                 *)
DropSession(x, s, p) ==
  [files    |-> [x.files EXCEPT ![p].pending = {}],
   sessions |-> [x.sessions EXCEPT ![s] = NoSession],
   calls    |-> [x.calls EXCEPT ![s] = <<>>],
   wakes    |-> [x.wakes EXCEPT ![s] = <<>>]]

(* session: the record of a path's session, a new one if there is none or   *)
(* if it is another file's.                                                 *)
WithSession(x, p) ==
  LET s == x.files[p].session
  IN  IF x.sessions[s].file = p THEN x
      ELSE [x EXCEPT !.sessions[s] = [file |-> p, read |-> <<>>]]

(* Mutant of TakeHeader: a header need not have an id.                      *)
TakeAnyHeader(x, p) ==
  LET old == x.files[p].session
  IN  IF old = HeaderOf[p] THEN WithSession(x, p)
      ELSE [DropSession(x, old, p) EXCEPT !.files[p].session = HeaderOf[p]]

(* The header may name another session than the path does.                  *)
TakeHeader(x, p) ==
  LET old == x.files[p].session
      y == IF HeaderOf[p] \in {old, NoId} THEN x
           ELSE [DropSession(x, old, p) EXCEPT !.files[p].session = HeaderOf[p]]
  IN  WithSession(y, p)

(* teamRoomLine: a result goes with the call still waiting for it, if any;  *)
(* the call may have been read in an earlier poll.                          *)
TakeResult(x, p, item) ==
  LET id == Entry(item.text, item.line).id
      mine == {c \in x.files[p].pending : Entry(c.text, c.line).id = id}
      call == IF mine = {} THEN 0 ELSE (CHOOSE c \in mine : TRUE).line
      y == [x EXCEPT !.files[p].pending = @ \ mine]
  IN  [y EXCEPT !.calls[y.files[p].session] =
         Append(@, [text |-> item.text, call |-> call, line |-> item.line])]

(* A call waits for its result, in place of an earlier one with its id.     *)
TakeCall(x, p, item) ==
  LET id == Entry(item.text, item.line).id
      others == {c \in x.files[p].pending : Entry(c.text, c.line).id # id}
  IN  [x EXCEPT !.files[p].pending = others \cup {[text |-> item.text, line |-> item.line]}]

(* line: what one line adds.  Half a line has no fields left to decode: it  *)
(* counts as an entry, unless it is half of a header.                       *)
TakeLine(x0, p, item) ==
  LET x == [x0 EXCEPT !.files[p].hdrDone = TRUE]
      kind == Entry(item.text, item.line).kind
      y == WithSession(x, p)
      s == y.files[p].session
      z == [y EXCEPT !.sessions[s].read = Append(@, item)]
  IN  CASE kind = "header" /\ item.part = "whole" -> TakeHeader(x, p)
        [] kind = "header" /\ item.part = "half"  -> x
        [] kind = "call" /\ item.part = "whole" -> TakeCall(z, p, item)
        [] kind = "result" /\ item.part = "whole" -> TakeResult(z, p, item)
        [] kind = "wake" /\ item.part = "whole" ->
             [z EXCEPT !.wakes[s] = Append(@, [text |-> item.text, line |-> item.line])]
        [] OTHER -> z

-----------------------------------------------------------------------------
(* One poll: refresh, which holds the store's lock from Start to Sweep.     *)

Start ==
  /\ scan.at = 0
  /\ scan' = [Idle EXCEPT !.at = 1]
  /\ UNCHANGED <<disk, written, index, changed, mishaps, faults>>

On(p) == scan.at = p /\ ~scan.reading
NextPath == [scan EXCEPT !.at = @ + 1, !.reading = FALSE, !.pos = 0, !.stat = NoFile]

(* There is nothing at the path.                                            *)
SkipMissing(p) ==
  /\ On(p) /\ ~There(p)
  /\ scan' = NextPath
  /\ UNCHANGED <<disk, written, index, changed, mishaps, faults>>

(* ReadDir of the path's directory fails, and the path is taken for gone;   *)
(* or the stat of what ReadDir listed does.                                 *)
CannotLook(p) ==
  /\ On(p) /\ There(p) /\ mishaps < MaxMishaps
  /\ mishaps' = mishaps + 1
  /\ \E listed \in BOOLEAN :
       scan' = [NextPath EXCEPT !.seen = @ \cup (IF listed THEN {p} ELSE {})]
  /\ UNCHANGED <<disk, written, index, changed, faults>>

Unchanged(p) == files[p].hdrDone /\ disk[p] = files[p].stat

(* Nothing was written since the last poll.                                 *)
SkipUnchanged(p) ==
  /\ On(p) /\ There(p) /\ Unchanged(p)
  /\ files' = [files EXCEPT ![p].stable = TRUE]
  /\ scan' = [NextPath EXCEPT !.seen = @ \cup {p}]
  /\ UNCHANGED <<disk, written, sessions, calls, wakes, changed, mishaps, faults>>

(* Mutant of Rewind: what was read of the longer file stays.                *)
RewindOnly(x, p) == [x EXCEPT !.files[p] = [@ EXCEPT !.offset = 0, !.hdrDone = FALSE]]

(* A rewrite: forget what the file held, and read it from its start.        *)
Rewind(x, p) ==
  [DropSession(x, x.files[p].session, p)
     EXCEPT !.files[p] = [@ EXCEPT !.offset = 0, !.hdrDone = FALSE]]

(* The file changed, or is new.  Its size here is the stat's; it may grow   *)
(* before it is read.  A text not shorter than what was read of the one     *)
(* before it looks like an append.                                          *)
StatFile(p) ==
  LET known == [Index EXCEPT !.files[p].known = TRUE]
      shrunk == Size(disk[p]) < files[p].offset
  IN  /\ On(p) /\ There(p) /\ ~Unchanged(p)
      /\ Becomes(IF shrunk THEN Rewind(known, p) ELSE known)
      /\ scan' = [scan EXCEPT !.seen = @ \cup {p}, !.reading = TRUE, !.stat = disk[p],
                              !.pos = IF shrunk THEN 0 ELSE files[p].offset]
      /\ faults' = IF shrunk THEN faults \ (Faults \X {p})
                   ELSE IF files[p].offset > 0 /\ disk[p].text # files[p].stat.text
                   THEN (faults \ {<<"cut", p>>}) \cup {<<"longer", p>>}
                   ELSE faults \ {<<"cut", p>>}
      /\ UNCHANGED <<disk, written, changed, mishaps>>

(* The line at the offset: its rest only, if its half was taken before.     *)
NextLine(p) ==
  [text |-> disk[p].text, line |-> scan.pos \div 2 + 1,
   part |-> IF scan.pos % 2 = 0 THEN "whole" ELSE "rest"]

(* ReadBytes up to the next newline.  A file that is deleted meanwhile ends *)
(* here: what is left of it would be forgotten with the rest.               *)
ReadLine(p) ==
  /\ Reading(p) /\ There(p)
  /\ scan.pos \div 2 < disk[p].lines
  /\ Becomes(TakeLine(Index, p, NextLine(p)))
  /\ scan' = [scan EXCEPT !.pos = 2 * (@ \div 2) + 2]
  /\ UNCHANGED <<disk, written, changed, mishaps, faults>>

(* What is left without a newline is trusted if it is all that the stat     *)
(* promised and the file had been stable before this poll.                  *)
Trusted(p) == Size(scan.stat) - scan.pos = 1 /\ files[p].stable

(* The reading stops where no newline follows, with half a line read or not:*)
(* the offset and the stat are remembered together.                         *)
Stop(p, half) ==
  LET taken == half /\ Trusted(p)
      item == [text |-> disk[p].text, line |-> scan.pos \div 2 + 1, part |-> "half"]
      x == IF taken THEN TakeLine(Index, p, item) ELSE Index
  IN  /\ Becomes([x EXCEPT !.files[p] =
                    [@ EXCEPT !.offset = scan.pos + (IF taken THEN 1 ELSE 0),
                              !.stat = scan.stat, !.stable = FALSE]])
      /\ scan' = NextPath
      /\ UNCHANGED <<disk, written, changed>>

HalfFault(p, half) == IF half /\ Trusted(p) THEN {<<"half", p>>} ELSE {}

AtEnd(p) == scan.pos \div 2 >= disk[p].lines
HalfLeft(p) == disk[p].torn /\ scan.pos = 2 * disk[p].lines

(* The end of the file, where its last line may have no newline yet.        *)
Finish(p) ==
  /\ Reading(p) /\ AtEnd(p)
  /\ Stop(p, HalfLeft(p))
  /\ faults' = faults \cup HalfFault(p, HalfLeft(p))
  /\ UNCHANGED mishaps

(* A read that fails inside a line returns what it has of it, which looks   *)
(* like a line still being written: the error is not looked at.             *)
CutShort(p) ==
  /\ Reading(p) /\ There(p)
  /\ scan.pos < Size(disk[p])
  /\ mishaps < MaxMishaps /\ mishaps' = mishaps + 1
  /\ \E half \in {FALSE, scan.pos % 2 = 0} :
       /\ Stop(p, half)
       /\ faults' = faults \cup HalfFault(p, half) \cup {<<"cut", p>>}

(* Mutant of CannotRead: the stat is remembered though the read failed.     *)
CannotReadButRemember(p) ==
  /\ Reading(p)
  /\ IF There(p) THEN mishaps < MaxMishaps /\ mishaps' = mishaps + 1
                 ELSE scan.pos = files[p].offset /\ UNCHANGED mishaps
  /\ files' = [files EXCEPT ![p].stat = scan.stat, ![p].hdrDone = TRUE]
  /\ scan' = NextPath
  /\ faults' = IF scan.pos > files[p].offset THEN faults \cup {<<"broken", p>>} ELSE faults
  /\ UNCHANGED <<disk, written, sessions, calls, wakes, changed>>

(* The file cannot be opened, or a read fails between two lines: the offset *)
(* stays, and what was read of the file will be read again.                 *)
CannotRead(p) ==
  /\ Reading(p)
  /\ IF There(p) THEN mishaps < MaxMishaps /\ mishaps' = mishaps + 1
                 ELSE scan.pos = files[p].offset /\ UNCHANGED mishaps
  /\ scan' = NextPath
  /\ faults' = IF scan.pos > files[p].offset THEN faults \cup {<<"broken", p>>} ELSE faults
  /\ UNCHANGED <<disk, written, index, changed>>

(* Mutant of Forget: the session is looked up by the name of the file.      *)
ForgetByName(x, gone) ==
  LET dropped == {SessionIn[p] : p \in gone}
  IN  [files    |-> [p \in Paths |-> IF p \in gone THEN Unknown(p) ELSE x.files[p]],
       sessions |-> [s \in Sessions |-> IF s \in dropped THEN NoSession ELSE x.sessions[s]],
       calls    |-> [s \in Sessions |-> IF s \in dropped THEN <<>> ELSE x.calls[s]],
       wakes    |-> [s \in Sessions |-> IF s \in dropped THEN <<>> ELSE x.wakes[s]]]

(* What the walk did not see is forgotten.                                  *)
Forget(x, gone) ==
  LET dropped == {files[p].session : p \in gone}
  IN  [files    |-> [p \in Paths |-> IF p \in gone THEN Unknown(p) ELSE x.files[p]],
       sessions |-> [s \in Sessions |-> IF s \in dropped THEN NoSession ELSE x.sessions[s]],
       calls    |-> [s \in Sessions |-> IF s \in dropped THEN <<>> ELSE x.calls[s]],
       wakes    |-> [s \in Sessions |-> IF s \in dropped THEN <<>> ELSE x.wakes[s]]]

(* The walk is over.  A refresh says that something changed if some file    *)
(* it still knows was read, or could not be.                                *)
Sweep ==
  LET gone == {p \in Paths : files[p].known /\ p \notin scan.seen}
  IN  /\ scan.at = Last + 1
      /\ Becomes(Forget(Index, gone))
      /\ changed' = \E p \in Paths \ gone : files[p].known /\ ~files[p].stable
      /\ scan' = Idle
      /\ faults' = faults \ (Faults \X gone)
      /\ UNCHANGED <<disk, written, mishaps>>

Poll ==
  \/ Start \/ Sweep
  \/ \E p \in Paths :
       \/ SkipMissing(p) \/ CannotLook(p) \/ SkipUnchanged(p) \/ StatFile(p)
       \/ ReadLine(p) \/ Finish(p) \/ CutShort(p) \/ CannotRead(p)

Writers ==
  \E p \in Paths : AppendLine(p) \/ AppendHalf(p) \/ Replace(p) \/ Delete(p)

Next == Poll \/ Writers
Spec == Init /\ [][Next]_vars
FairSpec == Spec /\ WF_vars(Poll)

-----------------------------------------------------------------------------
Content == [text : Nat, lines : Nat, torn : BOOLEAN]
FileState ==
  [known : BOOLEAN, session : Sessions, offset : Nat, stat : Content, hdrDone : BOOLEAN,
   pending : SUBSET [text : Nat, line : Nat], stable : BOOLEAN]
ReadLines == Seq([text : Nat, line : Nat, part : {"whole", "half", "rest"}])
IndexType ==
  [files    : [Paths -> FileState],
   sessions : [Sessions -> [file : {0} \cup Paths, read : ReadLines]],
   calls    : [Sessions -> Seq([text : Nat, call : Nat, line : Nat])],
   wakes    : [Sessions -> Seq([text : Nat, line : Nat])]]

(* The index of a session is kept under an id that the tree can name, and   *)
(* what is remembered of a file has the shape refresh gives it.             *)
TypeOK ==
  /\ disk \in [Paths -> Content]
  /\ written \in 0..Len(Texts)
  /\ Index \in IndexType
  /\ scan \in [at : 0..(Last + 1), reading : BOOLEAN, pos : Nat, stat : Content,
              seen : SUBSET Paths]
  /\ changed \in BOOLEAN
  /\ mishaps \in 0..MaxMishaps
  /\ faults \subseteq Faults \X Paths

(* Nothing was taken for what it is not.                                    *)
Sound(p) == \A k \in Mistakes : <<k, p>> \notin faults

(* The last reading of the file was cut short, and since then the file has  *)
(* not changed: no poll will look at it.                                    *)
CutAndQuiet(p) == <<"cut", p>> \in faults /\ Unchanged(p)

(* How far a file was read, and what of its text the index should hold.     *)
Consumed(p) == (IF Reading(p) THEN scan.pos ELSE files[p].offset) \div 2

LinesOf(v, n, K) == {l \in 1..n : Entry(v, l).kind \in K}

(* The calls among n lines that no line after them answers or repeats.      *)
Waiting(v, n) ==
  {i \in LinesOf(v, n, {"call"}) :
     \A j \in LinesOf(v, n, {"call", "result"}) : j > i => Entry(v, j).id # Entry(v, i).id}

CallFor(v, r) ==
  LET asked == {i \in Waiting(v, r - 1) : Entry(v, i).id = Entry(v, r).id}
  IN  IF asked = {} THEN 0 ELSE CHOOSE i \in asked : TRUE

(* A list has each of the items once, in the order of their lines.          *)
Lists(list, items) ==
  /\ {list[i] : i \in DOMAIN list} = items
  /\ \A i, j \in DOMAIN list : i < j => list[i].line < list[j].line

Holds(x, p, v, n) ==
  LET s == x.files[p].session
  IN  /\ Lists(x.sessions[s].read, {[text |-> v, line |-> l, part |-> "whole"] :
                                      l \in LinesOf(v, n, Kinds \ {"header"})})
      /\ Lists(x.calls[s], {[text |-> v, call |-> CallFor(v, r), line |-> r] :
                              r \in LinesOf(v, n, {"result"})})
      /\ Lists(x.wakes[s], {[text |-> v, line |-> l] : l \in LinesOf(v, n, {"wake"})})

(* The index of a file is the file as far as its offset goes: every line    *)
(* once and in order, every result with its call though they may have been  *)
(* read in different polls, and nothing of a text the file had before       *)
(* (scan.go, consume and line).                                             *)
IndexIsPrefix ==
  \A p \in Paths :
    files[p].known /\ Sound(p) /\ Consumed(p) > 0
      => \E v \in Versions : Holds(Index, p, v, Consumed(p))

(* Whatever the index holds is of a file that it still knows, whose next    *)
(* rewrite or end will take it away again (dropSession, and the sweep at    *)
(* the end of refresh).                                                     *)
Empty(x, s) == x.sessions[s] = NoSession /\ x.calls[s] = <<>> /\ x.wakes[s] = <<>>
KnownIn(x, s) == \E p \in Paths : x.files[p].known /\ x.files[p].session = s
NothingOrphaned == \A s \in Sessions : Empty(Index, s) \/ KnownIn(Index, s)

(* Whatever the order of writes, polls and mishaps, a transcript whose     *)
(* last line is whole comes to be indexed as it is (poll, every interval),  *)
(* but for one whose reading was cut short when it had its last change.     *)
WholeOnDisk(p) == There(p) /\ ~disk[p].torn /\ disk[p].lines > 0

Indexed(p) ==
  WholeOnDisk(p) /\ Sound(p) /\ ~CutAndQuiet(p)
    => files[p].offset = Size(disk[p]) /\ Holds(Index, p, disk[p].text, disk[p].lines)

EventuallyIndexed == \A p \in Paths : <>[](Indexed(p))

-----------------------------------------------------------------------------
(* What a comment says and the code does not do.                            *)

(* "refresh walks the session tree and consumes anything new" (scan.go:93): *)
(* whatever is whole in a file is, in the end, behind its offset.           *)
ConsumesAnythingNew ==
  \A p \in Paths : <>[](WholeOnDisk(p) /\ Sound(p) => files[p].offset >= Size(disk[p]))
=============================================================================
