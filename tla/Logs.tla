-------------------------------- MODULE Logs --------------------------------
(***************************************************************************)
(* Reading the journal.  A client pages through it with server.logs.query: *)
(* each query runs one journalctl under backend/capped.rs (a byte cap and  *)
(* one deadline for reading and waiting) and answers with the lines that   *)
(* parse and the cursor of the last of them.  server.packages.list runs    *)
(* the package manager under the same helper.  Beside that one journalctl  *)
(* --follow feeds the logs topic for as long as it lives.                  *)
(*                                                                         *)
(* Output is a sequence of parts <<k, i>>: the i-th of the line of entry   *)
(* k, or with i = 0 its newline.  The journal, journalctl and the          *)
(* package managers are external: -n lim is the newest lim entries without *)
(* a cursor and the next lim entries after one, and every entry has a      *)
(* cursor.                                                                 *)
(***************************************************************************)
EXTENDS EventPump, Ordered

CONSTANTS
    MAX_LIMIT,        \* lines a query may ask for
    MAX_OUTPUT,       \* MAX_OUTPUT_BYTES, in parts
    MAX_FOLLOW_LINE,  \* MAX_FOLLOW_LINE_BYTES, in parts
    LongLine,         \* parts of a long line, more than the one of every other
    Packages,         \* bound: lines the package manager has to tell
    MaxEntries,       \* bound: entries in the journal
    MaxOthers         \* bound: events of the topics that share the counter

ASSUME LogsAssumption ==
    /\ MAX_LIMIT \in Nat \ {0} /\ MAX_OUTPUT \in Nat \ {0} /\ MAX_FOLLOW_LINE \in Nat \ {0}
    /\ LongLine \in Nat \ {0, 1} /\ Packages \in Nat
    /\ MaxEntries \in Nat /\ MaxOthers \in Nat

Kinds == {"short", "long", "junk"}   \* junk: a line that is not a JSON object

PackageKinds == {"apt", "dnf", "pacman", "apk"}
Formats      == {"table", "described", "untabbed"}

VARIABLES
    journal,  \* the kind of each entry so far
    query,    \* what the client reads, pc of its handler, the cursor it resumes from,
              \* what the lines of the package manager are like
    window,   \* first and last entry the query's journalctl tells
    child,    \* the query's child: state, text not yet written, pipe
    buf,      \* read_capped's bytes
    pages,    \* history: entries of the pages the client received
    whole,    \* history: did the last answer hold all its child had to say?
    listed,   \* history: the last list of packages by their lines, the lines told in
              \* full, how many there are, their format and how their telling ended
    follow,   \* follow_journal's task and its journalctl, and how far that is
    out,      \* the journalctl's text not yet written, and its pipe
    line,     \* read_line_capped: buf
    over      \* read_line_capped: truncated

queryVars  == <<query, window, child, buf, pages, whole, listed>>
followVars == <<follow, out, line, over>>
logsVars == <<journal, queryVars, followVars, ring, pumpVars>>

NoChild == [state |-> "none", left |-> << >>, pipe |-> << >>]
Alive   == {"running", "closed"}

Content(k)   == IF journal[k] = "long" THEN LongLine ELSE 1
LineOf(k, n) == Append([i \in 1..n |-> <<k, i>>], <<k, 0>>)
Line(k)      == LineOf(k, Content(k))
Text(i, j)   == FlattenSeq([n \in 1..j - i + 1 |-> Line(i + n - 1)])
Parts        == (1..MaxEntries + Packages) \X (0..LongLine)

QueryTypeOK ==
    /\ query \in [what : {"logs", "packages"}, pc : {"idle", "read", "wait", "end"},
                  cursor : 0..MaxEntries, format : Formats]
    /\ window \in (1..MaxEntries + 1) \X (0..MaxEntries + Packages)
    /\ child \in [state : {"none", "running", "closed", "ok", "failed"},
                  left : Seq(Parts), pipe : Seq(Parts)]
    /\ buf \in Seq(Parts) /\ Len(buf) <= MAX_OUTPUT
    /\ pages \in Seq(1..MaxEntries) /\ whole \in BOOLEAN
    /\ listed \in [items : Seq(1..Packages), full : SUBSET (1..Packages), of : 0..Packages,
                   format : Formats, ended : {"ok", "failed", "cut"}]

FollowTypeOK ==
    /\ follow \in [task : {"reads", "ended"}, child : Alive \cup {"dead"}, pos : 0..MaxEntries]
    /\ out \in [left : Seq(Parts), pipe : Seq(Parts)]
    /\ line \in Seq(Parts) /\ Len(line) <= MAX_FOLLOW_LINE /\ over \in BOOLEAN
    /\ ring \in Seq(1..MaxEntries)

LogsTypeOK ==
    /\ journal \in Seq(Kinds) /\ Len(journal) <= MaxEntries
    /\ QueryTypeOK /\ FollowTypeOK /\ PumpTypeOK

\* A client reads one or the other; a reader of packages never ends.
InitQuery(what, pc) ==
    /\ query = [what |-> what, pc |-> pc, cursor |-> 0, format |-> "table"] /\ window = <<1, 0>>
    /\ child = NoChild /\ buf = << >> /\ pages = << >> /\ whole = FALSE
    /\ listed = [items |-> << >>, full |-> {}, of |-> 0, format |-> "table", ended |-> "ok"]

\* JournaldLogs::new: the follow task, whose spawn may fail; the pump is still to
\* be started.
InitFollow ==
    /\ follow \in {[task |-> "reads", child |-> "running", pos |-> 0],
                   [task |-> "ended", child |-> "dead", pos |-> 0]}
    /\ out = [left |-> << >>, pipe |-> << >>] /\ line = << >> /\ over = FALSE
    /\ PumpInit

LogsInit ==
    /\ journal = << >>
    /\ \E what \in {"logs", "packages"} : InitQuery(what, "idle")
    /\ InitFollow

-----------------------------------------------------------------------------
(* The journal.                                                            *)

Log(kind) ==
    /\ Len(journal) < MaxEntries
    /\ journal' = Append(journal, kind)
    /\ UNCHANGED <<queryVars, followVars, ring, pumpVars>>

\* What -n lim, with or without --after-cursor c, selects.
Selected(lim, c) ==
    LET n == Len(journal) IN
    IF c = 0 THEN <<IF n > lim THEN n - lim + 1 ELSE 1, n>>
             ELSE <<c + 1, IF n > c + lim THEN c + lim ELSE n>>

-----------------------------------------------------------------------------
(* The query's journalctl.                                                 *)

ChildWrites ==
    /\ child.state = "running" /\ child.left # << >>
    /\ child' = [child EXCEPT !.left = Tail(@), !.pipe = Append(@, Head(child.left))]
    /\ UNCHANGED <<journal, query, window, buf, pages, whole, listed, followVars, ring, pumpVars>>

\* It may close its stdout and linger, and it may fail at any time.
ChildEnds(state) ==
    /\ child.state \in Alive /\ state # child.state
    /\ state # "failed" => child.left = << >>
    /\ child' = [child EXCEPT !.state = state]
    /\ UNCHANGED <<journal, query, window, buf, pages, whole, listed, followVars, ring, pumpVars>>

-----------------------------------------------------------------------------
(* run_capped, and JournaldLogs::query on its outcome.                     *)

\* The limits of logs_query_result.
Accepted(limit) == limit \in 1..MAX_LIMIT

Spawn(limit) ==
    /\ query.what = "logs" /\ query.pc = "idle" /\ Accepted(limit)
    /\ window' = Selected(limit, query.cursor)
    /\ child' = [state |-> "running", left |-> Text(window'[1], window'[2]), pipe |-> << >>]
    /\ query' = [query EXCEPT !.pc = "read"]
    /\ buf' = << >>
    /\ UNCHANGED <<journal, pages, whole, listed, followVars, ring, pumpVars>>

\* build_list_argv: what a line is like.  A table has a line for each package, as
\* parse_list expects it; a search by apt-cache separates nothing with tabs; and
\* pacman -Ss puts a line of description below every package.
Format(kind, search, installedOnly) ==
    CASE kind = "apt" /\ search /\ ~ installedOnly -> "untabbed"
      [] kind = "pacman" /\ ~ installedOnly         -> "described"
      [] OTHER                                      -> "table"

\* RealPackageManager::list: one command, whatever page is asked for.
SpawnList ==
    /\ query.what = "packages" /\ query.pc = "idle"
    /\ \E n \in 0..Packages :
          /\ window' = <<1, n>>
          /\ child' = [state |-> "running", pipe |-> << >>,
                       left |-> FlattenSeq([k \in 1..n |-> LineOf(k, 2)])]
    /\ \E kind \in PackageKinds, search, installedOnly \in BOOLEAN :
          query' = [query EXCEPT !.pc = "read", !.format = Format(kind, search, installedOnly)]
    /\ buf' = << >>
    /\ UNCHANGED <<journal, pages, whole, listed, followVars, ring, pumpVars>>

\* Lines whose every part is there; the newline is not needed.
ParsedLines(bytes) ==
    Ascending({k \in 1..Len(journal) : /\ journal[k] # "junk"
                                       /\ Contains(bytes, <<k, Content(k)>>)})

\* parse_list, as the lines that become a package.  A line is a name with the first
\* of the version, and the rest: one torn between the two still parses.  Without
\* a tab none does; the lines of a description do as well (those of two words
\* or more, as all are here): its first word is taken for a name.
ParsedPackages(bytes, format) ==
    IF format = "untabbed" THEN << >>
    ELSE Ascending({k \in 1..Packages : Contains(bytes, <<k, 1>>)})

\* A slip: the cursor is that of the last entry of the selection.
ReplyPastWindow(bytes, ended) ==
    LET items == ParsedLines(bytes) IN
    /\ pages' = pages \o items
    /\ whole' = (ended = "ok")
    /\ query' = IF items = << >> THEN [query EXCEPT !.pc = "end"]
                ELSE [query EXCEPT !.pc = "idle", !.cursor = window[2]]
    /\ UNCHANGED listed

\* A page: its entries and, as `next`, the cursor of the last one; without any
\* entry there is no `next`, which a client takes for the end.  (MAX_LINES, at which
\* the parsing stops, is beyond the limit of a query and so of its lines.)
ReplyPage(bytes, ended) ==
    LET items == ParsedLines(bytes) IN
    /\ pages' = pages \o items
    /\ whole' = (ended = "ok")
    /\ query' = IF items = << >> THEN [query EXCEPT !.pc = "end"]
                ELSE [query EXCEPT !.pc = "idle", !.cursor = Last(items)]
    /\ UNCHANGED listed

\* The text up to and with its last newline.
WholeLines(bytes) ==
    SubSeq(bytes, 1, CHOOSE n \in 0..Len(bytes) :
                        /\ n > 0 => bytes[n][2] = 0
                        /\ \A i \in n+1..Len(bytes) : bytes[i][2] # 0)

\* A slip: of output cut at the cap, the torn line is parsed too.
ReplyListTorn(bytes, ended) ==
    /\ listed' = [items |-> ParsedPackages(bytes, query.format), of |-> window[2],
                  format |-> query.format, ended |-> ended,
                  full  |-> {k \in 1..Packages : Contains(bytes, <<k, 2>>)}]
    /\ query' = [query EXCEPT !.pc = "idle"]
    /\ UNCHANGED <<pages, whole>>

\* A list: of output cut at the cap, the trailing partial line is dropped.
ReplyList(bytes, ended) ==
    LET text == IF ended = "cut" THEN WholeLines(bytes) ELSE bytes IN
    /\ listed' = [items |-> ParsedPackages(text, query.format), of |-> window[2],
                  format |-> query.format, ended |-> ended,
                  full  |-> {k \in 1..Packages : Contains(text, <<k, 2>>)}]
    /\ query' = [query EXCEPT !.pc = "idle"]
    /\ UNCHANGED <<pages, whole>>

\* What the handler makes of output that was cut at the cap, or heard out.
AnswerQuery(bytes, ended) ==
    IF query.what = "logs" THEN ReplyPage(bytes, ended) ELSE ReplyList(bytes, ended)

\* The query fails and the client may ask again.
Fail == query' = [query EXCEPT !.pc = "idle"] /\ UNCHANGED <<pages, whole, listed>>

\* kill().await, or kill_on_drop: nothing of the child is left.
Kill == child' = NoChild

\* A chunk, up to everything in the pipe.  At the cap the child is killed.
ReadChunk ==
    LET room == MAX_OUTPUT - Len(buf) IN
    /\ query.pc = "read" /\ child.pipe # << >>
    /\ IF Len(child.pipe) > room
       THEN /\ buf' = buf \o SubSeq(child.pipe, 1, room)
            /\ Kill /\ AnswerQuery(buf', "cut")
       ELSE /\ buf' = buf \o child.pipe
            /\ child' = [child EXCEPT !.pipe = << >>]
            /\ UNCHANGED <<query, pages, whole, listed>>
    /\ UNCHANGED <<journal, window, followVars, ring, pumpVars>>

\* The end of its stdout; now the child's end is awaited.
ReadEof ==
    /\ query.pc = "read" /\ child.pipe = << >> /\ child.state # "running"
    /\ query' = [query EXCEPT !.pc = "wait"]
    /\ UNCHANGED <<journal, window, child, buf, pages, whole, listed, followVars, ring, pumpVars>>

\* A journalctl that failed without a word is an error; what it said before it
\* failed is a page like any other.  The status of a package manager is not
\* looked at.
ChildReaped ==
    /\ query.pc = "wait" /\ child.state \in {"ok", "failed"}
    /\ IF query.what = "logs" /\ child.state = "failed" /\ buf = << >> THEN Fail
       ELSE AnswerQuery(buf, child.state)
    /\ Kill
    /\ UNCHANGED <<journal, window, buf, followVars, ring, pumpVars>>

\* A slip: after the end of its stdout the child is awaited without a deadline.
DeadlineOfRead ==
    /\ query.pc = "read"
    /\ Kill /\ Fail
    /\ UNCHANGED <<journal, window, buf, followVars, ring, pumpVars>>

\* QUERY_TIMEOUT, one for the read and the wait: what was read is thrown away.
Deadline ==
    /\ query.pc \in {"read", "wait"}
    /\ Kill /\ Fail
    /\ UNCHANGED <<journal, window, buf, followVars, ring, pumpVars>>

\* A slip: the error is returned before the child is seen to.
ReadFailsAtOnce ==
    /\ query.pc \in {"read", "wait"}
    /\ Fail
    /\ UNCHANGED <<journal, window, child, buf, followVars, ring, pumpVars>>

\* An I/O error, or the calling future is dropped.
ReadFails ==
    /\ query.pc \in {"read", "wait"}
    /\ Kill /\ Fail
    /\ UNCHANGED <<journal, window, buf, followVars, ring, pumpVars>>

QuerySteps ==
    \/ (\E limit \in 0..MAX_LIMIT + 1 : Spawn(limit)) \/ SpawnList
    \/ ReadChunk \/ ReadEof \/ ChildReaped \/ Deadline \/ ReadFails

-----------------------------------------------------------------------------
(* follow_journal.                                                         *)

\* One part of the present line, or of the next entry's.
FollowWrites ==
    LET fresh == out.left = << >>
        rest  == IF fresh THEN Line(follow.pos + 1) ELSE out.left
    IN
    /\ follow.child = "running"
    /\ fresh => follow.pos < Len(journal)
    /\ out' = [left |-> Tail(rest), pipe |-> Append(out.pipe, Head(rest))]
    /\ follow' = [follow EXCEPT !.pos = IF fresh THEN @ + 1 ELSE @]
    /\ UNCHANGED <<journal, queryVars, line, over, ring, pumpVars>>

\* It may close its stdout and linger.
FollowChildEnds(state) ==
    /\ follow.child \in Alive /\ state # follow.child
    /\ follow' = [follow EXCEPT !.child = state]
    /\ UNCHANGED <<journal, queryVars, out, line, over, ring, pumpVars>>

\* The entry a line is of: the whole text of one that is JSON.
Parses(text, k) == text = Front(Line(k)) /\ journal[k] # "junk"

\* A line has ended: it is sent if it was stored in full and parses.
EndOfLine(text, truncated) ==
    /\ IF ~ truncated /\ \E k \in 1..Len(journal) : Parses(text, k)
       THEN Broadcast(CHOOSE k \in 1..Len(journal) : Parses(text, k))
       ELSE UNCHANGED ring
    /\ line' = << >> /\ over' = FALSE

\* How much text the buffer holds before its first newline, if it has one.
UptoNewline(p) ==
    CHOOSE n \in 0..Len(p) : /\ \A i \in 1..n : p[i][2] # 0
                             /\ n < Len(p) => p[n + 1][2] = 0

\* One turn of read_line_capped's loop over what the reader has buffered: the
\* text up to the newline is stored as far as there is room; what is consumed
\* is `used` parts.
LineTurn(room, upto, used) ==
    LET take == IF over THEN 0 ELSE IF room < upto THEN room ELSE upto
        text == line \o SubSeq(out.pipe, 1, take)
        cut  == over \/ take < upto
    IN  /\ IF upto < Len(out.pipe) THEN EndOfLine(text, cut)
           ELSE line' = text /\ over' = cut /\ UNCHANGED ring
        /\ out' = [out EXCEPT !.pipe = SubSeq(@, used + 1, Len(@))]

\* A slip: the tail of an overlong line is discarded with the whole buffer.
ReadLineDrains ==
    LET upto == UptoNewline(out.pipe)
        room == MAX_FOLLOW_LINE - Len(line)
    IN
    /\ follow.task = "reads" /\ out.pipe # << >>
    /\ LineTurn(room, upto, IF over \/ room < upto THEN Len(out.pipe) ELSE upto + 1)
    /\ UNCHANGED <<journal, queryVars, follow, pumpVars>>

ReadLine ==
    LET upto == UptoNewline(out.pipe) IN
    /\ follow.task = "reads" /\ out.pipe # << >>
    /\ LineTurn(MAX_FOLLOW_LINE - Len(line), upto, upto + 1)
    /\ UNCHANGED <<journal, queryVars, follow, pumpVars>>

\* The pipe's end, whether its writer has died or only closed it: a pending line
\* without its newline is still a line; after it the task ends, with it by
\* kill_on_drop the child, and nothing starts them again.
ReadLineEof ==
    /\ follow.task = "reads" /\ out.pipe = << >> /\ follow.child # "running"
    /\ IF line # << >> \/ over THEN EndOfLine(line, over) /\ UNCHANGED follow
       ELSE /\ follow' = [follow EXCEPT !.task = "ended", !.child = "dead"]
            /\ UNCHANGED <<line, over, ring>>
    /\ UNCHANGED <<journal, queryVars, out, pumpVars>>

\* A read error, or the provider is dropped and its task aborted: the child
\* is killed with the task.
FollowStops ==
    /\ follow.task = "reads"
    /\ follow' = [follow EXCEPT !.task = "ended", !.child = "dead"]
    /\ UNCHANGED <<journal, queryVars, out, line, over, ring, pumpVars>>

Follow ==
    \/ FollowWrites \/ (\E s \in {"closed", "dead"} : FollowChildEnds(s))
    \/ ReadLine \/ ReadLineEof \/ FollowStops

\* SeqCounter::next: one counter for the metrics, jobs and logs topics.
TakeNumber ==
    /\ pump.seq < Len(feed) + MaxOthers
    /\ pump' = [pump EXCEPT !.seq = @ + 1]
    /\ UNCHANGED <<journal, queryVars, followVars, ring, feed, skipped>>

\* A tick whose sample can be read; without one no number is taken.
MetricsPump == TakeNumber

\* A job's status is forwarded.
JobsPump == TakeNumber

\* logs_pump::run: the counter is handed in, shared, and outlives a panic.
LogsPump ==
    /\ Forward \/ SkipLagged \/ PumpStarts(pump.seq)
    /\ UNCHANGED <<journal, queryVars, followVars>>

LogsPumpPanics == PumpPanics /\ UNCHANGED <<journal, queryVars, followVars>>

LogsFinished == query.pc = "end" /\ follow.task = "ended" /\ UNCHANGED logsVars

LogsNext ==
    \/ \E kind \in Kinds : Log(kind)
    \/ ChildWrites \/ (\E s \in {"closed", "ok", "failed"} : ChildEnds(s))
    \/ QuerySteps
    \/ Follow
    \/ LogsPump \/ LogsPumpPanics \/ MetricsPump \/ JobsPump
    \/ LogsFinished

LogsSpec == LogsInit /\ [][LogsNext]_logsVars

\* Only the timer of run_capped is relied on: journalctl may hang.
LogsFairness == WF_logsVars(Deadline)

LogsFairSpec == LogsSpec /\ LogsFairness

-----------------------------------------------------------------------------
(* Properties.                                                             *)

\* Paging misses nothing and repeats nothing, whatever the cap, a failing
\* journalctl, errors and retries do: between the first and the last entry the
\* client has received lie exactly those it has received, in order.  And when a
\* page without `next` came from a journalctl that was heard out, there was no
\* entry to tell.
PagingSkipsNothing ==
    /\ \A i \in 1..Len(pages) - 1 : pages[i] < pages[i + 1]
    /\ \A i \in 1..Len(pages) - 1 : \A k \in pages[i] + 1 .. pages[i+1] - 1 : journal[k] = "junk"
    /\ query.pc = "end" /\ whole => \A k \in window[1]..window[2] : journal[k] = "junk"

\* Only a package manager that fails in the middle of a line makes the list name
\* a package from a line it did not tell in full.  One that is heard out is told
\* whole if its lines are those of a table: then the packages of the list are its
\* lines, each once and in order.  (Of a search by apt-cache the list is empty, and
\* that of pacman -Ss names packages after descriptions.)
ListTellsTruth ==
    /\ listed.ended # "failed" => ToSet(listed.items) \subseteq listed.full
    /\ listed.ended = "ok" /\ listed.format = "table" =>
         listed.items = [k \in 1..listed.of |-> k]

\* The pages of the journal are what journalctl had to say, and the tables of a
\* package manager what it had.
AnswersAreWhole == PagingSkipsNothing /\ ListTellsTruth

\* No journalctl outlives its reader: neither a query that has returned, in
\* whichever way, nor the follow task.
NoChildLeft ==
    /\ LogsTypeOK
    /\ query.pc \in {"idle", "end"} => child.state = "none"
    /\ follow.task = "ended" => follow.child = "dead"

\* Of the first n entries of the journal, those the topic is to tell.
Wanted(n) == {k \in 1..n : journal[k] # "junk" /\ Content(k) <= MAX_FOLLOW_LINE}

\* The topic tells the entries of the journal that are JSON and not overlong,
\* in order, each once and none before its line is complete: an overlong line
\* swallows none of its neighbours, wherever the reads cut the text.  Numbers
\* grow across panics of the pump, with gaps where other topics took theirs.
FollowInOrder ==
    /\ InOrder(ring) /\ \E n \in 0..follow.pos : ToSet(ring) = Wanted(n)
    /\ follow.task = "reads" /\ out = [left |-> << >>, pipe |-> << >>] =>
         ToSet(ring) = Wanted(follow.pos)
    /\ ForwardsInOrder
    /\ \A i \in 1..Len(feed) - 1 : feed[i].seq < feed[i + 1].seq

\* A query returns although journalctl may write, linger or hang for ever.
QueryReturns == query.pc \in {"read", "wait"} ~> query.pc \in {"idle", "end"}
=============================================================================
