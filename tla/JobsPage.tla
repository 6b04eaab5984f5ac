------------------------------ MODULE JobsPage ------------------------------
(***************************************************************************)
(* The page that lists a user's jobs: the refresh that counts and reads    *)
(* them while they go on, and the filter, the pages and the error window   *)
(* over what was read.                                                     *)
(*                                                                         *)
(* The server's part of a refresh is cut where the jobs may go on: at the  *)
(* arrival of the request, between its two queries and before its answer.  *)
(***************************************************************************)
EXTENDS Integers, Sequences, FiniteSets, SequencesExt, Lists

CONSTANTS
    MaxJobs,    \* a bound on the jobs submitted
    Limit,      \* the jobs that are listed, 100 in the code
    PageSizes,
    Outcomes,   \* the statuses in which jobs end
    Filters,    \* the filters that are pressed
    Searches,   \* for each text a user types, the jobs whose token contains it
    Durations,  \* durations, in ms
    None

Ended  == {"completed", "error", "timeout", "cancelled"}
Status == {"queued", "processing"} \cup Ended

\* The statuses that are counted.
StatusOrder == Status \ {"cancelled"}

VARIABLES
    jobs,       \* the rows of analysis_jobs, in the order of their creation
    stage,      \* where the refresh is: idle, asked, counted, read, lost
    seen,       \* the jobs as they were counted
    answer,     \* what the server answers
    stats, loading, filter, search, page, rowsPerPage,
    expandedError

server == <<seen, answer>>
list   == <<filter, search, rowsPerPage>>
vars   == <<jobs, stage, server, stats, loading, list, page, expandedError>>

-----------------------------------------------------------------------------
(* getStats *)

Count(js, s) == Cardinality({j \in DOMAIN js : js[j] = s})

Summary(js) == [total |-> Len(js), counts |-> [s \in StatusOrder |-> Count(js, s)]]

\* The newest jobs come first.
RecentJobs(js) ==
    LET rows == Reverse([j \in DOMAIN js |-> [id |-> j, status |-> js[j]]])
    IN  SubSeq(rows, 1, IF Len(rows) > Limit THEN Limit ELSE Len(rows))

\* Mutant: the list is read before the jobs are counted.
ListedFirst(first, second) ==
    [summary |-> Summary(second), recentJobs |-> RecentJobs(first)]

\* The counts are of the first query, the list is of the second.
Report(first, second) ==
    [summary |-> Summary(first), recentJobs |-> RecentJobs(second)]

-----------------------------------------------------------------------------
(* What the page derives *)

FilteredJobs ==
    IF stats = None THEN <<>>
    ELSE Selection(stats.recentJobs, {j \in ToSet(stats.recentJobs) :
             (filter # "all" => j.status = filter) /\ j.id \in search})

TotalPages ==
    IF FilteredJobs = <<>> THEN 1
    ELSE (Len(FilteredJobs) + rowsPerPage - 1) \div rowsPerPage

\* Mutant: the page is taken as it was set.
UnclampedPage == page

CurrentPage == IF page > TotalPages THEN TotalPages ELSE page

PageJobs ==
    SubSeq(FilteredJobs, (CurrentPage - 1) * rowsPerPage + 1,
           IF CurrentPage * rowsPerPage > Len(FilteredJobs) THEN Len(FilteredJobs)
           ELSE CurrentPage * rowsPerPage)

\* Mutant: the minutes are rounded too.
RoundedMinutes(ms) ==
    LET minutes   == (ms + 30000) \div 60000
        remaining == ((ms % 60000) + 500) \div 1000
    IN  IF ms < 60000 THEN (ms + 50) \div 100 ELSE 600 * minutes + 10 * remaining

\* formatDuration, from a second on, as the tenths of a second that its label
\* says: toFixed and round round half up.
FormatDuration(ms) ==
    IF ms < 60000 THEN (ms + 50) \div 100
    ELSE LET minutes   == ms \div 60000
             remaining == ((ms % 60000) + 500) \div 1000
         IN  600 * minutes + 10 * remaining

Init ==
    /\ jobs = <<>>
    /\ stage = "asked" /\ loading = TRUE     \* the effect of the first render
    /\ seen = <<>> /\ answer = None /\ stats = None
    /\ filter = "all" /\ search = 1..MaxJobs
    /\ page = 1 /\ rowsPerPage \in PageSizes
    /\ expandedError = None

-----------------------------------------------------------------------------
(* The jobs, which the API writes *)

Submit ==
    /\ Len(jobs) < MaxJobs
    /\ jobs' = Append(jobs, "queued")
    /\ UNCHANGED <<stage, server, stats, loading, list, page, expandedError>>

GoOn(j) ==
    /\ jobs[j] \notin Ended
    /\ \E s \in {"processing"} \cup Outcomes :
           s # jobs[j] /\ jobs' = [jobs EXCEPT ![j] = s]
    /\ UNCHANGED <<stage, server, stats, loading, list, page, expandedError>>

-----------------------------------------------------------------------------
(* A refresh *)

CountJobs ==
    /\ stage = "asked"
    /\ stage' = "counted" /\ seen' = jobs
    /\ UNCHANGED <<jobs, answer, stats, loading, list, page, expandedError>>

ReadRecent ==
    /\ stage = "counted"
    /\ stage' = "read" /\ answer' = Report(seen, jobs)
    /\ seen' = <<>>
    /\ UNCHANGED <<jobs, stats, loading, list, page, expandedError>>

Answer ==
    /\ stage = "read"
    /\ stage' = "idle" /\ answer' = None
    /\ stats' = answer /\ loading' = FALSE
    /\ UNCHANGED <<jobs, seen, list, page, expandedError>>

\* Mutant: loading ends with the answer only.
RefuseQuietly ==
    /\ stage = "asked"
    /\ stage' = "idle"
    /\ UNCHANGED <<jobs, server, stats, loading, list, page, expandedError>>

\* The session is over, or a query failed: result.ok is false.
Refuse ==
    /\ stage \in {"asked", "counted"}
    /\ stage' = "idle" /\ seen' = <<>>
    /\ loading' = FALSE
    /\ UNCHANGED <<jobs, answer, stats, list, page, expandedError>>

\* The call of the server action itself fails, and nothing catches it.
Lose ==
    /\ stage \in {"asked", "counted", "read"}
    /\ stage' = "lost" /\ seen' = <<>> /\ answer' = None
    /\ UNCHANGED <<jobs, stats, loading, list, page, expandedError>>

RefreshStats ==
    /\ ~loading
    /\ stage' = "asked" /\ loading' = TRUE
    /\ UNCHANGED <<jobs, server, stats, list, page, expandedError>>

-----------------------------------------------------------------------------
(* The list.  The effect on filter, search and rows turns to the first page. *)

Arrange(f, s, n) ==
    /\ filter' = f /\ search' = s /\ rowsPerPage' = n
    /\ page' = IF list' = list THEN page ELSE 1
    /\ UNCHANGED <<jobs, stage, server, stats, loading, expandedError>>

HandleFilter(key)    == Arrange(key, 1..MaxJobs, rowsPerPage)
Search(text)         == Arrange(filter, text, rowsPerPage)
ChangeRowsPerPage(n) == Arrange(filter, search, n)

Turn(to) ==
    /\ page' = to
    /\ UNCHANGED <<jobs, stage, server, stats, loading, list, expandedError>>

PreviousPage == CurrentPage > 1 /\ Turn(IF page > 1 THEN page - 1 ELSE 1)
NextPage ==
    CurrentPage < TotalPages /\ Turn(IF page < TotalPages THEN page + 1 ELSE TotalPages)

\* The duration is of the times that are recorded: any, or none.
ShowError(job) ==
    /\ job.status \in {"error", "timeout"}
    /\ \E d \in Durations : expandedError' = [job |-> job, took |-> d]
    /\ UNCHANGED <<jobs, stage, server, stats, loading, list, page>>

CloseError ==
    /\ expandedError # None
    /\ expandedError' = None
    /\ UNCHANGED <<jobs, stage, server, stats, loading, list, page>>

Next ==
    \/ Submit \/ \E j \in DOMAIN jobs : GoOn(j)
    \/ CountJobs \/ ReadRecent \/ Answer \/ Refuse \/ Lose \/ RefreshStats
    \/ \E f \in Filters : HandleFilter(f)
    \/ \E s \in Searches : Search(s)
    \/ \E n \in PageSizes : ChangeRowsPerPage(n)
    \/ PreviousPage \/ NextPage
    \/ \E i \in DOMAIN PageJobs : ShowError(PageJobs[i])
    \/ CloseError

\* The server answers, unless the call is lost.
Fairness == WF_vars(CountJobs) /\ WF_vars(ReadRecent) /\ WF_vars(Answer)

Spec == Init /\ [][Next]_vars /\ Fairness

-----------------------------------------------------------------------------
(* Properties *)

\* The two queries of a refresh see the jobs at different times, but the
\* numbers at the top are never ahead of the list below: no job is counted, or
\* counted as ended, that the list does not show so.
CountsAreNotAhead ==
    stats # None /\ Len(stats.recentJobs) < Limit =>
        /\ stats.summary.total <= Len(stats.recentJobs)
        /\ \A s \in Ended \cap StatusOrder :
               stats.summary.counts[s]
                   <= Cardinality({i \in DOMAIN stats.recentJobs :
                                       stats.recentJobs[i].status = s})

\* The list may shrink under the page, which then still has rows.
PageHasRows == FilteredJobs # <<>> => PageJobs # <<>>

\* A refresh that is answered, refused or not, ends; only one that is lost
\* leaves the page loading.
LoadingEnds == loading ~> (~loading \/ stage = "lost")

\* The label of the duration of a job whose error is shown is right up to half
\* a second, also where it turns from seconds to minutes.
LabelIsClose ==
    expandedError # None =>
        FormatDuration(expandedError.took) * 100 - expandedError.took \in -500..500

\* What the page shows of the jobs fits together.
JobsInv == CountsAreNotAhead /\ PageHasRows /\ LabelIsClose

=============================================================================
