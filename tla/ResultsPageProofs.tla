------------------------- MODULE ResultsPageProofs --------------------------
(***************************************************************************)
(* Proofs about the results page of a job: its status, for any number of   *)
(* polls on their way, any events, reloads and faults; the file, the       *)
(* picker and the view of its rows, for any rows, columns and filters; the *)
(* decision trees of the risk overview, for any plots and any answers.     *)
(***************************************************************************)
EXTENDS ResultsDisplay, ListsProofs, FiniteSetTheorems, TLAPS

LEMMA InitPageInv == Init => PageInv
<1> SUFFICES ASSUME Init PROVE PageInv
  OBVIOUS
<1>1. TypeOK
  <2>1. events \in Seq(Code)
    BY DEF Init
  <2>2. rows \in Nat
    BY DEF Init
  <2>3. job \in Running \cup Terminal
    BY DEF Init, Terminal
  <2>4. poll \in [Poll -> {"free", "asked"} \cup Code]
    BY DEF Init
  <2>5. reloads \in 0..MaxReloads
    BY PageAssumption DEF Init
  <2> QED
    BY <2>1, <2>2, <2>3, <2>4, <2>5 DEF Init, TypeOK
<1>2. OneSource /\ CompletedIsTaken
  BY DEF Init, OneSource, CompletedIsTaken
<1> QED
  BY <1>1, <1>2 DEF PageInv

\* What the API answers is a code, and what is recorded is sent down the stream.
LEMMA Answers ==
  ASSUME TypeOK
  PROVE  /\ PollAnswer \in Code
         /\ \A s \in Running \cup Terminal : StreamAnswer(s) \in Code
  BY DEF TypeOK, PollAnswer, StreamAnswer, Code, Running, Terminal

LEMMA RecordType ==
  ASSUME TypeOK, NEW s \in Running \cup Terminal, Record(s)
  PROVE  job' \in Running \cup Terminal /\ events' \in Seq(Code)
<1>1. StreamAnswer(s) \in Code
  BY Answers
<1>2. Append(events, StreamAnswer(s)) \in Seq(Code)
  BY <1>1 DEF TypeOK
<1> QED
  BY <1>2 DEF TypeOK, Record

\* Hearing an answer, from the stream or of a poll.
LEMMA HearKeeps ==
  ASSUME TypeOK, CompletedIsTaken, NEW code \in Code, Hear(code)
  PROVE  /\ response' \in Code /\ completed' \in BOOLEAN /\ rows' \in Nat
         /\ CompletedIsTaken'
         /\ completed => rows' = rows
<1>1. CASE code \in {"completed", "bare"}
  BY <1>1 DEF TypeOK, CompletedIsTaken, Hear, Keep, TakeData
<1>2. CASE code \notin {"completed", "bare"}
  BY <1>2 DEF TypeOK, CompletedIsTaken, Hear, Keep, TakeData
<1> QED
  BY <1>1, <1>2

-----------------------------------------------------------------------------

LEMMA StreamStep ==
  ASSUME PageInv, StreamNext PROVE PageInv'
<1>1. CASE StreamOpens
  <2>1. <<StreamAnswer(job)>> \in Seq(Code)
    <3>1. StreamAnswer(job) \in Code
      BY Answers DEF PageInv, TypeOK
    <3> QED
      BY <3>1
  <2> QED
    BY <1>1, <2>1 DEF StreamOpens, PageInv, TypeOK, OneSource, CompletedIsTaken,
                      apiVars, pollVars
<1>2. ASSUME GiveUp PROVE PageInv'
  <2>1. <<>> \in Seq(Code)
    OBVIOUS
  <2> QED
    BY <1>2, <2>1 DEF GiveUp, PageInv, TypeOK, OneSource, CompletedIsTaken,
                      apiVars, pollVars
<1>3. ASSUME FallBack PROVE PageInv'
  <2>1. <<>> \in Seq(Code)
    OBVIOUS
  <2>2. PICK p \in Poll : poll' = [poll EXCEPT ![p] = "asked"]
    BY <1>3 DEF FallBack
  <2>3. poll' \in [Poll -> {"free", "asked"} \cup Code]
    BY <2>2 DEF PageInv, TypeOK
  <2> QED
    BY <1>3, <2>1, <2>3 DEF FallBack, PageInv, TypeOK, OneSource, CompletedIsTaken,
                            apiVars
<1>4. CASE ReadEvent
  <2>1. Head(events) \in Code /\ Tail(events) \in Seq(Code)
    BY <1>4 DEF ReadEvent, PageInv, TypeOK
  <2>2. Hear(Head(events))
    BY <1>4 DEF ReadEvent
  <2>3. /\ response' \in Code /\ completed' \in BOOLEAN /\ rows' \in Nat
        /\ CompletedIsTaken'
    BY <2>1, <2>2, HearKeeps DEF PageInv
  <2>4. /\ events' = Tail(events) /\ conn = "reading" /\ conn' \in {"reading", "over"}
        /\ UNCHANGED <<job, readable, page, fallback, timer, poll, cancel, reloads>>
    BY <1>4 DEF ReadEvent, apiVars, pollVars
  <2>5. TypeOK'
    BY <2>1, <2>3, <2>4 DEF PageInv, TypeOK
  <2>6. OneSource'
    BY <2>4 DEF PageInv, OneSource
  <2> QED
    BY <2>3, <2>5, <2>6 DEF PageInv
<1> QED
  BY <1>1, <1>2, <1>3, <1>4 DEF StreamNext, StreamRefused, StreamBreaks, StreamTimesOut,
                                StreamCloses

LEMMA PollStep ==
  ASSUME PageInv, NEW p \in Poll, PollNext(p) PROVE PageInv'
<1>1. CASE Tick(p)
  <2>1. poll' \in [Poll -> {"free", "asked"} \cup Code]
    BY <1>1 DEF Tick, PageInv, TypeOK
  <2> QED
    BY <1>1, <2>1 DEF Tick, PageInv, TypeOK, OneSource, CompletedIsTaken,
                      apiVars, streamVars
<1>2. ASSUME NEW code \in Code \cup {"free"}, Answered(p, code) PROVE PageInv'
  <2>1. poll' \in [Poll -> {"free", "asked"} \cup Code]
    BY <1>2 DEF Answered, PageInv, TypeOK
  <2>2. fallback
    BY <1>2 DEF Answered, PageInv, OneSource
  <2> QED
    BY <1>2, <2>1, <2>2 DEF Answered, PageInv, TypeOK, OneSource, CompletedIsTaken,
                            apiVars, streamVars
<1>3. CASE HearPoll(p)
  <2>1. /\ response' \in Code /\ completed' \in BOOLEAN /\ rows' \in Nat
        /\ CompletedIsTaken'
    BY <1>3, HearKeeps DEF HearPoll, PageInv
  <2>2. /\ poll' = [poll EXCEPT ![p] = "free"]
        /\ timer' \in BOOLEAN /\ (timer' => timer)
        /\ UNCHANGED <<job, readable, page, conn, events, fallback, cancel, reloads>>
    BY <1>3 DEF HearPoll, PageInv, TypeOK, apiVars, streamVars
  <2>3. TypeOK'
    BY <2>1, <2>2 DEF PageInv, TypeOK
  <2>4. OneSource'
    BY <2>2 DEF PageInv, TypeOK, OneSource
  <2> QED
    BY <2>1, <2>3, <2>4 DEF PageInv
<1>4. AnswerPoll(p) => \E code \in Code \cup {"free"} : Answered(p, code)
  BY Answers DEF AnswerPoll, PageInv
<1>5. RefusePoll(p) \/ LosePoll(p) => \E code \in Code \cup {"free"} : Answered(p, code)
  BY DEF RefusePoll, LosePoll, Code
<1> QED
  BY <1>1, <1>2, <1>3, <1>4, <1>5 DEF PollNext

\* The page is left: its source is gone.
LEMMA UnmountStep ==
  ASSUME PageInv, Unmount, cancel' \in {"idle", "asked", "answered", "done"},
         UNCHANGED <<job, readable, fallback, response, completed, rows, reloads>>
  PROVE  PageInv'
<1>1. <<>> \in Seq(Code)
  OBVIOUS
<1>2. poll' \in [Poll -> {"free", "asked"} \cup Code] /\ \A p \in Poll : poll'[p] = "free"
  BY DEF Unmount
<1> QED
  BY <1>1, <1>2 DEF Unmount, PageInv, TypeOK, OneSource, CompletedIsTaken

LEMMA CancelStep ==
  ASSUME PageInv, CancelNext PROVE PageInv'
<1>1. CASE PressCancel
  BY <1>1 DEF PressCancel, PageInv, TypeOK, OneSource, CompletedIsTaken,
              apiVars, streamVars, pollVars
<1>2. CASE CancelReaches
  <2>1. job' \in Running \cup Terminal /\ events' \in Seq(Code)
    BY <1>2, RecordType DEF CancelReaches, PageInv, TypeOK, Terminal
  <2> QED
    BY <1>2, <2>1 DEF CancelReaches, PageInv, TypeOK, OneSource, CompletedIsTaken, pollVars
<1>3. CASE CancelRefused
  BY <1>3 DEF CancelRefused, PageInv, TypeOK, OneSource, CompletedIsTaken,
              apiVars, streamVars, pollVars
<1>4. CASE CancelGoesHome
  BY <1>4, UnmountStep DEF CancelGoesHome, apiVars
<1>5. CASE CancelLost
  BY <1>5 DEF CancelLost, PageInv, TypeOK, OneSource, CompletedIsTaken,
              apiVars, streamVars, pollVars
<1> QED
  BY <1>1, <1>2, <1>3, <1>4, <1>5 DEF CancelNext

LEMMA NextPageInv == PageInv /\ [Next]_vars => PageInv'
<1> SUFFICES ASSUME PageInv, [Next]_vars PROVE PageInv'
  OBVIOUS
<1>1. ASSUME NEW s \in Code, Advance(s) PROVE PageInv'
  <2>1. job' \in Running \cup Terminal /\ events' \in Seq(Code)
    BY <1>1, RecordType DEF Advance, PageInv, Running
  <2> QED
    BY <1>1, <2>1 DEF Advance, PageInv, TypeOK, OneSource, CompletedIsTaken, pollVars
<1>2. CASE ExpireResult
  BY <1>2 DEF ExpireResult, PageInv, TypeOK, OneSource, CompletedIsTaken,
              streamVars, pollVars
<1>3. CASE Reload
  <2>1. <<>> \in Seq(Code)
    OBVIOUS
  <2>2. poll' \in [Poll -> {"free", "asked"} \cup Code] /\ \A p \in Poll : poll'[p] = "free"
    BY <1>3 DEF Reload
  <2>3. reloads' \in 0..MaxReloads
    BY <1>3, PageAssumption DEF Reload, PageInv, TypeOK
  <2> QED
    BY <1>3, <2>1, <2>2, <2>3 DEF Reload, PageInv, TypeOK, OneSource, CompletedIsTaken, apiVars
<1>4. CASE Leave
  BY <1>4, UnmountStep DEF Leave, apiVars, PageInv, TypeOK
<1>5. CASE StreamNext
  BY <1>5, StreamStep
<1>6. CASE CancelNext
  BY <1>6, CancelStep
<1>7. ASSUME NEW p \in Poll, PollNext(p) PROVE PageInv'
  BY <1>7, PollStep
<1>8. CASE UNCHANGED vars
  BY <1>8 DEF vars, apiVars, streamVars, pollVars, PageInv, TypeOK, OneSource, CompletedIsTaken
<1> QED
  BY <1>1, <1>2, <1>3, <1>4, <1>5, <1>6, <1>7, <1>8 DEF Next

\* The page listens to one source at a time, and the data of a completed answer
\* are taken with it.
THEOREM PageInvHolds == Spec => []PageInv
  BY InitPageInv, NextPageInv, PTL DEF Spec

\* A table on display gets no new rows, whatever the stream and the polls still say:
\* only a reload of the page takes them away.
THEOREM RowsStayHolds == Spec => RowsStay
<1>1. ASSUME PageInv, [Next]_vars, View = "table", response' # "none"
      PROVE  rows' = rows
  <2>1. completed
    BY <1>1 DEF View, PageInv, TypeOK, CompletedIsTaken, Code, Running, Terminal
  <2>2. ASSUME StreamNext PROVE rows' = rows
    <3>1. CASE ReadEvent
      <4>1. Head(events) \in Code /\ Hear(Head(events))
        BY <3>1, <1>1 DEF ReadEvent, PageInv, TypeOK
      <4> QED
        BY <4>1, <2>1, <1>1, HearKeeps DEF PageInv
    <3>2. CASE ~ReadEvent
      BY <2>2, <3>2 DEF StreamNext, StreamOpens, StreamRefused, StreamBreaks,
                        StreamTimesOut, StreamCloses, GiveUp, FallBack
    <3> QED
      BY <3>1, <3>2
  <2>3. ASSUME NEW p \in Poll, PollNext(p) PROVE rows' = rows
    <3>1. CASE HearPoll(p)
      BY <3>1, <2>1, <1>1, HearKeeps DEF HearPoll, PageInv
    <3>2. CASE ~HearPoll(p)
      BY <2>3, <3>2 DEF PollNext, Tick, AnswerPoll, RefusePoll, LosePoll, Answered
    <3> QED
      BY <3>1, <3>2
  <2>4. ASSUME CancelNext PROVE rows' = rows
    BY <2>4 DEF CancelNext, PressCancel, CancelReaches, CancelRefused, CancelGoesHome,
                CancelLost
  <2> QED
    BY <1>1, <2>2, <2>3, <2>4 DEF Next, Advance, ExpireResult, Reload, Leave, vars
<1>2. PageInv /\ [Next]_vars => [View = "table" /\ response' # "none" => rows' = rows]_vars
  BY <1>1
<1> QED
  BY <1>2, PageInvHolds, PTL DEF Spec, RowsStay

-----------------------------------------------------------------------------
(* The cancel button *)

AnsweredMeansOver == cancel \in {"answered", "done"} => job \in Terminal

LEMMA NextAnswered ==
  ASSUME "refuse" \notin Faults, PageInv, AnsweredMeansOver, [Next]_vars
  PROVE  AnsweredMeansOver'
<1>1. ASSUME NEW s \in Code, Advance(s) PROVE AnsweredMeansOver'
  BY <1>1 DEF Advance, AnsweredMeansOver, Record, Running, Terminal
<1>2. CASE CancelNext
  <2>1. CASE CancelReaches
    BY <2>1 DEF CancelReaches, AnsweredMeansOver, Record, PageInv, TypeOK, Terminal
  <2>2. CASE ~CancelReaches
    BY <1>2, <2>2 DEF CancelNext, PressCancel, CancelRefused, CancelGoesHome, CancelLost,
                      AnsweredMeansOver, apiVars
  <2> QED
    BY <2>1, <2>2
<1>3. CASE StreamNext
  BY <1>3 DEF StreamNext, StreamOpens, StreamRefused, StreamBreaks, StreamTimesOut,
              StreamCloses, GiveUp, FallBack, ReadEvent, AnsweredMeansOver, apiVars
<1>4. ASSUME NEW p \in Poll, PollNext(p) PROVE AnsweredMeansOver'
  BY <1>4 DEF PollNext, Tick, AnswerPoll, RefusePoll, LosePoll, Answered, HearPoll,
              AnsweredMeansOver, apiVars
<1>5. CASE ExpireResult \/ Reload \/ Leave \/ UNCHANGED vars
  BY <1>5 DEF ExpireResult, Reload, Leave, vars, AnsweredMeansOver, apiVars
<1> QED
  BY <1>1, <1>2, <1>3, <1>4, <1>5 DEF Next

\* Whoever the cancel button sends home leaves a job that is over, as long as the API
\* does not refuse: then the answer of the button is that of a cancellation that was
\* carried out, or that came after the end.
THEOREM HomeMeansOverHolds ==
  ASSUME "refuse" \notin Faults
  PROVE  Spec => []HomeMeansOver
<1>1. Init => AnsweredMeansOver
  BY DEF Init, AnsweredMeansOver
<1>2. AnsweredMeansOver /\ PageInv /\ [Next]_vars => AnsweredMeansOver'
  BY NextAnswered
<1>3. AnsweredMeansOver => HomeMeansOver
  BY DEF AnsweredMeansOver, HomeMeansOver
<1> QED
  BY <1>1, <1>2, <1>3, PageInvHolds, PTL DEF Spec

-----------------------------------------------------------------------------
(* One poll at a time *)

\* Nothing is left that could take a result back: the stream is over, or the polls.
NothingFollows ==
    response \in {"completed", "bare"} =>
        conn = "over" /\ ~timer /\ \A p \in Poll : poll[p] = "free"

\* Of a poll, no answer says completed without its data.
PollsAreWhole == \A p \in Poll : poll[p] # "bare"

LEMMA NextNothingFollows ==
  ASSUME \A p, q \in Poll : p = q,
         PageInv, NothingFollows, PollsAreWhole, [Next]_vars
  PROVE  /\ NothingFollows' /\ PollsAreWhole'
         /\ response \in {"completed", "bare"} /\ response' # "none" => response' = response
<1> DEFINE Goal ==
      /\ NothingFollows' /\ PollsAreWhole'
      /\ response \in {"completed", "bare"} /\ response' # "none" => response' = response
<1>1. ASSUME StreamNext PROVE Goal
  <2>1. conn # "over" /\ ~fallback /\ ~timer /\ \A p \in Poll : poll[p] = "free"
    BY <1>1 DEF StreamNext, StreamOpens, StreamRefused, StreamBreaks, StreamTimesOut,
                StreamCloses, ReadEvent, PageInv, OneSource
  <2>2. response \notin {"completed", "bare"}
    BY <2>1 DEF NothingFollows
  <2>3. CASE ReadEvent
    BY <2>1, <2>2, <2>3 DEF ReadEvent, NothingFollows, PollsAreWhole, Hear, Keep,
                            Running, pollVars
  <2>4. CASE StreamOpens \/ GiveUp
    BY <2>2, <2>4 DEF StreamOpens, GiveUp, NothingFollows, PollsAreWhole, pollVars
  <2>5. CASE FallBack
    <3>1. PICK p \in Poll : poll' = [poll EXCEPT ![p] = "asked"]
      BY <2>5 DEF FallBack
    <3>2. PollsAreWhole'
      BY <3>1 DEF PollsAreWhole, PageInv, TypeOK
    <3> QED
      BY <2>2, <2>5, <3>2 DEF FallBack, NothingFollows
  <2> QED
    BY <1>1, <2>3, <2>4, <2>5 DEF StreamNext, StreamRefused, StreamBreaks,
                                  StreamTimesOut, StreamCloses
<1>2. ASSUME NEW p \in Poll, PollNext(p) PROVE Goal
  <2>1. CASE HearPoll(p)
    <3>1. response \notin {"completed", "bare"}
      BY <2>1 DEF HearPoll, NothingFollows, Code, Running, Terminal
    <3>2. conn = "over"
      BY <2>1 DEF HearPoll, PageInv, OneSource, Code, Running, Terminal
    <3>3. response' = poll[p] /\ poll[p] # "bare"
      BY <2>1 DEF HearPoll, Hear, Keep, PollsAreWhole
    <3>4. poll' = [poll EXCEPT ![p] = "free"] /\ conn' = conn
      BY <2>1 DEF HearPoll, streamVars
    <3>5. \A q \in Poll : poll'[q] = "free"
      BY <3>4 DEF PageInv, TypeOK
    <3>6. poll[p] = "completed" => ~timer'
      BY <2>1 DEF HearPoll, Stops, Terminal
    <3> QED
      BY <3>1, <3>2, <3>3, <3>4, <3>5, <3>6 DEF NothingFollows, PollsAreWhole
  <2>2. CASE Tick(p)
    <3>1. response \notin {"completed", "bare"} /\ response' = response
      BY <2>2 DEF Tick, NothingFollows
    <3>2. PollsAreWhole'
      BY <2>2 DEF Tick, PollsAreWhole, PageInv, TypeOK
    <3> QED
      BY <3>1, <3>2 DEF NothingFollows
  <2>3. ASSUME NEW code \in (Code \cup {"free"}) \ {"bare"}, Answered(p, code) PROVE Goal
    <3>1. response \notin {"completed", "bare"} /\ response' = response
      BY <2>3 DEF Answered, NothingFollows
    <3>2. PollsAreWhole'
      BY <2>3 DEF Answered, PollsAreWhole, PageInv, TypeOK
    <3> QED
      BY <3>1, <3>2 DEF NothingFollows
  <2>4. PollAnswer \in Code \ {"bare"}
    BY DEF PollAnswer, PageInv, TypeOK, Code, Running, Terminal
  <2>5. {"refused", "free"} \subseteq (Code \cup {"free"}) \ {"bare"}
    BY DEF Code
  <2> QED
    BY <1>2, <2>1, <2>2, <2>3, <2>4, <2>5 DEF PollNext, AnswerPoll, RefusePoll, LosePoll
<1>3. ASSUME Unmount, UNCHANGED response PROVE Goal
  BY <1>3 DEF Unmount, NothingFollows, PollsAreWhole
<1>4. CASE CancelNext
  <2>1. CASE CancelGoesHome
    BY <2>1, <1>3 DEF CancelGoesHome
  <2>2. CASE ~CancelGoesHome
    BY <1>4, <2>2 DEF CancelNext, PressCancel, CancelReaches, CancelRefused, CancelLost,
                      streamVars, pollVars, NothingFollows, PollsAreWhole
  <2> QED
    BY <2>1, <2>2
<1>5. CASE Leave
  BY <1>5, <1>3 DEF Leave
<1>6. CASE Reload
  BY <1>6 DEF Reload, NothingFollows, PollsAreWhole
<1>7. ASSUME NEW s \in Code, Advance(s) PROVE Goal
  BY <1>7 DEF Advance, pollVars, NothingFollows, PollsAreWhole
<1>8. CASE ExpireResult \/ UNCHANGED vars
  BY <1>8 DEF ExpireResult, vars, streamVars, pollVars, NothingFollows, PollsAreWhole
<1> QED
  BY <1>1, <1>2, <1>4, <1>5, <1>6, <1>7, <1>8 DEF Next

\* With polls that do not overtake one another, a table on display stays until the
\* page is loaded again: no error takes its place.
THEOREM TableStaysHolds ==
  ASSUME \A p, q \in Poll : p = q
  PROVE  Spec => TableStays
<1>1. Init => NothingFollows /\ PollsAreWhole
  BY DEF Init, NothingFollows, PollsAreWhole
<1>2. PageInv /\ NothingFollows /\ PollsAreWhole /\ [Next]_vars
        => NothingFollows' /\ PollsAreWhole'
  BY NextNothingFollows
<1>3. PageInv /\ NothingFollows /\ PollsAreWhole /\ [Next]_vars
        /\ [View = "table" /\ response' # "none" => rows' = rows]_vars
        => [View = "table" /\ response' # "none" => View' = "table"]_vars
  <2> SUFFICES ASSUME PageInv, NothingFollows, PollsAreWhole, Next,
                      View = "table" /\ response' # "none" => rows' = rows,
                      View = "table", response' # "none"
               PROVE  View' = "table"
    OBVIOUS
  <2>1. response \in {"completed", "bare"} /\ rows # 0
    BY DEF View, PageInv, TypeOK, Code, Running, Terminal
  <2>2. response' = response /\ rows' = rows
    BY <2>1, NextNothingFollows
  <2> QED
    BY <2>1, <2>2 DEF View
<1> QED
  BY <1>1, <1>2, <1>3, PageInvHolds, RowsStayHolds, PTL DEF Spec, RowsStay, TableStays

-----------------------------------------------------------------------------
(* The file that is downloaded *)

Elements(s) == {s[i] : i \in DOMAIN s}

\* The id of a plot names its row, and a page knows of the columns that its summary
\* counts.
ReportConstants ==
    /\ PageSize \in Nat \ {0}
    /\ \A r \in Results :
           /\ r \in Seq(Elements(r))
           /\ \A i \in DOMAIN r : "plotId" \in DOMAIN r[i] /\ r[i].plotId # Nil
           /\ \A i, j \in DOMAIN r : r[i].plotId = r[j].plotId => i = j
    /\ \A known \in ColumnChoices :
           /\ {"plotId", Water} \cup FileCommodity \subseteq known
           /\ \A c \in FileCommodity : FileIndicators[c] \subseteq known

FileInd ==
    /\ fileRows \in Results /\ columns \in ColumnChoices /\ fileTab \in FileCommodity
    /\ filePage \in Nat \ {0}
    /\ File!FilterHasButton
    /\ openId # Nil => \E i \in DOMAIN File!Shown : File!Id(File!Shown[i]) = openId

LEMMA FileCardinality == \A S : File!Cardinality(S) = Cardinality(S)
  BY Zenon DEF File!Cardinality, Cardinality

LEMMA FileSelection == \A s, kept : File!Selection(s, kept) = Selection(s, kept)
  BY Zenon DEF File!Selection, Selection

\* The rows of the file are those of the result.
LEMMA RowsOfFile ==
  ASSUME ReportConstants, fileRows \in Results, columns \in ColumnChoices
  PROVE  /\ File!ReportRows \in Seq(Elements(File!ReportRows))
         /\ Len(File!ReportRows) = Len(fileRows) /\ DOMAIN File!ReportRows = DOMAIN fileRows
         /\ \A i \in DOMAIN fileRows : /\ File!ReportRows[i] = File!ReportRow(fileRows[i])
                                       /\ File!Id(File!ReportRows[i]) = fileRows[i].plotId
<1>1. fileRows \in Seq(Elements(fileRows))
  BY DEF ReportConstants
<1>2. File!ReportRows = [i \in 1..Len(fileRows) |-> File!ReportRow(fileRows[i])]
  BY <1>1 DEF File!ReportRows
<1>3. DOMAIN fileRows = 1..Len(fileRows) /\ Len(fileRows) \in Nat
  BY <1>1
<1>4. /\ DOMAIN File!ReportRows = 1..Len(fileRows)
      /\ \A i \in DOMAIN fileRows : File!ReportRows[i] = File!ReportRow(fileRows[i])
  BY <1>2, <1>3
<1>5. File!ReportRows \in Seq(Elements(File!ReportRows)) /\ Len(File!ReportRows) = Len(fileRows)
  BY <1>2, <1>3 DEF Elements
<1>6. ASSUME NEW i \in DOMAIN fileRows
      PROVE  File!Id(File!ReportRows[i]) = fileRows[i].plotId
  <2> DEFINE row == fileRows[i]
  <2>1. "plotId" \in DOMAIN row /\ row.plotId # Nil /\ "plotId" \in columns
    BY DEF ReportConstants
  <2>2. File!ReportRows[i] = File!ReportRow(row)
    BY <1>4
  <2> HIDE DEF row
  <2>3. /\ "plotId" \in DOMAIN File!ReportRow(row)
        /\ File!ReportRow(row)["plotId"] = row["plotId"]
    BY <2>1 DEF File!ReportRow
  <2> QED
    BY <2>1, <2>2, <2>3 DEF File!Id, File!Cell, row
<1> QED
  BY <1>3, <1>4, <1>5, <1>6

\* No id is on a page twice.
LEMMA IdsDiffer ==
  ASSUME ReportConstants, FileInd
  PROVE  /\ DOMAIN File!Shown \subseteq Nat
         /\ \A i, j \in DOMAIN File!Shown :
               File!Id(File!Shown[i]) = File!Id(File!Shown[j]) => i = j
<1> DEFINE whole == File!ReportRows
           kept == {r \in File!ToSet(whole) : File!Kept(r)}
           filtered == File!Filtered
           from == (filePage - 1) * PageSize + 1
           to == IF filePage * PageSize > Len(filtered) THEN Len(filtered) ELSE filePage * PageSize
<1>1. /\ whole \in Seq(Elements(whole)) /\ DOMAIN whole = DOMAIN fileRows
      /\ \A i \in DOMAIN whole : File!Id(whole[i]) = fileRows[i].plotId
  BY RowsOfFile DEF FileInd
<1>2. \A i, j \in DOMAIN whole : File!Id(whole[i]) = File!Id(whole[j]) => i = j
  BY <1>1 DEF FileInd, ReportConstants
<1>3. filtered = Selection(whole, kept)
  BY FileSelection DEF File!Filtered
<1>4. File!Shown = SubSeq(filtered, from, to)
  BY DEF File!Shown
<1>5. from \in Nat \ {0}
  BY DEF FileInd, ReportConstants
<1> HIDE DEF whole, kept, filtered, from
<1>6. \A i, j \in DOMAIN whole : whole[i] = whole[j] => i = j
  BY <1>2
<1>7. /\ filtered \in Seq(Elements(whole))
      /\ \A i \in DOMAIN filtered : \E k \in DOMAIN whole : filtered[i] = whole[k]
  BY <1>1, <1>3, SelectionMembers
<1>8. \A i, j \in DOMAIN filtered : filtered[i] = filtered[j] => i = j
  BY <1>1, <1>3, <1>6, SelectionIsInjective
<1>9. \A i, j \in DOMAIN filtered : File!Id(filtered[i]) = File!Id(filtered[j]) => i = j
  BY <1>2, <1>7, <1>8
<1>10. to \in Int /\ to <= Len(filtered)
  BY <1>7 DEF FileInd, ReportConstants
<1> HIDE DEF to
<1>11. /\ DOMAIN SubSeq(filtered, from, to) \subseteq Nat
       /\ \A i \in DOMAIN SubSeq(filtered, from, to) :
             /\ from + i - 1 \in DOMAIN filtered
             /\ SubSeq(filtered, from, to)[i] = filtered[from + i - 1]
  BY <1>5, <1>7, <1>10
<1> DEFINE onPage == SubSeq(filtered, from, to)
<1> HIDE DEF onPage
<1>12. ASSUME NEW i \in DOMAIN onPage, NEW j \in DOMAIN onPage, File!Id(onPage[i]) = File!Id(onPage[j])
       PROVE  i = j
  <2>1. /\ from + i - 1 \in DOMAIN filtered /\ onPage[i] = filtered[from + i - 1]
        /\ from + j - 1 \in DOMAIN filtered /\ onPage[j] = filtered[from + j - 1]
        /\ i \in Nat /\ j \in Nat
    BY <1>11 DEF onPage
  <2>2. from + i - 1 = from + j - 1
    BY <1>9, <1>12, <2>1
  <2> QED
    BY <1>5, <2>1, <2>2
<1>13. File!Shown = onPage /\ DOMAIN onPage \subseteq Nat
  BY <1>4, <1>11 DEF onPage
<1> QED
  BY <1>12, <1>13

LEMMA FileInitInd == ASSUME ReportConstants, File!Init PROVE FileInd
  BY DEF File!Init, FileInd, File!FilterHasButton

LEMMA FileNextInd == ASSUME ReportConstants, FileInd, [File!Next]_File!vars PROVE FileInd'
<1> USE DEF File!report
<1>1. ASSUME UNCHANGED <<fileRows, columns>>, fileTab' \in FileCommodity, filePage' \in Nat \ {0},
             File!FilterHasButton', openId' = Nil
      PROVE  FileInd'
  BY <1>1 DEF FileInd
\* What leaves the list alone.
<1>2. ASSUME UNCHANGED <<fileRows, columns, fileTab, fileRisk, indFilter, filePage>>,
             openId' # Nil => \E i \in DOMAIN File!Shown : File!Id(File!Shown[i]) = openId'
      PROVE  FileInd'
  <2>1. File!Shown' = File!Shown /\ \A row : File!Id(row)' = File!Id(row)
    BY <1>2 DEF File!Shown, File!Filtered, File!ReportRows, File!ReportRow, File!Kept, File!Id,
                File!Cell, File!IsYes
  <2>2. File!FilterHasButton'
    BY <1>2 DEF FileInd, File!FilterHasButton, File!Labelled, File!Listed
  <2> QED
    BY <1>2, <2>1, <2>2 DEF FileInd
<1>3. CASE \/ \E c \in FileCommodity : File!PressTab(c)
           \/ \E v \in File!Value : File!PressRisk(v)
           \/ File!ClearFilter
  <2>1. /\ UNCHANGED <<fileRows, columns>> /\ fileTab' \in FileCommodity /\ filePage' = 1
        /\ indFilter' = Nil /\ openId' = Nil
    BY <1>3 DEF File!PressTab, File!PressRisk, File!ClearFilter, File!Reset, FileInd
  <2>2. File!FilterHasButton'
    BY <2>1 DEF File!FilterHasButton, File!Labelled
  <2> QED
    BY <1>1, <2>1, <2>2
<1>4. ASSUME NEW i, File!PressIndicator(i)
      PROVE  FileInd'
  <2>1. /\ UNCHANGED <<fileRows, columns, fileTab>> /\ filePage' = 1 /\ fileRisk' = Nil
        /\ indFilter' \in {i, Nil} /\ openId' = Nil
        /\ i \in File!Listed(FileIndicators[fileTab] \cup {Water})
    BY <1>4 DEF File!PressIndicator, File!Reset
  <2>2. File!FilterHasButton'
    BY <2>1 DEF File!FilterHasButton, File!Labelled, File!Listed
  <2> QED
    BY <1>1, <2>1, <2>2 DEF FileInd
<1>5. CASE File!PrevPage \/ File!NextPage
  <2>1. /\ UNCHANGED <<fileRows, columns, fileTab, fileRisk, indFilter>> /\ filePage' \in Nat \ {0}
        /\ openId' = Nil
    BY <1>5 DEF File!PrevPage, File!NextPage, File!Turn, FileInd
  <2>2. File!FilterHasButton'
    BY <2>1 DEF FileInd, File!FilterHasButton, File!Labelled, File!Listed
  <2> QED
    BY <1>1, <2>1, <2>2 DEF FileInd
<1>6. ASSUME NEW i \in DOMAIN File!Shown, File!PressRow(File!Shown[i])
      PROVE  FileInd'
  <2>1. /\ UNCHANGED <<fileRows, columns, fileTab, fileRisk, indFilter, filePage>>
        /\ openId' \in {Nil, File!Id(File!Shown[i])}
    BY <1>6 DEF File!PressRow
  <2> QED
    BY <1>2, <2>1
<1>7. CASE UNCHANGED File!vars
  <2>1. UNCHANGED <<fileRows, columns, fileTab, fileRisk, indFilter, filePage, openId>>
    BY <1>7 DEF File!vars
  <2> QED
    BY <1>2, <2>1 DEF FileInd
<1> QED
  BY <1>3, <1>4, <1>5, <1>6, <1>7, Zenon DEF File!Next

\* Of the file that a results page downloads, for any result whose rows are told apart by
\* their plots: a filter that is on has the button that takes it away, and one detail is
\* open at most, below a row that is on the page.
THEOREM ReportInvHolds == ASSUME ReportConstants PROVE File!Spec => []ReportInv
<1>1. File!Init => FileInd
  BY FileInitInd
<1>2. FileInd /\ [File!Next]_File!vars => FileInd'
  BY FileNextInd
<1>3. FileInd => ReportInv
  <2> SUFFICES ASSUME FileInd, openId # Nil
               PROVE  File!Cardinality({i \in DOMAIN File!Shown : File!Id(File!Shown[i]) = openId}) = 1
    BY DEF FileInd, ReportInv, File!ReportInv, File!DetailIsOfOneRow
  <2>1. PICK i \in DOMAIN File!Shown : File!Id(File!Shown[i]) = openId
    BY DEF FileInd
  <2>2. {j \in DOMAIN File!Shown : File!Id(File!Shown[j]) = openId} = {i}
    BY <2>1, IdsDiffer
  <2> QED
    BY <2>2, FS_Singleton, FileCardinality
<1> QED
  BY <1>1, <1>2, <1>3, PTL DEF File!Spec

\* A filter that keeps of the file what is counted of the result.
LEMMA FilterKeepsCounted ==
  ASSUME ReportConstants, FileInd, UNCHANGED File!report, NEW kept,
         \A i \in DOMAIN fileRows : \A r :
             r = File!ReportRow(fileRows[i]) => (File!Kept(r)' <=> fileRows[i] \in kept)
  PROVE  Len(File!Filtered') = Len(File!Selection(fileRows, kept))
<1> DEFINE whole == File!ReportRows
           passing == {r \in File!ToSet(whole) : File!Kept(r)'}
<1>1. fileRows \in Seq(Elements(fileRows)) /\ DOMAIN fileRows = 1..Len(fileRows)
  BY DEF FileInd, ReportConstants
<1>2. /\ whole \in Seq(Elements(whole)) /\ Len(whole) = Len(fileRows)
      /\ DOMAIN whole = DOMAIN fileRows
      /\ \A i \in DOMAIN fileRows : whole[i] = File!ReportRow(fileRows[i])
  BY RowsOfFile DEF FileInd
<1>3. whole' = whole /\ \A r : File!ReportRow(r)' = File!ReportRow(r)
  BY DEF File!report, File!ReportRows, File!ReportRow
<1>4. File!Filtered' = File!Selection(whole, passing)
  BY <1>3 DEF File!Filtered, File!Selection, File!ToSet
<1>5. \A i \in DOMAIN fileRows : whole[i] \in passing <=> fileRows[i] \in kept
  BY <1>2, <1>3 DEF File!ToSet
<1> HIDE DEF whole, passing
<1> QED
  BY <1>1, <1>2, <1>4, <1>5, SelectionsAlike, FileSelection

LEMMA FileCounts ==
  ASSUME ReportConstants, FileInd
  PROVE  /\ \A v \in File!Value : File!PressRisk(v) /\ fileRisk' # Nil
                => Len(File!Filtered') = File!Mix(fileTab, v)
         /\ \A i \in File!Listed(FileIndicators[fileTab] \cup {Water}) :
                File!PressIndicator(i) /\ indFilter' # Nil
                => Len(File!Filtered') = File!YesCount(i)
\* A column that the file has holds the cells of the result.
<1>1. ASSUME NEW f \in columns, NEW row
      PROVE  File!Cell(File!ReportRow(row), f) = File!Cell(row, f)
  BY DEF File!Cell, File!ReportRow
<1>2. ASSUME NEW v \in File!Value, File!PressRisk(v), fileRisk' # Nil
      PROVE  Len(File!Filtered') = File!Mix(fileTab, v)
  <2> DEFINE kept == {r \in File!ToSet(fileRows) : File!Cell(r, fileTab) = v}
  <2>1. fileRisk' = v /\ indFilter' = Nil /\ fileTab' = fileTab /\ UNCHANGED File!report
    BY <1>2 DEF File!PressRisk
  <2>2. fileTab \in columns
    BY DEF FileInd, ReportConstants
  <2>3. ASSUME NEW i \in DOMAIN fileRows, NEW r, r = File!ReportRow(fileRows[i])
        PROVE  File!Kept(r)' <=> fileRows[i] \in kept
    <3>1. File!Kept(r)' <=> File!Cell(r, fileTab) = v
      BY <1>2, <2>1 DEF File!Kept, File!Cell
    <3>2. File!Cell(r, fileTab) = File!Cell(fileRows[i], fileTab)
      BY <1>1, <2>2, <2>3
    <3>3. fileRows[i] \in File!ToSet(fileRows)
      BY DEF File!ToSet
    <3> QED
      BY <3>1, <3>2, <3>3
  <2> HIDE DEF kept
  <2>4. Len(File!Filtered') = Len(File!Selection(fileRows, kept))
    BY <2>1, <2>3, FilterKeepsCounted
  <2> QED
    BY <2>4 DEF File!Mix, kept
<1>3. ASSUME NEW f \in File!Listed(FileIndicators[fileTab] \cup {Water}),
             File!PressIndicator(f), indFilter' # Nil
      PROVE  Len(File!Filtered') = File!YesCount(f)
  <2> DEFINE kept == {r \in File!ToSet(fileRows) : File!IsYes(File!Cell(r, f))}
  <2>1. indFilter' = f /\ fileRisk' = Nil /\ fileTab' = fileTab /\ UNCHANGED File!report
    BY <1>3 DEF File!PressIndicator
  <2>2. f \in columns
    BY DEF FileInd, ReportConstants, File!Listed
  <2>3. ASSUME NEW i \in DOMAIN fileRows, NEW r, r = File!ReportRow(fileRows[i])
        PROVE  File!Kept(r)' <=> fileRows[i] \in kept
    <3>1. File!Kept(r)' <=> File!IsYes(File!Cell(r, f))
      BY <1>3, <2>1 DEF File!Kept, File!IsYes, File!Cell
    <3>2. File!Cell(r, f) = File!Cell(fileRows[i], f)
      BY <1>1, <2>2, <2>3
    <3>3. fileRows[i] \in File!ToSet(fileRows)
      BY DEF File!ToSet
    <3> QED
      BY <3>1, <3>2, <3>3
  <2> HIDE DEF kept
  <2>4. Len(File!Filtered') = Len(File!Selection(fileRows, kept))
    BY <2>1, <2>3, FilterKeepsCounted
  <2> QED
    BY <2>4 DEF File!YesCount, kept
<1> QED
  BY <1>2, <1>3

LEMMA FileCountsAreRows == ASSUME ReportConstants PROVE File!Spec => File!CountsAreRows
<1>1. File!Init => FileInd
  BY FileInitInd
<1>2. FileInd /\ [File!Next]_File!vars => FileInd'
  BY FileNextInd
<1> QED
  BY <1>1, <1>2, FileCounts, PTL DEF File!Spec, File!CountsAreRows

-----------------------------------------------------------------------------
(* The picker of the columns *)

\* A field has one id.
PickerConstants ==
    /\ Fields \in Seq(Elements(Fields))
    /\ \A i, j \in DOMAIN Fields : Fields[i].id = Fields[j].id => i = j

\* Ids, each once, of columns that the picker has.
Ticked(ids, cols) ==
    /\ ids \in Seq(Elements(ids))
    /\ \A i, j \in DOMAIN ids : ids[i] = ids[j] => i = j
    /\ \A i \in DOMAIN ids : \E k \in DOMAIN cols : ids[i] = cols[k].id

PickerInd ==
    /\ Picker!QueryIsForgotten /\ Picker!GroupIsOnDisplay
    /\ Ticked(visible, Picker!Columns)

LEMMA PickerSelection == \A s, kept : Picker!Selection(s, kept) = Selection(s, kept)
  BY Zenon DEF Picker!Selection, Selection

\* The group that is set is on display.
LEMMA GroupIsSet ==
  ASSUME PickerConstants, NEW group, Picker!SetGroup(group)
  PROVE  Picker!GroupIsOnDisplay'
<1> SUFFICES ASSUME Picker!GroupNames' # {} PROVE activeGroup' \in Picker!GroupNames'
  BY DEF Picker!GroupIsOnDisplay
<1> DEFINE kept == {f \in Picker!Eligible : f.category \in Picker!GroupNames'}
<1>1. Picker!FirstGroup' = Selection(Fields, kept)[1].category
  BY PickerSelection DEF Picker!FirstGroup, Picker!Eligible, Picker!Selection
<1>2. \E k \in DOMAIN Fields : Fields[k] \in kept
  <2>1. PICK f : f \in Picker!ToSet(Picker!Columns') /\ f.category \in Picker!GroupNames'
    BY DEF Picker!GroupNames, Picker!Matching, Picker!ToSet
  <2>2. PICK i \in DOMAIN Picker!Columns' : f = Picker!Columns'[i]
    BY <2>1 DEF Picker!ToSet
  <2>3. Picker!Columns' = Picker!PickerColumns
    BY <2>2 DEF Picker!Columns, Picker!PickerColumns, Picker!Selection, Picker!Eligible
  <2>4. f \in Picker!Eligible
    BY <2>2, <2>3, PickerSelection, SelectionMembers DEF Picker!PickerColumns, PickerConstants
  <2> QED
    BY <2>1, <2>4 DEF Picker!Eligible, Picker!ToSet
<1> DEFINE groups == Selection(Fields, kept)
<1>3. /\ groups \in Seq(Elements(Fields))
      /\ \A i \in DOMAIN groups : groups[i] \in kept
      /\ \E i \in DOMAIN groups : TRUE
  <2> HIDE DEF kept
  <2> QED
    BY <1>2, SelectionMembers, SelectionHas DEF PickerConstants
<1>4. groups[1] \in kept
  <2> HIDE DEF kept, groups
  <2> QED
    BY <1>3
<1>5. Picker!FirstGroup' \in Picker!GroupNames'
  BY <1>1, <1>4
<1> QED
  BY <1>5 DEF Picker!SetGroup

\* The ids of a selection of the columns.
LEMMA TickedIds ==
  ASSUME PickerConstants, NEW cols \in Seq(Elements(Fields)), NEW t \in Seq(Elements(Fields)),
         \A i, j \in DOMAIN t : t[i] = t[j] => i = j,
         \A i \in DOMAIN t : \E k \in DOMAIN cols : t[i] = cols[k]
  PROVE  Ticked(Picker!IdsOf(t), cols)
<1> DEFINE ids == Picker!IdsOf(t)
<1>1. ids = [i \in 1..Len(t) |-> t[i].id] /\ Len(t) \in Nat /\ DOMAIN t = 1..Len(t)
  BY DEF Picker!IdsOf
<1> HIDE DEF ids
<1>2. ids \in Seq(Elements(ids)) /\ DOMAIN ids = DOMAIN t /\ \A i \in DOMAIN t : ids[i] = t[i].id
  BY <1>1 DEF Elements
<1>3. ASSUME NEW i \in DOMAIN t, NEW j \in DOMAIN t, ids[i] = ids[j] PROVE i = j
  <2>1. t[i].id = t[j].id
    BY <1>2, <1>3
  <2>2. t[i] \in Elements(Fields) /\ t[j] \in Elements(Fields)
    OBVIOUS
  <2>3. PICK a \in DOMAIN Fields, b \in DOMAIN Fields : t[i] = Fields[a] /\ t[j] = Fields[b]
    BY <2>2 DEF Elements
  <2>4. a = b
    BY <2>1, <2>3 DEF PickerConstants
  <2>5. t[i] = t[j]
    BY <2>3, <2>4
  <2> QED
    BY <2>5
<1> QED
  BY <1>2, <1>3 DEF Ticked, ids

\* The selections that the page makes of the fields.
LEMMA TickedChoices ==
  ASSUME PickerConstants
  PROVE  /\ Picker!PickerColumns \in Seq(Elements(Fields))
         /\ \A i, j \in DOMAIN Picker!PickerColumns :
               Picker!PickerColumns[i] = Picker!PickerColumns[j] => i = j
         /\ Ticked(Picker!DefaultVisible, Picker!PickerColumns)
<1> DEFINE listed == {f \in Picker!Eligible : ~f.excludeFromResults}
           chosen == {f \in Picker!Eligible : Picker!IsDefault(f)}
           cols == Selection(Fields, listed)
           t == Selection(Fields, chosen)
<1>1. cols = Picker!PickerColumns /\ Picker!DefaultVisible = Picker!IdsOf(t)
  BY PickerSelection DEF Picker!PickerColumns, Picker!DefaultVisible
<1>2. chosen \subseteq listed
  BY DEF Picker!IsDefault
<1>3. Fields \in Seq(Elements(Fields)) /\ \A i, j \in DOMAIN Fields : Fields[i] = Fields[j] => i = j
  BY DEF PickerConstants
<1> HIDE DEF listed, chosen
<1>4. /\ cols \in Seq(Elements(Fields))
      /\ \A k \in DOMAIN Fields : Fields[k] \in listed => \E i \in DOMAIN cols : cols[i] = Fields[k]
  BY <1>3, SelectionMembers, SelectionHas
<1>5. \A i, j \in DOMAIN cols : cols[i] = cols[j] => i = j
  BY <1>3, SelectionIsInjective
<1>6. /\ t \in Seq(Elements(Fields))
      /\ \A i \in DOMAIN t : t[i] \in chosen /\ \E k \in DOMAIN Fields : t[i] = Fields[k]
  BY <1>3, SelectionMembers
<1>7. \A i, j \in DOMAIN t : t[i] = t[j] => i = j
  BY <1>3, SelectionIsInjective
<1> HIDE DEF cols, t
<1>8. \A i \in DOMAIN t : \E k \in DOMAIN cols : t[i] = cols[k]
  BY <1>2, <1>4, <1>6
<1>9. Ticked(Picker!IdsOf(t), cols)
  BY <1>4, <1>6, <1>7, <1>8, TickedIds
<1> QED
  BY <1>1, <1>4, <1>5, <1>9

LEMMA PickerColumnsOnce ==
  ASSUME PickerConstants
  PROVE  /\ Picker!Columns \in Seq(Elements(Fields))
         /\ \A i, j \in DOMAIN Picker!Columns : Picker!Columns[i] = Picker!Columns[j] => i = j
  BY TickedChoices DEF Picker!Columns

LEMMA PickerInitInd == ASSUME Picker!Init PROVE PickerInd
<1>1. Picker!Columns = <<>> /\ Picker!GroupNames = {}
  BY DEF Picker!Init, Picker!Columns, Picker!GroupNames, Picker!Matching, Picker!ToSet
<1>2. Ticked(visible, Picker!Columns)
  BY DEF Picker!Init, Ticked
<1> QED
  BY <1>1, <1>2 DEF Picker!Init, PickerInd, Picker!QueryIsForgotten, Picker!GroupIsOnDisplay

\* What is chosen while the picker is open.
LEMMA ChangeInd ==
  ASSUME PickerConstants, PickerInd, NEW to, Picker!Change(to), Ticked(to, Picker!Columns)
  PROVE  PickerInd'
<1>1. open /\ visible' = to /\ UNCHANGED <<arrived, open, query>> /\ Picker!SetGroup(activeGroup)
  BY DEF Picker!Change
<1>2. Picker!Columns' = Picker!Columns
  BY <1>1 DEF Picker!Columns, Picker!PickerColumns, Picker!Selection, Picker!Eligible
<1>3. Ticked(visible, Picker!Columns)'
  BY <1>1, <1>2 DEF Ticked, Elements
<1> QED
  BY <1>1, <1>3, GroupIsSet DEF PickerInd, Picker!QueryIsForgotten

LEMMA ToggleInd ==
  ASSUME PickerConstants, PickerInd, NEW id, Picker!Toggle(id)
  PROVE  PickerInd'
<1> DEFINE cols == Picker!Columns
           others == Picker!Ids \ {id}
           fewer == Selection(visible, others)
           more == Append(visible, id)
<1>1. Ticked(visible, cols)
  BY DEF PickerInd
<1>2. \E k \in DOMAIN cols : id = cols[k].id
  BY DEF Picker!Toggle, Picker!ActiveCols, Picker!Matching, Picker!ToSet
<1> HIDE DEF cols
<1>3. visible \in Seq(Elements(visible)) /\ DOMAIN visible = 1..Len(visible)
  BY <1>1 DEF Ticked
<1>4. CASE id \in Picker!ToSet(visible)
  <2>1. Picker!Change(fewer)
    BY <1>4, PickerSelection DEF Picker!Toggle
  <2> HIDE DEF others
  <2>2. /\ fewer \in Seq(Elements(visible))
        /\ \A i \in DOMAIN fewer : \E k \in DOMAIN visible : fewer[i] = visible[k]
    BY <1>3, SelectionMembers
  <2>3. \A i, j \in DOMAIN fewer : fewer[i] = fewer[j] => i = j
    BY <1>1, <1>3, SelectionIsInjective DEF Ticked
  <2> HIDE DEF fewer
  <2>4. fewer \in Seq(Elements(fewer))
    BY <2>2 DEF Elements
  <2>5. Ticked(fewer, cols)
    BY <1>1, <2>2, <2>3, <2>4 DEF Ticked
  <2> QED
    BY <2>1, <2>5, ChangeInd DEF cols
<1>5. CASE id \notin Picker!ToSet(visible)
  <2>1. Picker!Change(more)
    BY <1>5 DEF Picker!Toggle
  <2>2. more \in Seq(Elements(visible) \cup {id}) /\ DOMAIN more = 1..(Len(visible) + 1)
        /\ more[Len(visible) + 1] = id /\ \A i \in 1..Len(visible) : more[i] = visible[i]
    BY <1>3
  <2>3. \A i \in 1..Len(visible) : visible[i] # id
    BY <1>3, <1>5 DEF Picker!ToSet
  <2> HIDE DEF more
  <2>4. \A i, j \in DOMAIN more : more[i] = more[j] => i = j
    BY <1>1, <1>3, <2>2, <2>3 DEF Ticked
  <2>5. \A i \in DOMAIN more : \E k \in DOMAIN cols : more[i] = cols[k].id
    BY <1>1, <1>2, <1>3, <2>2 DEF Ticked
  <2>6. more \in Seq(Elements(more))
    BY <2>2 DEF Elements
  <2>7. Ticked(more, cols)
    BY <2>4, <2>5, <2>6 DEF Ticked
  <2> QED
    BY <2>1, <2>7, ChangeInd DEF cols
<1> QED
  BY <1>4, <1>5

LEMMA PickerNextInd ==
  ASSUME PickerConstants, PickerInd, [Picker!Next]_Picker!vars
  PROVE  PickerInd'
<1>1. CASE UNCHANGED Picker!vars
  <2>1. UNCHANGED <<arrived, visible, open, query, activeGroup>>
    BY <1>1 DEF Picker!vars
  <2>2. Picker!Columns' = Picker!Columns
    BY <2>1 DEF Picker!Columns, Picker!PickerColumns, Picker!Selection, Picker!Eligible
  <2>3. Picker!GroupNames' = Picker!GroupNames
    BY <2>1, <2>2 DEF Picker!GroupNames, Picker!Matching, Picker!ToSet
  <2>4. Ticked(visible, Picker!Columns)'
    BY <2>1, <2>2 DEF PickerInd, Ticked, Elements
  <2> QED
    BY <2>1, <2>3, <2>4 DEF PickerInd, Picker!QueryIsForgotten, Picker!GroupIsOnDisplay, Picker!Ids
<1>2. CASE Picker!FieldsArrive
  <2>1. /\ visible' = Picker!DefaultVisible /\ arrived' /\ UNCHANGED <<open, query>>
        /\ Picker!SetGroup(activeGroup)
    BY <1>2 DEF Picker!FieldsArrive
  <2>2. Picker!Columns' = Picker!PickerColumns
    BY <2>1 DEF Picker!Columns, Picker!PickerColumns, Picker!Selection, Picker!Eligible
  <2>3. Ticked(visible, Picker!Columns)'
    BY <2>1, <2>2, TickedChoices DEF Ticked, Elements
  <2> QED
    BY <2>1, <2>3, GroupIsSet DEF PickerInd, Picker!QueryIsForgotten
\* The picker opens, closes, or shows other fields and groups.
<1>3. ASSUME UNCHANGED <<arrived, visible>>, open' \/ query' = Picker!Ids, NEW g, Picker!SetGroup(g)
      PROVE  PickerInd'
  <2>1. Picker!Columns' = Picker!Columns
    BY <1>3 DEF Picker!Columns, Picker!PickerColumns, Picker!Selection, Picker!Eligible
  <2>2. Ticked(visible, Picker!Columns)'
    BY <1>3, <2>1 DEF PickerInd, Ticked, Elements
  <2>3. Picker!QueryIsForgotten'
    BY <1>3 DEF Picker!QueryIsForgotten, Picker!Ids
  <2> QED
    BY <1>3, <2>2, <2>3, GroupIsSet DEF PickerInd
<1>4. CASE \/ Picker!Open \/ Picker!PressClose \/ Picker!CloseFromPage
           \/ \E q \in Queries : Picker!Type(q)
  BY <1>3, <1>4 DEF Picker!Open, Picker!PressClose, Picker!CloseFromPage, Picker!Close, Picker!Type
<1>5. ASSUME NEW f, Picker!PressGroup(f.category) \/ Picker!Toggle(f.id)
      PROVE  PickerInd'
  BY <1>3, <1>5, ToggleInd DEF Picker!PressGroup
<1>6. CASE Picker!SelectNone \/ Picker!Reset
  <2>1. Ticked(<<>>, Picker!Columns)
    BY DEF Ticked
  <2>2. arrived => Ticked(Picker!DefaultVisible, Picker!Columns)
    BY TickedChoices DEF Picker!Columns
  <2> QED
    BY <1>6, <2>1, <2>2, ChangeInd DEF Picker!SelectNone, Picker!Reset
<1>7. CASE Picker!SelectAll
  <2> DEFINE cols == Picker!Columns
  <2>1. Picker!Change(Picker!IdsOf(cols))
    BY <1>7 DEF Picker!SelectAll
  <2>2. cols \in Seq(Elements(Fields)) /\ \A i, j \in DOMAIN cols : cols[i] = cols[j] => i = j
    BY PickerColumnsOnce
  <2> HIDE DEF cols
  <2>3. Ticked(Picker!IdsOf(cols), cols)
    BY <2>2, TickedIds
  <2> QED
    BY <2>1, <2>3, ChangeInd DEF cols
<1>8. CASE Picker!SelectRiskOnly
  <2> DEFINE cols == Picker!Columns
             risky == {f \in Picker!Eligible : f.isRisk}
             t == Selection(cols, risky)
  <2>1. Picker!Change(Picker!IdsOf(t))
    BY <1>8, PickerSelection DEF Picker!SelectRiskOnly
  <2>2. cols \in Seq(Elements(Fields)) /\ \A i, j \in DOMAIN cols : cols[i] = cols[j] => i = j
    BY PickerColumnsOnce
  <2> HIDE DEF cols, risky
  <2>3. /\ t \in Seq(Elements(Fields))
        /\ \A i \in DOMAIN t : \E k \in DOMAIN cols : t[i] = cols[k]
    BY <2>2, SelectionMembers
  <2>4. \A i, j \in DOMAIN t : t[i] = t[j] => i = j
    BY <2>2, SelectionIsInjective
  <2> HIDE DEF t
  <2>5. Ticked(Picker!IdsOf(t), cols)
    BY <2>2, <2>3, <2>4, TickedIds
  <2> QED
    BY <2>1, <2>5, ChangeInd DEF cols
<1> QED
  BY <1>1, <1>2, <1>4, <1>5, <1>6, <1>7, <1>8, Zenon DEF Picker!Next

LEMMA PickerFits == ASSUME PickerInd PROVE Picker!PickerInv
  BY DEF PickerInd, Picker!PickerInv, Picker!SelectedAreTicked, Ticked, Picker!IsInjective, Picker!ToSet

-----------------------------------------------------------------------------
(* The view of the rows *)

\* A plot has one row, and a column puts the plots in an order.
ViewConstants ==
    /\ Table \in Seq(Display!Plot)
    /\ \A i, j \in DOMAIN Table : Table[i] = Table[j] => i = j
    /\ Searches \subseteq SUBSET Display!Plot
    /\ PageSizes \subseteq Nat \ {0}
    /\ Rank \in [Display!Column -> [Display!Plot -> Int]]

Sortable == sort \in [column : Display!Column, asc : BOOLEAN] \cup {Nil}

LEMMA ViewCardinality == \A S : Display!Cardinality(S) = Cardinality(S)
  BY Zenon DEF Display!Cardinality, Cardinality

LEMMA ViewSelection == \A s, kept : Display!Selection(s, kept) = Selection(s, kept)
  BY Zenon DEF Display!Selection, Selection

\* The filtered rows are plots, each once.
LEMMA FilteredPlots ==
  ASSUME ViewConstants
  PROVE  /\ Display!FilteredData \in Seq(Display!Plot)
         /\ \A i, j \in DOMAIN Display!FilteredData :
               Display!FilteredData[i] = Display!FilteredData[j] => i = j
<1> DEFINE found == Selection(Table, search)
           passing == {p \in Display!Plot : Display!PassesFilters(p)}
<1>1. Display!FilteredData = Selection(found, passing)
  BY ViewSelection DEF Display!FilteredData, Display!SearchedData
<1> HIDE DEF passing
<1>2. found \in Seq(Display!Plot)
  BY SelectionPicks DEF ViewConstants
<1>3. \A i, j \in DOMAIN found : found[i] = found[j] => i = j
  BY SelectionIsInjective DEF ViewConstants
<1> HIDE DEF found
<1> QED
  BY <1>1, <1>2, <1>3, SelectionPicks, SelectionIsInjective

\* Of two plots one is before the other.
LEMMA BeforeOrder ==
  ASSUME ViewConstants, Sortable, sort # Nil
  PROVE  /\ \A p \in Display!Plot : ~ Display!Before(p, p)
         /\ \A p, q \in Display!Plot : p # q => Display!Before(p, q) \/ Display!Before(q, p)
         /\ \A p, q, r \in Display!Plot :
               Display!Before(p, q) /\ Display!Before(q, r) => Display!Before(p, r)
<1>1. \A p \in Display!Plot : Display!Place(p) \in DOMAIN Table /\ Table[Display!Place(p)] = p
  BY DEF Display!Plot, Display!ToSet, Display!Place
<1>2. DOMAIN Table \subseteq Int
  BY DEF ViewConstants
<1>3. \A p \in Display!Plot : Display!Place(p) \in Int
  BY <1>1, <1>2
<1>4. \A p, q \in Display!Plot : Display!Place(p) = Display!Place(q) => p = q
  BY <1>1
<1>5. \A p \in Display!Plot : Rank[sort.column][p] \in Int
  BY DEF Sortable, ViewConstants
<1>6. sort.asc \in BOOLEAN
  BY DEF Sortable
<1>7. \A p \in Display!Plot : ~ Display!Before(p, p)
  BY <1>3, <1>5 DEF Display!Before
<1>8. \A p, q \in Display!Plot : p # q => Display!Before(p, q) \/ Display!Before(q, p)
  BY <1>3, <1>4, <1>5, <1>6 DEF Display!Before
<1>9. \A p, q, r \in Display!Plot :
         Display!Before(p, q) /\ Display!Before(q, r) => Display!Before(p, r)
  BY <1>3, <1>5, <1>6 DEF Display!Before
<1> QED
  BY <1>7, <1>8, <1>9

\* A list of plots, each once, is as long as its set.
LEMMA ListAndSet ==
  ASSUME NEW U, NEW s \in Seq(U), \A i, j \in DOMAIN s : s[i] = s[j] => i = j
  PROVE  IsFiniteSet(Elements(s)) /\ Cardinality(Elements(s)) = Len(s)
<1>1. s \in [1..Len(s) -> Elements(s)] /\ Len(s) \in Nat /\ DOMAIN s = 1..Len(s)
  BY DEF Elements
<1>2. s \in Bijection(1..Len(s), Elements(s))
  BY <1>1 DEF Bijection, Injection, Surjection, IsInjective, Elements
<1>3. ExistsBijection(1..Len(s), Elements(s))
  BY <1>2 DEF ExistsBijection
<1> QED
  BY <1>1, <1>3, FS_NatBijection, FS_CountingElements

SortedGood ==
    /\ Display!SortedData \in Seq(Display!Plot)
    /\ Len(Display!SortedData) = Len(Display!FilteredData)
    /\ Display!ToSet(Display!SortedData) = Display!ToSet(Display!FilteredData)
    /\ Display!FilteredData \in Seq(Display!Plot)

\* Every filtered plot has its own number of plots before it, and every number is there.
LEMMA SortedByRank ==
  ASSUME ViewConstants, Sortable, sort # Nil
  PROVE  SortedGood
<1> DEFINE F == Display!ToSet(Display!FilteredData)
           n == Len(Display!FilteredData)
           earlier(p) == {q \in F : Display!Before(q, p)}
           place == [p \in F |-> Cardinality(earlier(p))]
           sorted == Display!SortedData
<1>1. /\ Display!FilteredData \in Seq(Display!Plot) /\ n \in Nat
      /\ DOMAIN Display!FilteredData = 1..n /\ F \subseteq Display!Plot
  BY FilteredPlots DEF Display!ToSet
<1>2. IsFiniteSet(F) /\ Cardinality(F) = n
  <2>1. F = Elements(Display!FilteredData)
    BY DEF Elements, Display!ToSet
  <2> QED
    BY <2>1, FilteredPlots, ListAndSet
<1>3. sorted = [i \in 1..n |-> CHOOSE p \in F : Cardinality(earlier(p)) = i - 1]
  <2>1. sorted = [i \in DOMAIN Display!FilteredData |->
                     CHOOSE p \in F : Cardinality(earlier(p)) = i - 1]
    BY Zenon DEF Display!SortedData, Display!Cardinality, Cardinality
  <2> HIDE DEF sorted, F, earlier
  <2> QED
    BY <1>1, <2>1, Zenon
<1> HIDE DEF F, n, sorted
<1>4. \A p \in F : IsFiniteSet(earlier(p)) /\ Cardinality(earlier(p)) \in 0..(n - 1)
  <2> SUFFICES ASSUME NEW p \in F
               PROVE  IsFiniteSet(earlier(p)) /\ Cardinality(earlier(p)) \in 0..(n - 1)
    OBVIOUS
  <2>1. IsFiniteSet(F \ {p}) /\ Cardinality(F \ {p}) = n - 1
    BY <1>2, FS_RemoveElement
  <2>2. earlier(p) \in SUBSET (F \ {p})
    BY <1>1, BeforeOrder
  <2> HIDE DEF earlier
  <2>3. IsFiniteSet(earlier(p)) /\ Cardinality(earlier(p)) <= n - 1
    BY <2>1, <2>2, FS_Subset
  <2>4. Cardinality(earlier(p)) \in Nat
    BY <2>3, FS_CardinalityType
  <2> QED
    BY <1>1, <2>3, <2>4
\* What is before p is before q too, and p is.
<1>5. ASSUME NEW p \in F, NEW q \in F, Display!Before(p, q)
      PROVE  Cardinality(earlier(p)) < Cardinality(earlier(q))
  <2>1. earlier(p) \in SUBSET earlier(q)
    BY <1>1, <1>5, BeforeOrder
  <2>2. p \in earlier(q) /\ p \notin earlier(p)
    BY <1>1, <1>5, BeforeOrder
  <2>3. Cardinality(earlier(p)) \in Int /\ Cardinality(earlier(q)) \in Int /\ IsFiniteSet(earlier(q))
    BY <1>4
  <2> HIDE DEF earlier
  <2>4. /\ Cardinality(earlier(p)) <= Cardinality(earlier(q))
        /\ Cardinality(earlier(p)) # Cardinality(earlier(q))
    BY <2>1, <2>2, <2>3, FS_Subset
  <2> QED
    BY <2>3, <2>4
<1>6. \A p, q \in F : Cardinality(earlier(p)) = Cardinality(earlier(q)) => p = q
  <2> SUFFICES ASSUME NEW p \in F, NEW q \in F, p # q
               PROVE  Cardinality(earlier(p)) # Cardinality(earlier(q))
    OBVIOUS
  <2>1. Display!Before(p, q) \/ Display!Before(q, p)
    BY <1>1, BeforeOrder
  <2>2. /\ Cardinality(earlier(p)) \in Int /\ Cardinality(earlier(q)) \in Int
        /\ \/ Cardinality(earlier(p)) < Cardinality(earlier(q))
           \/ Cardinality(earlier(q)) < Cardinality(earlier(p))
    BY <1>4, <1>5, <2>1
  <2> HIDE DEF earlier
  <2> QED
    BY <2>2
<1> HIDE DEF earlier
<1>7. place \in Injection(F, 0..(n - 1))
  BY <1>4, <1>6 DEF Injection, IsInjective
<1>8. place \in Surjection(F, 0..(n - 1))
  <2>1. IsFiniteSet(0..(n - 1)) /\ Cardinality(0..(n - 1)) = n
    BY <1>1, FS_Interval
  <2> HIDE DEF place
  <2> QED
    BY <1>2, <1>7, <2>1, FS_Injection
<1>9. \A k \in 0..(n - 1) : \E p \in F : Cardinality(earlier(p)) = k
  BY <1>8 DEF Surjection
<1>10. \A i \in 1..n : sorted[i] \in F /\ Cardinality(earlier(sorted[i])) = i - 1
  <2> SUFFICES ASSUME NEW i \in 1..n
               PROVE  sorted[i] \in F /\ Cardinality(earlier(sorted[i])) = i - 1
    OBVIOUS
  <2>1. i - 1 \in 0..(n - 1)
    BY <1>1
  <2>2. \E p \in F : Cardinality(earlier(p)) = i - 1
    BY <1>9, <2>1
  <2>3. sorted[i] = CHOOSE p \in F : Cardinality(earlier(p)) = i - 1
    BY <1>3
  <2> QED
    BY <2>2, <2>3
<1>11. \A p \in F : \E i \in 1..n : sorted[i] = p
  <2> SUFFICES ASSUME NEW p \in F PROVE \E i \in 1..n : sorted[i] = p
    OBVIOUS
  <2> DEFINE i == Cardinality(earlier(p)) + 1
  <2>1. i \in 1..n /\ i - 1 = Cardinality(earlier(p))
    BY <1>1, <1>4
  <2>2. sorted[i] = p
    BY <1>6, <1>10, <2>1
  <2> QED
    BY <2>1, <2>2
<1>12. DOMAIN sorted = 1..n
  BY <1>3
<1>13. sorted \in Seq(Display!Plot) /\ Len(sorted) = n
  BY <1>1, <1>3, <1>10
<1>14. Display!ToSet(sorted) = F
  BY <1>10, <1>11, <1>12 DEF Display!ToSet
<1> QED
  BY <1>1, <1>13, <1>14 DEF SortedGood, F, n, sorted

LEMMA SortedPlots == ASSUME ViewConstants PROVE Sortable => SortedGood
<1>1. sort = Nil => SortedGood
  BY FilteredPlots DEF SortedGood, Display!SortedData
<1> QED
  BY <1>1, SortedByRank

LEMMA SortedPlotsNext == ASSUME ViewConstants PROVE Sortable' => SortedGood'
  BY SortedPlots, PTL

-----------------------------------------------------------------------------
(* The layer of the map, and what every render keeps *)

LayerOK ==
    /\ layer.sorted \in Seq(Display!Plot) /\ layer.drawn = Display!ToSet(layer.sorted)
    /\ layer.size \in Nat \ {0}
    /\ layer.key # <<>> => layer.key[3] \in layer.drawn \cup {Nil}

Filters == [field : ViewCommodity, value : Display!Value] \cup {Nil}

ViewTypeOK ==
    /\ search \subseteq Display!Plot /\ riskFilter \in Filters /\ commodity \in ViewCommodity
    /\ Sortable
    /\ currentPage \in Nat \ {0} /\ rowsPerPage \in PageSizes
    /\ summaryOpen \in BOOLEAN /\ pickerOpen \in BOOLEAN /\ mapVisible \in BOOLEAN
    /\ Display!FilterIsAtHand /\ Display!OneOverlay

\* A layer on display was made for the selected plot.
SelectionOK ==
    /\ selected \in Display!Plot \cup {Nil}
    /\ Display!SelectedIsListed
    /\ LayerOK
    /\ mapVisible => layer.key = Display!LayerKey

ViewInd == ViewTypeOK /\ SelectionOK

LEMMA NoLayerOK == layer = Display!NoLayer => LayerOK
  BY DEF Display!NoLayer, LayerOK, Display!ToSet

LEMMA NewLayerOK ==
  ASSUME ViewConstants
  PROVE  Sortable /\ rowsPerPage \in PageSizes /\ layer = Display!NewLayer
            => LayerOK /\ layer.key = Display!LayerKey
<1> SUFFICES ASSUME Sortable, rowsPerPage \in PageSizes, layer = Display!NewLayer
             PROVE  LayerOK /\ layer.key = Display!LayerKey
  OBVIOUS
<1>1. SortedGood
  BY SortedPlots
<1>2. /\ layer.key = Display!LayerKey /\ layer.drawn = Display!ToSet(Display!FilteredData)
      /\ layer.sorted = Display!SortedData /\ layer.size = rowsPerPage
  BY DEF Display!NewLayer
<1>3. Display!LayerKey[3] \in Display!ToSet(Display!FilteredData) \cup {Nil}
  BY DEF Display!LayerKey
<1> QED
  BY <1>1, <1>2, <1>3 DEF LayerOK, SortedGood, ViewConstants

LEMMA LayersNext ==
  ASSUME ViewConstants
  PROVE  /\ (layer = Display!NoLayer)' => LayerOK'
         /\ (Sortable /\ rowsPerPage \in PageSizes /\ layer = Display!NewLayer)'
               => (LayerOK /\ layer.key = Display!LayerKey)'
  BY NoLayerOK, NewLayerOK, PTL

\* A selection that is listed is kept, and the layer follows it.
LEMMA RenderKeeps ==
  ASSUME ViewConstants, LayerOK, NEW p \in Display!Plot \cup {Nil},
         Display!Select(p), Display!DrawLayer, ViewTypeOK'
  PROVE  SelectionOK'
<1>1. Sortable' /\ (rowsPerPage \in PageSizes)'
  BY DEF ViewTypeOK
<1>2. selected' \in Display!Plot \cup {Nil} /\ Display!SelectedIsListed'
  BY DEF Display!Select, Display!SelectedIsListed
<1>3. CASE ~mapVisible'
  <2>1. (layer = Display!NoLayer)'
    BY <1>3 DEF Display!DrawLayer, Display!NoLayer
  <2> QED
    BY <1>2, <1>3, <2>1, LayersNext DEF SelectionOK
<1>4. CASE mapVisible' /\ layer.key = Display!LayerKey'
  <2>1. layer' = layer
    BY <1>4 DEF Display!DrawLayer
  <2>2. LayerOK' /\ layer'.key = Display!LayerKey'
    BY <1>4, <2>1 DEF LayerOK
  <2> QED
    BY <1>2, <2>2 DEF SelectionOK
<1>5. CASE mapVisible' /\ layer.key # Display!LayerKey'
  <2>1. (layer = Display!NewLayer)'
    BY <1>5 DEF Display!DrawLayer
  <2>2. (LayerOK /\ layer.key = Display!LayerKey)'
    BY <1>1, <2>1, LayersNext
  <2> QED
    BY <1>2, <2>2 DEF SelectionOK
<1> QED
  BY <1>3, <1>4, <1>5

LEMMA ViewInitInd == ASSUME ViewConstants PROVE Display!Init => ViewInd
<1> SUFFICES ASSUME Display!Init PROVE ViewInd
  OBVIOUS
<1>1. ViewTypeOK
  <2>1. /\ search = Display!Plot /\ riskFilter = Nil /\ indicatorFilter = Nil /\ sort = Nil
        /\ commodity \in ViewCommodity /\ currentPage = 1 /\ rowsPerPage \in PageSizes
        /\ summaryOpen = FALSE /\ pickerOpen = FALSE /\ mapVisible \in BOOLEAN
    BY DEF Display!Init
  <2>2. Display!FilterIsAtHand
    BY <2>1 DEF Display!FilterIsAtHand
  <2>3. Display!OneOverlay
    BY <2>1 DEF Display!OneOverlay
  <2>4. search \subseteq Display!Plot /\ riskFilter \in Filters /\ Sortable
    BY <2>1 DEF Filters, Sortable
  <2>5. summaryOpen \in BOOLEAN /\ pickerOpen \in BOOLEAN
    BY <2>1, Zenon
  <2>6. currentPage \in Nat \ {0}
    BY <2>1
  <2> QED
    BY <2>1, <2>2, <2>3, <2>4, <2>5, <2>6 DEF ViewTypeOK
<1>2. /\ selected = Nil /\ rowsPerPage \in PageSizes
      /\ layer = IF mapVisible THEN Display!NewLayer ELSE Display!NoLayer
  BY DEF Display!Init
<1>3. LayerOK /\ (mapVisible => layer.key = Display!LayerKey)
  BY <1>1, <1>2, NoLayerOK, NewLayerOK DEF ViewTypeOK
<1> QED
  BY <1>1, <1>2, <1>3 DEF ViewInd, SelectionOK, Display!SelectedIsListed

LEMMA ViewPages ==
  ASSUME ViewConstants, ViewTypeOK
  PROVE  /\ Display!TotalPages \in Nat \ {0} /\ Display!SafePage \in Nat \ {0}
         /\ Display!SafePage <= Display!TotalPages
<1> DEFINE n == Len(Display!FilteredData)
           full == (n + rowsPerPage - 1) \div rowsPerPage
<1>1. n \in Nat /\ rowsPerPage \in Nat \ {0} /\ currentPage \in Nat \ {0}
  BY FilteredPlots DEF ViewTypeOK, ViewConstants
<1>2. full \in Nat
  BY <1>1, Z3
<1>3. Display!TotalPages = IF full = 0 THEN 1 ELSE full
  BY DEF Display!TotalPages
<1> HIDE DEF full
<1>4. Display!TotalPages \in Nat \ {0}
  BY <1>2, <1>3
<1> QED
  BY <1>1, <1>4 DEF Display!SafePage

LEMMA ViewNextInd ==
  ASSUME ViewConstants, ViewInd, [Display!Next]_Display!vars
  PROVE  ViewInd'
<1> USE DEF Display!filters, Display!overlays
<1>1. ViewTypeOK /\ SelectionOK /\ LayerOK /\ selected \in Display!Plot \cup {Nil}
  BY DEF ViewInd, SelectionOK
<1>2. Display!SafePage \in Nat \ {0} /\ Display!TotalPages \in Nat \ {0}
  BY <1>1, ViewPages
<1>3. ASSUME Display!Render, ViewTypeOK'
      PROVE  ViewInd'
  BY <1>1, <1>3, RenderKeeps DEF Display!Render, ViewInd
\* The selection, on the table and on the map.
<1>4. ASSUME NEW p \in Display!Plot \cup {Nil}, Display!Select(p), Display!DrawLayer,
             UNCHANGED <<search, riskFilter, indicatorFilter, commodity, sort, rowsPerPage,
                         summaryOpen, pickerOpen, mapVisible>>,
             currentPage' \in Nat \ {0}
      PROVE  ViewInd'
  <2>1. ViewTypeOK'
    BY <1>1, <1>4 DEF ViewTypeOK, Sortable, Display!FilterIsAtHand, Display!OneOverlay
  <2> QED
    BY <1>1, <1>4, <2>1, RenderKeeps DEF ViewInd
<1>5. ASSUME NEW p \in Display!Plot \cup {Nil}, Display!ChangeSelection(p)
      PROVE  ViewInd'
  BY <1>1, <1>4, <1>5 DEF Display!ChangeSelection, ViewTypeOK
\* The search and the filters, the table, the pages and the map.
<1>6. ASSUME NEW text \in Searches, Display!Type(text)
      PROVE  ViewInd'
  <2>1. /\ search' = text /\ currentPage' = 1 /\ Display!Render
        /\ UNCHANGED <<riskFilter, indicatorFilter, commodity, sort, rowsPerPage, summaryOpen,
                       pickerOpen, mapVisible>>
    BY <1>6 DEF Display!Type
  <2>2. ViewTypeOK'
    BY <1>1, <2>1 DEF ViewTypeOK, Sortable, Display!FilterIsAtHand, Display!OneOverlay, ViewConstants
  <2> QED
    BY <1>3, <2>1, <2>2
<1>7. ASSUME NEW risk \in Filters, NEW indicator, Display!SetFilters(risk, indicator),
             risk # Nil => risk.field = commodity,
             indicator \in {Nil, Water} \cup ViewIndicators[commodity],
             risk = Nil \/ indicator = Nil
      PROVE  ViewInd'
  <2>1. /\ riskFilter' = risk /\ indicatorFilter' = indicator /\ currentPage' = 1 /\ Display!Render
        /\ UNCHANGED <<search, commodity, sort, rowsPerPage, summaryOpen, pickerOpen, mapVisible>>
    BY <1>7 DEF Display!SetFilters
  <2>2. ViewTypeOK'
    BY <1>1, <1>7, <2>1 DEF ViewTypeOK, Sortable, Display!FilterIsAtHand, Display!OneOverlay
  <2> QED
    BY <1>3, <2>1, <2>2
<1>8. ASSUME NEW v \in Display!Value, Display!PressTile(v)
      PROVE  ViewInd'
  <2> DEFINE filter == [field |-> commodity, value |-> v]
             to == IF riskFilter = filter THEN Nil ELSE filter
  <2>1. Display!SetFilters(to, Nil)
    BY <1>8 DEF Display!PressTile, Display!HandleRiskFilter
  <2>2. to \in Filters /\ (to # Nil => to.field = commodity)
    BY <1>1 DEF Filters, ViewTypeOK
  <2> HIDE DEF to
  <2> QED
    BY <1>7, <2>1, <2>2
<1>9. ASSUME NEW i, Display!PressIndicator(i)
      PROVE  ViewInd'
  <2> DEFINE to == IF indicatorFilter = i THEN Nil ELSE i
  <2>1. Display!SetFilters(Nil, to) /\ i \in ViewIndicators[commodity] \cup {Water}
    BY <1>9 DEF Display!PressIndicator
  <2>2. to \in {Nil, Water} \cup ViewIndicators[commodity] /\ Nil \in Filters
    BY <2>1 DEF Filters
  <2> HIDE DEF to
  <2> QED
    BY <1>7, <2>1, <2>2
<1>10. CASE Display!ClearFilter
  <2>1. Display!SetFilters(Nil, Nil) /\ Nil \in Filters
    BY <1>10 DEF Display!ClearFilter, Filters
  <2> QED
    BY <1>7, <2>1
<1>11. ASSUME NEW c \in ViewCommodity, Display!HandleCommodityChange(c)
       PROVE  ViewInd'
  <2>1. /\ commodity' = c /\ Display!Render
        /\ riskFilter' = (IF Display!RiskUnfit(c) THEN Nil ELSE riskFilter)
        /\ indicatorFilter' = (IF Display!IndicatorUnfit(c) THEN Nil ELSE indicatorFilter)
        /\ currentPage' \in {1, currentPage}
        /\ UNCHANGED <<search, sort, rowsPerPage, summaryOpen, pickerOpen, mapVisible>>
    BY <1>11 DEF Display!HandleCommodityChange
  <2>2. riskFilter' \in Filters /\ (riskFilter' # Nil => riskFilter'.field = c)
    BY <1>1, <2>1 DEF Display!RiskUnfit, ViewTypeOK, Filters
  <2>3. indicatorFilter' \in {Nil, Water} \cup ViewIndicators[c]
    BY <2>1 DEF Display!IndicatorUnfit
  <2>4. riskFilter' = Nil \/ indicatorFilter' = Nil
    BY <1>1, <2>1 DEF ViewTypeOK, Display!FilterIsAtHand
  <2>5. Display!FilterIsAtHand'
    BY <2>1, <2>2, <2>3, <2>4 DEF Display!FilterIsAtHand
  <2>6. ViewTypeOK'
    BY <1>1, <2>1, <2>2, <2>5 DEF ViewTypeOK, Sortable, Display!OneOverlay
  <2> QED
    BY <1>3, <2>1, <2>6
<1>12. ASSUME NEW column \in Display!Column, Display!HandleSort(column)
       PROVE  ViewInd'
  <2> DEFINE rising == sort # Nil /\ sort.column = column => ~sort.asc
  <2>1. /\ sort' = [column |-> column, asc |-> rising] /\ currentPage' = 1 /\ Display!Render
        /\ UNCHANGED <<search, riskFilter, indicatorFilter, commodity, rowsPerPage, summaryOpen,
                       pickerOpen, mapVisible>>
    BY <1>12, Zenon DEF Display!HandleSort, Display!filters, Display!overlays
  <2>2. rising \in BOOLEAN
    OBVIOUS
  <2> HIDE DEF rising
  <2>3. Sortable'
    BY <2>1, <2>2 DEF Sortable
  <2>4. ViewTypeOK'
    BY <1>1, <2>1, <2>3 DEF ViewTypeOK, Display!FilterIsAtHand, Display!OneOverlay
  <2> QED
    BY <1>3, <2>1, <2>4
<1>13. ASSUME UNCHANGED <<search, riskFilter, indicatorFilter, commodity, sort, summaryOpen, pickerOpen>>,
              currentPage' \in Nat \ {0}, rowsPerPage' \in PageSizes, mapVisible' \in BOOLEAN,
              Display!Render
       PROVE  ViewInd'
  <2>1. ViewTypeOK'
    BY <1>1, <1>13 DEF ViewTypeOK, Sortable, Display!FilterIsAtHand, Display!OneOverlay
  <2> QED
    BY <1>3, <1>13, <2>1
<1>14. CASE Display!FirstPage \/ Display!PreviousPage \/ Display!NextPage \/ Display!LastPage
  <2>1. /\ currentPage' \in Nat \ {0} /\ Display!Render
        /\ UNCHANGED <<search, riskFilter, indicatorFilter, commodity, sort, rowsPerPage, summaryOpen,
                       pickerOpen, mapVisible>>
    BY <1>2, <1>14 DEF Display!FirstPage, Display!PreviousPage, Display!NextPage, Display!LastPage,
                       Display!TurnTo
  <2> QED
    BY <1>1, <1>13, <2>1 DEF ViewTypeOK
<1>15. ASSUME NEW n \in PageSizes, Display!ChangeRowsPerPage(n)
       PROVE  ViewInd'
  BY <1>1, <1>13, <1>15 DEF Display!ChangeRowsPerPage, ViewTypeOK
<1>16. CASE Display!ToggleMap
  BY <1>1, <1>13, <1>16 DEF Display!ToggleMap, ViewTypeOK
<1>17. ASSUME NEW p \in Display!Plot, Display!PressRow(p) \/ Display!ClickFeature(p)
       PROVE  ViewInd'
  <2>1. CASE Display!PressRow(p)
    BY <1>5, <2>1 DEF Display!PressRow
  <2>2. CASE Display!ClickFeature(p)
    <3> DEFINE i == CHOOSE i \in DOMAIN layer.sorted : layer.sorted[i] = p
    <3>1. p \in Display!ToSet(layer.sorted)
      BY <1>1, <2>2 DEF Display!ClickFeature, LayerOK
    <3>2. i \in DOMAIN layer.sorted
      BY <3>1 DEF Display!ToSet
    <3> HIDE DEF i
    <3>3. i \in Nat \ {0} /\ layer.size \in Nat \ {0}
      BY <1>1, <3>2 DEF LayerOK
    <3>4. Display!PageOf(i, layer.size) \in Nat \ {0}
      BY <3>3, PageOfIndex DEF Display!PageOf
    <3>5. currentPage' = Display!PageOf(i, layer.size)
      BY <2>2 DEF Display!ClickFeature, i
    <3> QED
      BY <1>4, <2>2, <3>4, <3>5 DEF Display!ClickFeature
  <2> QED
    BY <1>17, <2>1, <2>2
\* The overlays.
<1>18. ASSUME NEW summary \in BOOLEAN, NEW picker \in BOOLEAN, Display!ShowOverlay(summary, picker),
              ~(summary /\ picker)
       PROVE  ViewInd'
  <2>1. /\ summaryOpen' = summary /\ pickerOpen' = picker
        /\ UNCHANGED <<search, riskFilter, indicatorFilter, commodity, sort, currentPage, rowsPerPage,
                       selected, mapVisible, layer>>
    BY <1>18 DEF Display!ShowOverlay
  <2>2. ViewTypeOK'
    BY <1>1, <1>18, <2>1 DEF ViewTypeOK, Sortable, Display!FilterIsAtHand, Display!OneOverlay
  <2>3. Display!FilteredData' = Display!FilteredData
    BY <2>1 DEF Display!FilteredData, Display!SearchedData, Display!PassesFilters, Display!Selection
  <2>4. SelectionOK'
    BY <1>1, <2>1, <2>3 DEF SelectionOK, LayerOK, Display!SelectedIsListed, Display!LayerKey
  <2> QED
    BY <2>2, <2>4 DEF ViewInd
<1>19. CASE \/ Display!OpenSummary \/ Display!CloseSummary \/ Display!OpenPicker \/ Display!ClosePicker
            \/ Display!Escape \/ Display!ClearSelection
  <2>1. summaryOpen \in BOOLEAN /\ pickerOpen \in BOOLEAN /\ ~(summaryOpen /\ pickerOpen)
    BY <1>1 DEF ViewTypeOK, Display!OneOverlay
  <2>2. \/ \E summary, picker \in BOOLEAN :
              Display!ShowOverlay(summary, picker) /\ ~(summary /\ picker)
        \/ Display!ChangeSelection(Nil)
    BY <1>19, <2>1 DEF Display!OpenSummary, Display!CloseSummary, Display!OpenPicker, Display!ClosePicker,
                       Display!Escape, Display!ClearSelection
  <2> QED
    BY <1>5, <1>18, <2>2
<1>20. CASE UNCHANGED Display!vars
  <2>1. UNCHANGED <<search, riskFilter, indicatorFilter, commodity, sort, currentPage, rowsPerPage,
                    selected, mapVisible, layer, summaryOpen, pickerOpen>>
    BY <1>20 DEF Display!vars
  <2>2. Display!ShowOverlay(summaryOpen, pickerOpen)
    BY <2>1 DEF Display!ShowOverlay
  <2> QED
    BY <1>1, <1>18, <2>2 DEF ViewTypeOK, Display!OneOverlay
<1> QED
  BY <1>6, <1>8, <1>9, <1>10, <1>11, <1>12, <1>14, <1>15, <1>16, <1>17, <1>19, <1>20, Zenon
     DEF Display!Next

LEMMA ViewFits ==
  ASSUME ViewConstants, ViewInd
  PROVE  Display!ViewInv
<1>1. ViewTypeOK /\ SelectionOK /\ LayerOK
  BY DEF ViewInd, SelectionOK
<1>2. SortedGood
  BY <1>1, SortedPlots DEF ViewTypeOK
<1>3. Display!TypeOK
  <2>1. layer.drawn \subseteq Display!Plot
    BY <1>1 DEF LayerOK, Display!ToSet
  <2> QED
    BY <1>1, <2>1 DEF ViewTypeOK, SelectionOK, Filters, Sortable, Display!TypeOK
<1>4. Display!SelectionIsDrawn
  <2> SUFFICES ASSUME mapVisible, selected # Nil PROVE selected \in layer.drawn
    BY DEF Display!SelectionIsDrawn
  <2>1. layer.key = Display!LayerKey /\ selected \in Display!ToSet(Display!FilteredData)
    BY <1>1 DEF SelectionOK, Display!SelectedIsListed
  <2>2. layer.key # <<>> /\ layer.key[3] = selected
    BY <2>1 DEF Display!LayerKey
  <2> QED
    BY <1>1, <2>2 DEF LayerOK
<1>5. Display!PageHasRows
  <2> SUFFICES ASSUME Display!FilteredData # <<>> PROVE Display!PageData # <<>>
    BY DEF Display!PageHasRows
  <2> DEFINE s == Display!SortedData
             c == Display!SafePage
             r == rowsPerPage
             from == (c - 1) * r + 1
             to == IF c * r > Len(s) THEN Len(s) ELSE c * r
  <2>1. s \in Seq(Display!Plot) /\ Len(s) = Len(Display!FilteredData) /\ Len(s) \in Nat \ {0}
    BY <1>2 DEF SortedGood
  <2>2. r \in Nat \ {0}
    BY <1>1 DEF ViewTypeOK, ViewConstants
  <2>3. c \in Nat \ {0} /\ c <= Display!TotalPages
    BY <1>1, ViewPages
  <2>4. (Len(s) + r - 1) \div r \in Nat \ {0}
    BY <2>1, <2>2, PagesOfRows
  <2>5. Display!TotalPages = (Len(s) + r - 1) \div r
    BY <2>1, <2>4 DEF Display!TotalPages
  <2>6. Display!PageData = SubSeq(s, from, to)
    BY DEF Display!PageData
  <2> HIDE DEF s, c, r
  <2>7. from \in 1..Len(s) /\ to \in from..Len(s)
    <3> DEFINE n == Len(s)
    <3>1. n \in Nat \ {0} /\ c <= (n + r - 1) \div r
      BY <2>1, <2>3, <2>5
    <3>2. from = (c - 1) * r + 1 /\ to = IF c * r > n THEN n ELSE c * r
      OBVIOUS
    <3> HIDE DEF n, from, to
    <3>3. from \in 1..n /\ to \in from..n
      BY <2>2, <2>3, <3>1, <3>2, PageRange
    <3> QED
      BY <3>3 DEF n
  <2> HIDE DEF from, to
  <2>8. SubSeq(s, from, to) # <<>>
    BY <2>1, <2>7, RangeHasRows
  <2> QED
    BY <2>6, <2>8
<1> QED
  BY <1>1, <1>3, <1>4, <1>5 DEF ViewTypeOK, SelectionOK, Display!ViewInv

\* The number on a tile, or on an indicator, is of the plots that the filter leaves.
LEMMA ViewTiles ==
  ASSUME ViewConstants, ViewInd
  PROVE  /\ \A v \in Display!Value : Display!PressTile(v) /\ riskFilter' # Nil
                => Len(Display!FilteredData') = Display!TileCount(v)
         /\ \A i \in ViewIndicators[commodity] \cup {Water} :
                Display!PressIndicator(i) /\ indicatorFilter' # Nil
                => Len(Display!FilteredData') = Display!IndicatorCount(i)
<1>1. ASSUME NEW v \in Display!Value, Display!PressTile(v), riskFilter' # Nil
      PROVE  Len(Display!FilteredData') = Display!TileCount(v)
  <2>1. /\ riskFilter' = [field |-> commodity, value |-> v] /\ indicatorFilter' = Nil
        /\ UNCHANGED <<search, commodity>>
    BY <1>1 DEF Display!PressTile, Display!HandleRiskFilter, Display!SetFilters
  <2>2. \A p : Display!PassesFilters(p)' <=> ViewRisk[p][commodity] = v
    BY <1>1, <2>1 DEF Display!PassesFilters
  <2>3. {p \in Display!Plot : Display!PassesFilters(p)'} = {p \in Display!Plot : ViewRisk[p][commodity] = v}
    BY <2>2
  <2>4. Display!FilteredData' =
           Display!Selection(Display!SearchedData, {p \in Display!Plot : Display!PassesFilters(p)'})
    BY <2>1 DEF Display!FilteredData, Display!SearchedData, Display!Selection
  <2> QED
    BY <2>3, <2>4 DEF Display!TileCount
<1>2. ASSUME NEW i \in ViewIndicators[commodity] \cup {Water}, Display!PressIndicator(i),
             indicatorFilter' # Nil
      PROVE  Len(Display!FilteredData') = Display!IndicatorCount(i)
  <2>1. indicatorFilter' = i /\ riskFilter' = Nil /\ UNCHANGED <<search, commodity>>
    BY <1>2 DEF Display!PressIndicator, Display!SetFilters
  <2>2. \A p : Display!PassesFilters(p)' <=> i \in ViewYes[p]
    BY <1>2, <2>1 DEF Display!PassesFilters
  <2>3. {p \in Display!Plot : Display!PassesFilters(p)'} = {p \in Display!Plot : i \in ViewYes[p]}
    BY <2>2
  <2>4. Display!FilteredData' =
           Display!Selection(Display!SearchedData, {p \in Display!Plot : Display!PassesFilters(p)'})
    BY <2>1 DEF Display!FilteredData, Display!SearchedData, Display!Selection
  <2> QED
    BY <2>3, <2>4 DEF Display!IndicatorCount
<1> QED
  BY <1>1, <1>2

\* A click on a layer that is not stale.
LEMMA ViewClicks ==
  ASSUME ViewConstants, ViewInd, NEW p \in Display!Plot, Display!ClickFeature(p),
         layer.sorted = Display!SortedData, layer.size = rowsPerPage
  PROVE  p \in Display!ToSet(Display!PageData') /\ selected' = p
<1> DEFINE s == Display!SortedData
           r == rowsPerPage
           i == CHOOSE j \in DOMAIN s : s[j] = p
           c == Display!PageOf(i, r)
           from == (c - 1) * r + 1
           n == Len(s)
           to == IF c * r > n THEN n ELSE c * r
<1>1. ViewTypeOK /\ LayerOK /\ SortedGood
  BY SortedPlots DEF ViewInd, SelectionOK, ViewTypeOK
<1>2. /\ currentPage' = c /\ UNCHANGED <<search, riskFilter, indicatorFilter, sort, rowsPerPage>>
      /\ Display!Select(p) /\ p \in layer.drawn
  BY DEF Display!ClickFeature, Display!filters
<1>3. p \in Display!ToSet(s)
  BY <1>1, <1>2 DEF LayerOK
<1>4. i \in DOMAIN s /\ s[i] = p
  BY <1>3 DEF Display!ToSet
<1>5. Display!FilteredData' = Display!FilteredData
  BY <1>2 DEF Display!FilteredData, Display!SearchedData, Display!PassesFilters, Display!Selection
<1>6. Display!SortedData' = s
  BY <1>2, <1>5 DEF Display!SortedData, Display!Before, Display!Place
<1>7. selected' = p
  BY <1>1, <1>2, <1>3, <1>5 DEF Display!Select, SortedGood, Display!ToSet
<1>8. s \in Seq(Display!Plot) /\ Len(s) = Len(Display!FilteredData) /\ r \in Nat \ {0}
  BY <1>1 DEF SortedGood, ViewTypeOK, ViewConstants
<1> HIDE DEF s, r, i
<1>9. i \in 1..n /\ i \in Nat \ {0} /\ i <= n /\ n \in Nat \ {0}
  BY <1>4, <1>8
<1>10. c = ((i - 1) \div r) + 1
  BY DEF Display!PageOf
<1>11. from = (c - 1) * r + 1 /\ to = IF c * r > n THEN n ELSE c * r
  OBVIOUS
<1> HIDE DEF c, n, from, to
<1>12. c \in Nat \ {0} /\ (c - 1) * r + 1 <= i /\ i <= c * r /\ c <= (n + r - 1) \div r
  <2>1. r \in Nat \ {0}
    BY <1>8
  <2> QED
    BY <1>9, <1>10, <2>1, PageOfIndex, Z3
<1>13. from \in 1..n /\ to \in from..n /\ \A k \in 1..n : k <= c * r => k <= to
  BY <1>8, <1>9, <1>12, <1>11, PageRange
<1>14. i \in from..to
  <2>1. from <= i
    BY <1>12, <1>11
  <2>2. i <= to
    BY <1>9, <1>12, <1>13
  <2> QED
    BY <1>9, <1>13, <2>1, <2>2
<1>15. (n + r - 1) \div r \in Nat \ {0}
  BY <1>8, <1>9, PagesOfRows
<1>16. Display!TotalPages' = (n + r - 1) \div r
  BY <1>2, <1>5, <1>8, <1>15 DEF Display!TotalPages, r, n
<1>17. Display!SafePage' = c
  BY <1>2, <1>12, <1>15, <1>16 DEF Display!SafePage
<1>18. Display!PageData' = SubSeq(s, from, to)
  BY <1>2, <1>6, <1>17 DEF Display!PageData, r, n, from, to
<1>19. \E j \in DOMAIN SubSeq(s, from, to) : SubSeq(s, from, to)[j] = s[i]
  BY <1>8, <1>14, <1>13, RangeHas DEF n
<1> QED
  BY <1>4, <1>7, <1>18, <1>19 DEF Display!ToSet

\* Of the view of the results and of the picker of its columns, for any plots, filters,
\* orders and fields, whatever is pressed in whatever order: the selected plot is among the
\* filtered ones and is drawn on the map, also on a layer that was made in an earlier
\* render; the filter that is on can be taken away where it was set; a page that can have
\* rows has some; one overlay is open at most; and the picker ticks what is selected.
THEOREM ViewInvHolds ==
  ASSUME ViewConstants, PickerConstants
  PROVE  Display!Spec /\ Picker!Spec => []ViewInv
<1>1. Display!Init => ViewInd
  BY ViewInitInd
<1>2. ViewInd /\ [Display!Next]_Display!vars => ViewInd'
  BY ViewNextInd
<1>3. Picker!Init => PickerInd
  BY PickerInitInd
<1>4. PickerInd /\ [Picker!Next]_Picker!vars => PickerInd'
  BY PickerNextInd
<1>5. ViewInd /\ PickerInd => ViewInv
  BY ViewFits, PickerFits DEF ViewInv
<1> QED
  BY <1>1, <1>2, <1>3, <1>4, <1>5, PTL DEF Display!Spec, Picker!Spec

\* The number on a tile or on an indicator, on the page and in the file, is the number of
\* rows that pressing it leaves; and a click on a plot of a layer that is not stale turns to
\* the page on which its row is.
THEOREM NumbersAreHonestHolds ==
  ASSUME ViewConstants, ReportConstants
  PROVE  Display!Spec /\ File!Spec => NumbersAreHonest
<1>1. Display!Init => ViewInd
  BY ViewInitInd
<1>2. ViewInd /\ [Display!Next]_Display!vars => ViewInd'
  BY ViewNextInd
<1>3. ViewInd => [/\ \A v \in Display!Value : Display!PressTile(v) /\ riskFilter' # Nil
                         => Len(Display!FilteredData') = Display!TileCount(v)
                  /\ \A i \in ViewIndicators[commodity] \cup {Water} :
                         Display!PressIndicator(i) /\ indicatorFilter' # Nil
                         => Len(Display!FilteredData') = Display!IndicatorCount(i) ]_Display!vars
  BY ViewTiles
<1>4. ViewInd => [\A p \in Display!Plot :
                     Display!ClickFeature(p) /\ layer.sorted = Display!SortedData
                                             /\ layer.size = rowsPerPage
                     => p \in Display!ToSet(Display!PageData') /\ selected' = p]_Display!vars
  BY ViewClicks
<1> QED
  BY <1>1, <1>2, <1>3, <1>4, FileCountsAreRows, PTL
     DEF Display!Spec, NumbersAreHonest, Display!TilesAreHonest, Display!ClickTurnsToRow

-----------------------------------------------------------------------------
(* The decision trees of the overview *)

TreeConstants ==
    IsFiniteSet(TreePlots) /\ Nil \notin TreePlots /\ TreesAsked \subseteq Overview!Commodity

\* The answers y come to node k of a tree.
ComesTo(tree, k, y) == \A j \in 1..(k - 1) : Overview!Branch(tree[j], y) = "continue"

\* The rows that come to a node, those of them that say yes, and what is asked and
\* counted at it.
Came(k) == {p \in searched : ComesTo(Overview!Tree, k, yes[p])}

Said(k) == {p \in Came(k) : Overview!Test(Overview!Tree[k], yes[p])}

SideAt(k) ==
    IF followed \notin Came(k) THEN "null"
    ELSE IF followed \in Said(k) THEN "yes" ELSE "no"

StepAt(k) ==
    [yesCount |-> Cardinality(Said(k)), noCount |-> Cardinality(Came(k) \ Said(k)),
     yesOutcome |-> Overview!Tree[k].yes, noOutcome |-> Overview!Tree[k].no,
     selectedSide |-> SideAt(k), disabled |-> followed # Nil /\ SideAt(k) = "null"]

\* What remains and what was pushed, by the rows and their answers alone.
TreeInd ==
    /\ Overview!TypeOK
    /\ remaining = Came(node)
    /\ active = (followed # Nil /\ (node = 1 \/ followed \in Came(node)))
    /\ steps = [k \in 1..(node - 1) |-> StepAt(k)]

\* The nodes of the trees.
LEMMA TreeNodes ==
  /\ Overview!HasTreecover = [test |-> Overview!Yes("treecover"), yes |-> "continue", no |-> "low"]
  /\ Overview!HasCommodities = [test |-> Overview!Yes("commodities"), yes |-> "low", no |-> "continue"]
  /\ Overview!DisturbedBefore =
        [test |-> Overview!Yes("disturbanceBefore"), yes |-> "low", no |-> "continue"]
  /\ Overview!DisturbedAfter =
        [test |-> Overview!Yes("disturbanceAfter"), yes |-> "high", no |-> "more_info_needed"]
BY DEF Overview!HasTreecover, Overview!HasCommodities, Overview!DisturbedBefore,
       Overview!DisturbedAfter, Overview!Node, Overview!MoreInfo

\* A tree is a list of nodes, of which each stops on one side at least, and the last one
\* on both.
NodeOK(n) ==
    /\ n.yes \in Overview!Outcomes \cup {"continue"} /\ n.no \in Overview!Outcomes \cup {"continue"}
    /\ ~ (n.yes = "continue" /\ n.no = "continue")

TreeOK(tree) ==
    /\ tree \in Seq({tree[k] : k \in DOMAIN tree}) /\ Len(tree) > 0
    /\ \A k \in 1..Len(tree) : NodeOK(tree[k])
    /\ tree[Len(tree)].yes # "continue" /\ tree[Len(tree)].no # "continue"

LEMMA CommodityIs == Overview!Commodity = {"pcrop", "acrop", "timber"}
BY DEF Overview!Commodity, Overview!Indicators

LEMMA TreeIsOK ==
  ASSUME NEW c \in Overview!Commodity
  PROVE  TreeOK(Overview!Trees[c])
<1> DEFINE out == Overview!Outcomes
<1>1. "low" \in out /\ "high" \in out /\ "more_info_needed" \in out
      /\ "low" # "continue" /\ "high" # "continue" /\ "more_info_needed" # "continue"
  BY DEF Overview!Outcomes, Overview!MoreInfo
<1>2. /\ NodeOK(Overview!HasTreecover) /\ NodeOK(Overview!HasCommodities)
      /\ NodeOK(Overview!DisturbedBefore) /\ NodeOK(Overview!DisturbedAfter)
  BY <1>1, TreeNodes DEF NodeOK
<1>3. CASE c = "pcrop"
  <2>1. Overview!Trees[c] = <<Overview!HasTreecover, Overview!HasCommodities,
                              Overview!DisturbedBefore, Overview!DisturbedAfter>>
    BY <1>3 DEF Overview!Trees, Overview!PcropTree
  <2> QED
    BY <1>1, <1>2, <2>1, TreeNodes DEF TreeOK
<1>4. CASE c = "acrop"
  <2>1. Overview!Trees[c] = <<Overview!HasTreecover, Overview!HasCommodities,
                              Overview!DisturbedAfter>>
    BY <1>4 DEF Overview!Trees, Overview!AcropTree
  <2> QED
    BY <1>1, <1>2, <2>1, TreeNodes DEF TreeOK
<1>5. CASE c = "timber"
  <2> DEFINE t == Overview!TimberTree
  <2>1. Overview!Trees[c] = t
    BY <1>5 DEF Overview!Trees
  <2>2. /\ Len(t) = 6 /\ DOMAIN t = 1..6
        /\ t[1].yes = "low" /\ t[1].no = "continue"
        /\ t[2].yes = "low" /\ t[2].no = "continue"
        /\ t[3].yes = "high" /\ t[3].no = "continue"
        /\ t[4].yes = "high" /\ t[4].no = "continue"
        /\ t[5].yes = "low" /\ t[5].no = "continue"
        /\ t[6].yes = "more_info_needed" /\ t[6].no = "low"
    BY TreeNodes DEF Overview!TimberTree, Overview!Node, Overview!MoreInfo
  <2>3. t = [k \in 1..6 |-> t[k]]
    BY DEF Overview!TimberTree
  <2> HIDE DEF t
  <2>4. \A k \in 1..6 : k \in {1, 2, 3, 4, 5, 6}
    OBVIOUS
  <2>5. \A k \in 1..6 : NodeOK(t[k])
    BY <1>1, <2>2, <2>4 DEF NodeOK
  <2>6. t \in Seq({t[k] : k \in DOMAIN t})
    BY <2>2, <2>3
  <2> QED
    BY <1>1, <2>1, <2>2, <2>5, <2>6 DEF TreeOK
<1> QED
  BY <1>3, <1>4, <1>5, CommodityIs

LEMMA ComesToNext ==
  ASSUME NEW tree, NEW y, NEW k \in Nat \ {0}
  PROVE  ComesTo(tree, k + 1, y) <=>
            ComesTo(tree, k, y) /\ Overview!Branch(tree[k], y) = "continue"
<1>1. \A j : j \in 1..((k + 1) - 1) <=> j \in 1..(k - 1) \/ j = k
  OBVIOUS
<1> QED
  BY <1>1 DEF ComesTo

LEMMA BranchIs ==
  ASSUME NEW n, NodeOK(n), NEW y
  PROVE  Overview!Branch(n, y) \in Overview!Outcomes \cup {"continue"}
BY DEF NodeOK, Overview!Branch

\* The node of a tree that the answers come to and stop at.
StopsAt(tree, k, y) ==
    ComesTo(tree, k, y) /\ Overview!Branch(tree[k], y) # "continue"

LEMMA FirstStop ==
  ASSUME NEW tree, TreeOK(tree), NEW y
  PROVE  \E k \in 1..Len(tree) : StopsAt(tree, k, y)
<1> DEFINE m == Len(tree)
<1>1. m \in Nat \ {0}
  BY DEF TreeOK
<1>2. Overview!Branch(tree[m], y) # "continue"
  BY DEF TreeOK, Overview!Branch
<1> HIDE DEF m
<1> SUFFICES ASSUME \A k \in 1..m : ~StopsAt(tree, k, y) PROVE FALSE
  BY DEF m
<1> DEFINE S == {n \in Nat : n < m => ComesTo(tree, n + 1, y)}
<1>3. 0 \in S
  BY DEF ComesTo
<1>4. ASSUME NEW n \in Nat, n \in S PROVE n + 1 \in S
  <2> SUFFICES ASSUME n + 1 < m PROVE ComesTo(tree, (n + 1) + 1, y)
    OBVIOUS
  <2>1. n < m /\ n + 1 \in 1..m /\ n + 1 \in Nat \ {0}
    BY <1>1
  <2>2. ComesTo(tree, n + 1, y)
    BY <1>4, <2>1
  <2>3. Overview!Branch(tree[n + 1], y) = "continue"
    BY <2>1, <2>2 DEF StopsAt
  <2> QED
    BY <2>1, <2>2, <2>3, ComesToNext
<1>5. Nat \subseteq S
  <2> HIDE DEF S
  <2> QED
    BY <1>3, <1>4, SetInduction
<1>6. m - 1 \in S
  <2> HIDE DEF S
  <2> QED
    BY <1>1, <1>5
<1>7. ComesTo(tree, m, y)
  <2>1. m - 1 < m /\ (m - 1) + 1 = m
    BY <1>1
  <2> QED
    BY <1>6, <2>1
<1> QED
  BY <1>1, <1>2, <1>7 DEF StopsAt

\* The answers come to the nodes up to the one they stop at.
LEMMA ComeUpToStop ==
  ASSUME NEW tree, NEW y, NEW k \in Nat \ {0}, StopsAt(tree, k, y), NEW j \in Nat \ {0}
  PROVE  ComesTo(tree, j, y) <=> j <= k
<1>1. CASE j <= k
  <2>1. \A i \in 1..(j - 1) : i \in 1..(k - 1)
    BY <1>1
  <2> QED
    BY <1>1, <2>1 DEF StopsAt, ComesTo
<1>2. CASE k < j
  <2>1. k \in 1..(j - 1) /\ ~ (j <= k)
    BY <1>2
  <2> QED
    BY <2>1 DEF StopsAt, ComesTo
<1> QED
  BY <1>1, <1>2

\* They decide there.
LEMMA DecisionAtStop ==
  ASSUME NEW c \in Overview!Commodity, NEW y, NEW k \in 1..Len(Overview!Trees[c]),
         StopsAt(Overview!Trees[c], k, y)
  PROVE  Overview!Decision(c, y) = Overview!Branch(Overview!Trees[c][k], y)
<1> DEFINE tree == Overview!Trees[c]
           stops == {j \in DOMAIN tree : Overview!Branch(tree[j], y) # "continue"}
<1>1. DOMAIN tree = 1..Len(tree) /\ Len(tree) \in Nat
  BY TreeIsOK DEF TreeOK
<1> HIDE DEF tree
<1>2. k \in stops
  BY <1>1 DEF StopsAt, tree
<1>3. ASSUME NEW j \in stops PROVE k <= j
  <2>1. j \in Nat \ {0} /\ j \in DOMAIN tree
    BY <1>1
  <2>2. CASE j < k
    <3>1. j \in 1..(k - 1)
      BY <2>1, <2>2
    <3> QED
      BY <3>1 DEF StopsAt, ComesTo, tree
  <2> QED
    BY <1>1, <2>1, <2>2 DEF tree
<1>4. \A x \in stops : x \in Nat
  BY <1>1
<1> HIDE DEF stops
<1>5. Overview!Min(stops) = k
  <2>1. \A x \in stops : (\A j \in stops : x <= j) => x = k
    BY <1>1, <1>2, <1>3, <1>4
  <2>2. \E x \in stops : \A j \in stops : x <= j
    BY <1>2, <1>3
  <2> DEFINE q == CHOOSE x \in stops : \A j \in stops : x <= j
  <2>3. q \in stops /\ \A j \in stops : q <= j
    BY <2>2
  <2>4. q = k
    <3> HIDE DEF q
    <3> QED
      BY <2>1, <2>3
  <2> QED
    BY <2>4 DEF Overview!Min
<1>6. Overview!Decision(c, y) = Overview!Branch(tree[Overview!Min(stops)], y)
  BY Zenon DEF Overview!Decision, stops, tree
<1> QED
  BY <1>5, <1>6 DEF tree

LEMMA RowsStayRows ==
  ASSUME UNCHANGED <<treeCommodity, yes, searched, followed>>, NEW k
  PROVE  Came(k)' = Came(k) /\ Said(k)' = Said(k) /\ StepAt(k)' = StepAt(k)
BY DEF Came, Said, StepAt, SideAt, Overview!Tree

LEMMA TreeType ==
  ASSUME TreeConstants, Overview!TypeOK
  PROVE  /\ treeCommodity \in Overview!Commodity /\ TreeOK(Overview!Tree)
         /\ searched \subseteq TreePlots /\ IsFiniteSet(searched) /\ Nil \notin searched
<1>1. TreeOK(Overview!Tree)
  BY TreeIsOK DEF Overview!TypeOK, Overview!Tree
<1>2. searched \subseteq TreePlots /\ treeCommodity \in Overview!Commodity
  BY DEF Overview!TypeOK
<1> QED
  BY <1>1, <1>2, FS_Subset DEF TreeConstants

LEMMA TreeInitInd == ASSUME TreeConstants PROVE Overview!Init => TreeInd
<1> SUFFICES ASSUME Overview!Init PROVE TreeInd
  OBVIOUS
<1>1. Overview!TypeOK
  <2>1. treeCommodity \in Overview!Commodity
    BY DEF Overview!Init, TreeConstants
  <2>2. TreeOK(Overview!Tree)
    BY <2>1, TreeIsOK DEF Overview!Tree
  <2>3. 1 \in 1..(Len(Overview!Tree) + 1)
    BY <2>2 DEF TreeOK
  <2>4. active \in BOOLEAN
    BY DEF Overview!Init
  <2>5. Len(steps) = node - 1
    BY DEF Overview!Init
  <2> QED
    BY <2>1, <2>3, <2>4, <2>5 DEF Overview!Init, Overview!TypeOK
<1>2. remaining = Came(node)
  <2>1. \A y : ComesTo(Overview!Tree, 1, y)
    BY DEF ComesTo
  <2> QED
    BY <2>1 DEF Overview!Init, Came
<1>3. active = (followed # Nil /\ (node = 1 \/ followed \in Came(node)))
  BY DEF Overview!Init
<1>4. steps = [k \in 1..(node - 1) |-> StepAt(k)]
  BY DEF Overview!Init
<1> QED
  BY <1>1, <1>2, <1>3, <1>4 DEF TreeInd

\* The rows that come to the next node are those that go on from this one.
LEMMA CameNext ==
  ASSUME NEW k \in 1..Len(Overview!Tree), NodeOK(Overview!Tree[k])
  PROVE  /\ Came(k + 1) = Overview!GoOn(Overview!Tree[k], Said(k), Came(k) \ Said(k))
         /\ followed \in Came(k + 1) <=>
               SideAt(k) # "null" /\ Overview!Outcome(Overview!Tree[k], SideAt(k)) = "continue"
<1> DEFINE n == Overview!Tree[k]
<1>1. \A p : p \in Came(k + 1) <=> p \in Came(k) /\ Overview!Branch(n, yes[p]) = "continue"
  <2>1. k \in Nat \ {0}
    OBVIOUS
  <2> QED
    BY <2>1, ComesToNext DEF Came
<1>2. \A p : p \in Said(k) <=> p \in Came(k) /\ Overview!Test(n, yes[p])
  BY DEF Said
<1>3. \A p : p \in Came(k) => Overview!Branch(n, yes[p]) = IF p \in Said(k) THEN n.yes ELSE n.no
  BY <1>2 DEF Overview!Branch
<1> HIDE DEF n
<1>4. Came(k + 1) = Overview!GoOn(n, Said(k), Came(k) \ Said(k))
  <2> DEFINE came == Came(k)
             said == Said(k)
             next == Came(k + 1)
  <2>1. /\ \A p : p \in said => p \in came
        /\ \A p : p \in next <=> p \in came /\ (IF p \in said THEN n.yes ELSE n.no) = "continue"
        /\ ~ (n.yes = "continue" /\ n.no = "continue")
    BY <1>1, <1>2, <1>3 DEF NodeOK, n
  <2> HIDE DEF came, said, next
  <2>2. CASE n.yes = "continue"
    <3>1. \A p : p \in next <=> p \in said
      BY <2>1, <2>2, Zenon
    <3> QED
      BY <2>2, <3>1, Zenon DEF Overview!GoOn, said, next
  <2>3. CASE n.yes # "continue" /\ n.no = "continue"
    <3>1. \A p : p \in next <=> p \in came /\ p \notin said
      BY <2>1, <2>3, Zenon
    <3>2. next = came \ said
      BY <3>1
    <3> QED
      BY <2>3, <3>2, Zenon DEF Overview!GoOn, came, said, next
  <2>4. CASE n.yes # "continue" /\ n.no # "continue"
    <3>1. \A p : p \notin next
      BY <2>1, <2>4, Zenon
    <3>2. next = {}
      BY <3>1
    <3> QED
      BY <2>4, <3>2, Zenon DEF Overview!GoOn, next
  <2> QED
    BY <2>2, <2>3, <2>4
<1>5. followed \in Came(k + 1) <=> SideAt(k) # "null" /\ Overview!Outcome(n, SideAt(k)) = "continue"
  BY <1>1, <1>2, <1>3 DEF SideAt, Overview!Outcome
<1> QED
  BY <1>4, <1>5 DEF n

LEMMA TreeNextInd ==
  ASSUME TreeConstants, TreeInd, [Overview!Walk]_Overview!vars
  PROVE  TreeInd'
<1>1. CASE UNCHANGED Overview!vars
  <2>1. UNCHANGED <<treeCommodity, yes, searched, followed, node, remaining, active, steps>>
    BY <1>1 DEF Overview!vars
  <2>2. \A k : Came(k)' = Came(k) /\ StepAt(k)' = StepAt(k)
    BY <2>1, RowsStayRows
  <2>3. Overview!TypeOK'
    BY <2>1 DEF TreeInd, Overview!TypeOK, Overview!Tree
  <2> QED
    BY <2>1, <2>2, <2>3 DEF TreeInd
<1>2. CASE Overview!Walk
  <2> DEFINE n == Overview!Tree[node]
             side == Overview!Side(n)
             yesRows == {p \in remaining : Overview!Test(n, yes[p])}
             noRows == remaining \ yesRows
             pushed == [yesCount |-> Overview!Cardinality(yesRows),
                        noCount |-> Overview!Cardinality(noRows),
                        yesOutcome |-> n.yes, noOutcome |-> n.no,
                        selectedSide |-> side,
                        disabled |-> followed # Nil /\ side = "null"]
  <2>1. /\ steps' = Append(steps, pushed)
        /\ active' = (side # "null" /\ Overview!Outcome(n, side) = "continue")
        /\ remaining' = Overview!GoOn(n, yesRows, noRows)
        /\ node' = node + 1 /\ ~ (node > Len(Overview!Tree))
        /\ UNCHANGED <<treeCommodity, yes, searched, followed>>
    BY <1>2, Zenon DEF Overview!Walk, Overview!Done
  <2>2. \A k : Came(k)' = Came(k) /\ StepAt(k)' = StepAt(k)
    BY <2>1, RowsStayRows
  <2>3. /\ Overview!TypeOK /\ remaining = Came(node)
        /\ active = (followed # Nil /\ (node = 1 \/ followed \in Came(node)))
        /\ steps = [k \in 1..(node - 1) |-> StepAt(k)]
    BY DEF TreeInd
  <2>4. TreeOK(Overview!Tree) /\ Nil \notin searched /\ searched \subseteq TreePlots
    BY <2>3, TreeType
  <2>5. node \in 1..Len(Overview!Tree) /\ Len(Overview!Tree) \in Nat /\ Overview!Tree' = Overview!Tree
    BY <2>1, <2>3, <2>4 DEF Overview!TypeOK, TreeOK, Overview!Tree
  <2>6. NodeOK(n)
    BY <2>4, <2>5 DEF TreeOK
  <2>7. yesRows = Said(node)
    BY <2>3 DEF Said
  <2>8. side = SideAt(node)
    <3>1. followed \in Came(node) => followed # Nil
      BY <2>4 DEF Came
    <3>2. active /\ followed \in remaining <=> followed \in Came(node)
      BY <2>3, <3>1
    <3>3. followed \in Came(node) => (followed \in Said(node) <=> Overview!Test(n, yes[followed]))
      BY DEF Said
    <3> HIDE DEF n
    <3> QED
      BY <3>2, <3>3, Zenon DEF SideAt, Overview!Side
  <2>9. pushed = StepAt(node)
    <3>1. \A S : Overview!Cardinality(S) = Cardinality(S)
      BY Zenon DEF Overview!Cardinality, Cardinality
    <3> QED
      BY <2>3, <2>7, <2>8, <3>1 DEF StepAt
  <2> HIDE DEF pushed
  <2>10. Overview!TypeOK'
    <3>1. Len(steps') = node
      <4>1. Len(steps) = node - 1 /\ steps \in Seq({steps[k] : k \in 1..(node - 1)})
        BY <2>3, <2>5 DEF Overview!TypeOK
      <4> QED
        BY <2>1, <2>5, <4>1
    <3>2. remaining' \subseteq searched'
      <4>1. yesRows \subseteq remaining /\ noRows \subseteq remaining
        OBVIOUS
      <4>2. remaining' \subseteq remaining
        BY <2>1, <4>1 DEF Overview!GoOn
      <4> QED
        BY <2>1, <2>3, <4>2 DEF Overview!TypeOK
    <3>3. node' \in 1..(Len(Overview!Tree) + 1) /\ node' - 1 = node
      BY <2>1, <2>5
    <3>4. active' \in BOOLEAN
      BY <2>1
    <3> HIDE DEF side, yesRows, noRows, n
    <3> QED
      BY <2>1, <2>3, <2>5, <3>1, <3>2, <3>3, <3>4 DEF Overview!TypeOK
  <2>11. remaining' = Came(node + 1)
    <3>1. noRows = Came(node) \ Said(node)
      BY <2>3, <2>7
    <3> QED
      BY <2>1, <2>5, <2>6, <2>7, <3>1, CameNext
  <2>12. active' = (followed # Nil /\ followed \in Came(node + 1))
    <3>1. followed \in Came(node + 1) => followed # Nil
      BY <2>4 DEF Came
    <3>2. followed \in Came(node + 1) <=> side # "null" /\ Overview!Outcome(n, side) = "continue"
      BY <2>5, <2>6, <2>8, CameNext
    <3> QED
      BY <2>1, <3>1, <3>2
  <2>13. steps' = [k \in 1..node |-> StepAt(k)]
    <3> DEFINE more == [k \in 1..node |-> StepAt(k)]
               few == [k \in 1..(node - 1) |-> StepAt(k)]
               A == {StepAt(k) : k \in 1..node}
    <3>1. few \in Seq(A) /\ Len(few) = node - 1 /\ StepAt(node) \in A
      BY <2>5
    <3>2. more \in Seq(A) /\ Len(more) = node
      BY <2>5
    <3>3. Append(few, StepAt(node)) \in Seq(A) /\ Len(Append(few, StepAt(node))) = node
      BY <2>5, <3>1
    <3>4. \A k \in 1..node : Append(few, StepAt(node))[k] = more[k]
      BY <2>5, <3>1
    <3> HIDE DEF more, few, A
    <3>5. Append(few, StepAt(node)) = more
      BY <3>2, <3>3, <3>4, SameList
    <3> QED
      BY <2>1, <2>3, <2>9, <3>5 DEF more, few
  <2>14. node' - 1 = node /\ node' # 1
    BY <2>1, <2>5
  <2> HIDE DEF side, yesRows, noRows, n
  <2>15. remaining' = Came(node)' /\ steps' = [k \in 1..(node - 1) |-> StepAt(k)]'
    BY <2>1, <2>2, <2>11, <2>13, <2>14
  <2>16. active' = (followed # Nil /\ (node = 1 \/ followed \in Came(node)))'
    BY <2>1, <2>2, <2>12, <2>14
  <2> QED
    BY <2>10, <2>15, <2>16 DEF TreeInd
<1> QED
  BY <1>1, <1>2

\* The rows that stop at a step with an outcome.
Ends(i, o) == {p \in Came(i) : Overview!Branch(Overview!Tree[i], yes[p]) = o}

LEMMA SameCardinality == \A S : Overview!Cardinality(S) = Cardinality(S)
BY Zenon DEF Overview!Cardinality, Cardinality

LEMMA SameTotal == \A s : Overview!Total(s) = Total(s)
BY Zenon DEF Overview!Total, Total

\* The numbers of the members of disjoint sets add up to the number of members of all.
LEMMA TotalOfParts ==
  ASSUME NEW s \in Seq(Nat), NEW part,
         \A i \in 1..Len(s) : IsFiniteSet(part[i]) /\ s[i] = Cardinality(part[i]),
         \A i, j \in 1..Len(s) : i # j => part[i] \cap part[j] = {}
  PROVE  Total(s) = Cardinality(UNION {part[i] : i \in 1..Len(s)})
<1> DEFINE m == Len(s)
           upTo(n) == UNION {part[i] : i \in 1..n}
<1>1. PICK f \in [0..m -> Nat] :
         f[0] = 0 /\ (\A n \in 1..m : f[n] = f[n - 1] + s[n]) /\ Total(s) = f[m]
  BY TotalSteps
<1>2. m \in Nat
  OBVIOUS
<1>3. /\ \A i \in 1..m : IsFiniteSet(part[i]) /\ s[i] = Cardinality(part[i])
      /\ \A i, j \in 1..m : i # j => part[i] \cap part[j] = {}
  OBVIOUS
<1> HIDE DEF m
<1> DEFINE S == {n \in Nat : n <= m => IsFiniteSet(upTo(n)) /\ f[n] = Cardinality(upTo(n))}
<1>4. 0 \in S
  <2>1. upTo(0) = {}
    OBVIOUS
  <2> QED
    BY <1>1, <2>1, FS_EmptySet
<1>5. ASSUME NEW n \in Nat, n \in S PROVE n + 1 \in S
  <2> SUFFICES ASSUME n + 1 <= m
               PROVE  IsFiniteSet(upTo(n + 1)) /\ f[n + 1] = Cardinality(upTo(n + 1))
    OBVIOUS
  <2>1. IsFiniteSet(upTo(n)) /\ f[n] = Cardinality(upTo(n))
    BY <1>2, <1>5
  <2>2. n + 1 \in 1..m /\ (n + 1) - 1 = n
    BY <1>2
  <2>3. f[n + 1] = f[n] + Cardinality(part[n + 1]) /\ IsFiniteSet(part[n + 1])
    BY <1>1, <1>3, <2>2
  <2>4. upTo(n + 1) = upTo(n) \cup part[n + 1]
    <3>1. \A i : i \in 1..(n + 1) <=> i \in 1..n \/ i = n + 1
      OBVIOUS
    <3> QED
      BY <3>1
  <2>5. upTo(n) \cap part[n + 1] = {}
    <3>1. \A i \in 1..n : i \in 1..m /\ i # n + 1
      BY <1>2
    <3> QED
      BY <1>3, <2>2, <3>1
  <2> HIDE DEF upTo
  <2>6. /\ IsFiniteSet(upTo(n) \cup part[n + 1])
        /\ Cardinality(upTo(n) \cup part[n + 1])
              = Cardinality(upTo(n)) + Cardinality(part[n + 1]) - Cardinality({})
    <3>1. /\ IsFiniteSet(upTo(n) \cup part[n + 1])
          /\ Cardinality(upTo(n) \cup part[n + 1])
                = Cardinality(upTo(n)) + Cardinality(part[n + 1]) - Cardinality(upTo(n) \cap part[n + 1])
      BY <2>1, <2>3, FS_Union
    <3> QED
      BY <2>5, <3>1
  <2>7. Cardinality(upTo(n)) \in Nat /\ Cardinality(part[n + 1]) \in Nat /\ Cardinality({}) = 0
    BY <2>1, <2>3, FS_CardinalityType, FS_EmptySet
  <2>8. f[n + 1] = Cardinality(upTo(n)) + Cardinality(part[n + 1])
    BY <2>1, <2>3
  <2>9. f[n + 1] = Cardinality(upTo(n) \cup part[n + 1])
    BY <2>6, <2>7, <2>8
  <2> QED
    BY <2>4, <2>6, <2>9
<1>6. Nat \subseteq S
  <2> HIDE DEF S
  <2> QED
    BY <1>4, <1>5, SetInduction
<1>7. m \in S
  <2> HIDE DEF S
  <2> QED
    BY <1>2, <1>6
<1>8. f[m] = Cardinality(upTo(m))
  <2> HIDE DEF upTo
  <2> QED
    BY <1>2, <1>7
<1> QED
  BY <1>1, <1>8 DEF m

\* What the drawing counts at a step is what stops there.
LEMMA CountAtIs ==
  ASSUME TreeConstants, TreeInd, NEW i \in 1..(node - 1), NEW o \in Overview!Outcomes
  PROVE  /\ IsFiniteSet(Ends(i, o)) /\ Cardinality(Ends(i, o)) \in Nat
         /\ Overview!CountAt(i, "down", o) + Overview!CountAt(i, "right", o) = Cardinality(Ends(i, o))
<1> DEFINE n == Overview!Tree[i]
           sp == steps[i]
           a == Cardinality(Said(i))
           b == Cardinality(Came(i) \ Said(i))
<1>1. steps[i] = StepAt(i)
  BY DEF TreeInd
<1>2. sp.yesCount = a /\ sp.noCount = b /\ sp.yesOutcome = n.yes /\ sp.noOutcome = n.no
  BY <1>1 DEF StepAt
<1>3. o # "continue"
  BY DEF Overview!Outcomes, Overview!MoreInfo
<1>4. IsFiniteSet(Came(i)) /\ IsFiniteSet(Said(i)) /\ IsFiniteSet(Came(i) \ Said(i))
  <2>1. IsFiniteSet(searched)
    BY TreeType DEF TreeInd
  <2>2. Came(i) \subseteq searched /\ Said(i) \subseteq searched /\ Came(i) \ Said(i) \subseteq searched
    BY DEF Came, Said
  <2> QED
    BY <2>1, <2>2, FS_Subset
<1>5. a \in Nat /\ b \in Nat
  BY <1>4, FS_CardinalityType
<1>6. /\ \A p : p \in Said(i) => p \in Came(i)
      /\ \A p : p \in Ends(i, o) <=> p \in Came(i) /\ (IF p \in Said(i) THEN n.yes ELSE n.no) = o
  BY DEF Said, Ends, Overview!Branch
<1> DEFINE yesPart == IF n.yes = o THEN Said(i) ELSE {}
           noPart == IF n.no = o THEN Came(i) \ Said(i) ELSE {}
           ya == IF n.yes = o THEN a ELSE 0
           nb == IF n.no = o THEN b ELSE 0
<1>7. Ends(i, o) = yesPart \cup noPart /\ yesPart \cap noPart = {}
  BY <1>6
<1>8. IsFiniteSet(yesPart) /\ IsFiniteSet(noPart)
  BY <1>4, FS_EmptySet
<1>9. Cardinality(yesPart) = ya /\ Cardinality(noPart) = nb /\ ya \in Nat /\ nb \in Nat
  BY <1>5, FS_EmptySet
<1>10. IsFiniteSet(Ends(i, o)) /\ Cardinality(Ends(i, o)) = ya + nb
  <2> HIDE DEF yesPart, noPart, ya, nb
  <2>1. /\ IsFiniteSet(yesPart \cup noPart)
        /\ Cardinality(yesPart \cup noPart)
              = Cardinality(yesPart) + Cardinality(noPart) - Cardinality({})
    BY <1>7, <1>8, FS_Union, Zenon
  <2> QED
    BY <1>7, <1>9, <2>1, FS_EmptySet
<1>11. Overview!CountAt(i, "down", o) + Overview!CountAt(i, "right", o) = ya + nb
  <2> DEFINE yesSide == Overview!Side2(sp, "yes")
             noSide == Overview!Side2(sp, "no")
  <2>1. yesSide.outcome = n.yes /\ yesSide.count = a /\ noSide.outcome = n.no /\ noSide.count = b
    BY <1>2 DEF Overview!Side2
  <2>2. \A place : Overview!CountAt(i, place, o)
                    = IF Overview!StepBranches(sp)[place].outcome = o
                      THEN Overview!StepBranches(sp)[place].count ELSE 0
    BY <1>3 DEF Overview!CountAt, Overview!Drawn
  <2>3. Overview!StepBranches(sp) = [down |-> noSide, right |-> yesSide]
        \/ Overview!StepBranches(sp) = [down |-> yesSide, right |-> noSide]
    BY DEF Overview!StepBranches
  <2> HIDE DEF yesSide, noSide, sp, n, a, b
  <2>4. CASE Overview!StepBranches(sp) = [down |-> noSide, right |-> yesSide]
    <3>1. Overview!StepBranches(sp)["down"] = noSide /\ Overview!StepBranches(sp)["right"] = yesSide
      BY <2>4
    <3> QED
      BY <1>5, <2>1, <2>2, <3>1
  <2>5. CASE Overview!StepBranches(sp) = [down |-> yesSide, right |-> noSide]
    <3>1. Overview!StepBranches(sp)["down"] = yesSide /\ Overview!StepBranches(sp)["right"] = noSide
      BY <2>5
    <3> QED
      BY <1>5, <2>1, <2>2, <3>1
  <2> QED
    BY <2>3, <2>4, <2>5
<1> QED
  BY <1>9, <1>10, <1>11

\* A plot that was searched for stops once, where its answers decide.
LEMMA EndsAreDecisions ==
  ASSUME TreeConstants, TreeInd, NEW o \in Overview!Outcomes, NEW p \in searched
  PROVE  /\ (\E i \in 1..Len(Overview!Tree) : p \in Ends(i, o))
               <=> Overview!Decision(treeCommodity, yes[p]) = o
         /\ \A i, j \in 1..Len(Overview!Tree) : p \in Ends(i, o) /\ p \in Ends(j, o) => i = j
<1> DEFINE tree == Overview!Tree
           y == yes[p]
<1>1. o # "continue"
  BY DEF Overview!Outcomes, Overview!MoreInfo
<1>2. TreeOK(tree) /\ treeCommodity \in Overview!Commodity /\ tree = Overview!Trees[treeCommodity]
  BY TreeType DEF TreeInd, Overview!Tree
<1>3. Len(tree) \in Nat
  BY <1>2 DEF TreeOK
<1>4. PICK k \in 1..Len(tree) : StopsAt(tree, k, y)
  BY <1>2, FirstStop
<1>5. Overview!Decision(treeCommodity, y) = Overview!Branch(tree[k], y)
  BY <1>2, <1>4, DecisionAtStop
<1>6. \A i : p \in Ends(i, o) <=> ComesTo(tree, i, y) /\ Overview!Branch(tree[i], y) = o
  BY DEF Ends, Came
<1>7. ASSUME NEW i \in 1..Len(tree), p \in Ends(i, o) PROVE i = k
  <2>1. StopsAt(tree, i, y)
    BY <1>1, <1>6, <1>7 DEF StopsAt
  <2>2. i \in Nat \ {0} /\ k \in Nat \ {0}
    BY <1>3
  <2>3. i <= k
    BY <1>4, <2>1, <2>2, ComeUpToStop DEF StopsAt
  <2>4. k <= i
    BY <1>4, <2>1, <2>2, ComeUpToStop DEF StopsAt
  <2> QED
    BY <2>2, <2>3, <2>4
<1> HIDE DEF tree, y
<1>8. p \in Ends(k, o) <=> Overview!Decision(treeCommodity, y) = o
  BY <1>4, <1>5, <1>6 DEF StopsAt
<1> QED
  BY <1>4, <1>7, <1>8 DEF tree, y

LEMMA TreeCounts ==
  ASSUME TreeConstants, TreeInd
  PROVE  Overview!CountsAreDecisions
<1> SUFFICES ASSUME Overview!Done, NEW o \in Overview!Outcomes
             PROVE  Overview!CountOf(o)
                      = Cardinality({p \in searched : Overview!Decision(treeCommodity, yes[p]) = o})
  BY SameCardinality, Zenon DEF Overview!CountsAreDecisions
<1> DEFINE m == Len(Overview!Tree)
           here(i) == Overview!CountAt(i, "down", o) + Overview!CountAt(i, "right", o)
           s == [i \in 1..m |-> here(i)]
           part == [i \in 1..m |-> Ends(i, o)]
<1>1. m \in Nat /\ node - 1 = m
  <2>1. TreeOK(Overview!Tree) /\ node \in 1..(m + 1)
    BY TreeType DEF TreeInd, Overview!TypeOK
  <2> QED
    BY <2>1 DEF TreeOK, Overview!Done
<1>2. DOMAIN steps = 1..m
  BY <1>1 DEF TreeInd
<1>3. \A i \in 1..m : /\ IsFiniteSet(Ends(i, o)) /\ Cardinality(Ends(i, o)) \in Nat
                      /\ here(i) = Cardinality(Ends(i, o))
  BY <1>1, CountAtIs
<1>4. Overview!CountOf(o) = Total(s)
  BY <1>2, SameTotal, Zenon DEF Overview!CountOf
<1> HIDE DEF m, here
<1>5. s \in Seq(Nat) /\ Len(s) = m
  BY <1>1, <1>3
<1>6. \A i \in 1..m : IsFiniteSet(part[i]) /\ s[i] = Cardinality(part[i])
  BY <1>3
<1>7. \A i, j \in 1..m : i # j => part[i] \cap part[j] = {}
  <2> SUFFICES ASSUME NEW i \in 1..m, NEW j \in 1..m, i # j, NEW p \in Ends(i, o), p \in Ends(j, o)
               PROVE  FALSE
    OBVIOUS
  <2>1. p \in searched
    BY DEF Ends, Came
  <2> QED
    BY <2>1, EndsAreDecisions DEF m
<1>8. UNION {part[i] : i \in 1..m} = {p \in searched : Overview!Decision(treeCommodity, yes[p]) = o}
  <2>1. \A i \in 1..m : \A p \in Ends(i, o) : p \in searched
    BY DEF Ends, Came
  <2>2. \A p \in searched : (\E i \in 1..m : p \in Ends(i, o))
                              <=> Overview!Decision(treeCommodity, yes[p]) = o
    BY EndsAreDecisions DEF m
  <2> QED
    BY <2>1, <2>2
<1> HIDE DEF s, part
<1>9. Total(s) = Cardinality(UNION {part[i] : i \in 1..m})
  BY <1>5, <1>6, <1>7, TotalOfParts
<1> QED
  BY <1>4, <1>8, <1>9

LEMMA TreePath ==
  ASSUME TreeConstants, TreeInd
  PROVE  Overview!PathIsDecision
<1> DEFINE tree == Overview!Tree
           on == {i \in DOMAIN steps : steps[i].selectedSide # "null"}
<1>1. /\ TreeOK(tree) /\ treeCommodity \in Overview!Commodity /\ tree = Overview!Trees[treeCommodity]
      /\ node \in 1..(Len(tree) + 1)
  BY TreeType DEF TreeInd, Overview!Tree, Overview!TypeOK
<1>2. Len(tree) \in Nat
  BY <1>1 DEF TreeOK
<1>3. DOMAIN steps = 1..(node - 1) /\ \A i \in 1..(node - 1) : steps[i].selectedSide = SideAt(i)
  BY DEF TreeInd, StepAt
<1>4. \A i : i \in on <=> i \in 1..(node - 1) /\ followed \in Came(i)
  BY <1>3 DEF SideAt
<1>5. SUFFICES /\ on = 1..Cardinality(on)
               /\ Overview!Done => (on # {} <=> followed \in searched)
               /\ Overview!Done /\ on # {} =>
                     Overview!Outcome(tree[Overview!Max(on)], steps[Overview!Max(on)].selectedSide)
                       = Overview!Decision(treeCommodity, yes[followed])
  BY SameCardinality, Zenon DEF Overview!PathIsDecision
<1> HIDE DEF tree, on
<1>6. CASE followed \notin searched
  <2>1. on = {}
    BY <1>4, <1>6 DEF Came
  <2> QED
    BY <1>6, <2>1, FS_EmptySet
<1>7. CASE followed \in searched
  <2>1. PICK k \in 1..Len(tree) : StopsAt(tree, k, yes[followed])
    BY <1>1, FirstStop
  <2> DEFINE m == IF k <= node - 1 THEN k ELSE node - 1
  <2>2. \A i \in 1..(node - 1) : followed \in Came(i) <=> i <= k
    BY <1>1, <1>2, <1>7, <2>1, ComeUpToStop DEF Came, tree
  <2>3. on = 1..m /\ m \in Nat
    <3>1. node - 1 \in Nat /\ k \in Nat
      BY <1>1, <1>2
    <3>2. \A i : i \in on <=> i \in 1..(node - 1) /\ i <= k
      BY <1>4, <2>2
    <3>3. \A i : i \in on <=> i \in 1..m
      BY <3>1, <3>2
    <3> QED
      BY <3>1, <3>3
  <2>4. Cardinality(on) = m
    BY <2>3, FS_Interval
  <2>5. ASSUME Overview!Done
        PROVE  /\ on # {}
               /\ Overview!Outcome(tree[Overview!Max(on)], steps[Overview!Max(on)].selectedSide)
                    = Overview!Decision(treeCommodity, yes[followed])
    <3>1. node - 1 = Len(tree) /\ k \in 1..(node - 1) /\ m = k
      BY <1>1, <1>2, <2>5 DEF Overview!Done, tree
    <3>2. on = 1..k
      BY <2>3, <3>1
    <3>3. Overview!Max(on) = k
      <4> DEFINE q == CHOOSE x \in on : \A z \in on : x >= z
      <4>1. k \in on /\ \A z \in on : k >= z
        BY <1>2, <3>2
      <4>2. q \in on /\ \A z \in on : q >= z
        BY <4>1
      <4>3. q = k
        <5> HIDE DEF q
        <5> QED
          BY <1>2, <3>2, <4>1, <4>2
      <4> QED
        BY <4>3, Zenon DEF Overview!Max
    <3>4. followed \in Came(k) /\ steps[k].selectedSide = SideAt(k)
      BY <1>3, <1>2, <2>1, <2>2, <3>1
    <3>5. Overview!Outcome(tree[k], SideAt(k)) = Overview!Branch(tree[k], yes[followed])
      BY <3>4 DEF SideAt, Said, Overview!Outcome, Overview!Branch, tree
    <3>6. Overview!Decision(treeCommodity, yes[followed]) = Overview!Branch(tree[k], yes[followed])
      BY <1>1, <2>1, DecisionAtStop
    <3>7. k \in on
      BY <1>2, <3>2
    <3> QED
      BY <3>3, <3>4, <3>5, <3>6, <3>7
  <2> QED
    BY <1>7, <2>3, <2>4, <2>5
<1> QED
  BY <1>6, <1>7

\* What the answers decide, spelled out for each tree.
PcropRisk(y) ==
    IF "treecover" \notin y THEN "low"
    ELSE IF "commodities" \in y \/ "disturbanceBefore" \in y THEN "low"
    ELSE IF "disturbanceAfter" \in y THEN "high" ELSE "more_info_needed"

AcropRisk(y) ==
    IF "treecover" \notin y \/ "commodities" \in y THEN "low"
    ELSE IF "disturbanceAfter" \in y THEN "high" ELSE "more_info_needed"

Wild(y) == "primary" \in y \/ "natural" \in y

TimberRisk(y) ==
    IF "commodities" \in y THEN "low"
    ELSE IF "plantation" \in y /\ "agriAfter" \notin y THEN "low"
    ELSE IF (Wild(y) \/ "plantation" \in y) /\ "agriAfter" \in y THEN "high"
    ELSE IF Wild(y) /\ "plantationAfter" \in y THEN "high"
    ELSE IF Wild(y) /\ ("treecoverAfter" \in y \/ "logging" \in y) THEN "low"
    ELSE IF Wild(y) THEN "more_info_needed" ELSE "low"

LEMMA SimpleTest ==
  ASSUME NEW f, NEW a, NEW b, NEW y
  PROVE  Overview!Branch([test |-> Overview!Yes(f), yes |-> a, no |-> b], y) = IF f \in y THEN a ELSE b
<1> DEFINE n == [test |-> Overview!Yes(f), yes |-> a, no |-> b]
<1>1. n.test.all = {{f}} /\ n.test.none = {} /\ n.yes = a /\ n.no = b
  BY DEF Overview!Yes
<1> HIDE DEF n
<1>2. Overview!Test(n, y) <=> f \in y
  BY <1>1 DEF Overview!Test
<1> QED
  BY <1>1, <1>2 DEF Overview!Branch, n

LEMMA CropBranches ==
  ASSUME NEW y
  PROVE  /\ Overview!Branch(Overview!HasTreecover, y)
              = IF "treecover" \in y THEN "continue" ELSE "low"
         /\ Overview!Branch(Overview!HasCommodities, y)
              = IF "commodities" \in y THEN "low" ELSE "continue"
         /\ Overview!Branch(Overview!DisturbedBefore, y)
              = IF "disturbanceBefore" \in y THEN "low" ELSE "continue"
         /\ Overview!Branch(Overview!DisturbedAfter, y)
              = IF "disturbanceAfter" \in y THEN "high" ELSE "more_info_needed"
<1> DEFINE plain(f, a, b) == [test |-> Overview!Yes(f), yes |-> a, no |-> b]
<1>1. \A f, a, b : Overview!Branch(plain(f, a, b), y) = IF f \in y THEN a ELSE b
  BY SimpleTest
<1>2. /\ Overview!HasTreecover = plain("treecover", "continue", "low")
      /\ Overview!HasCommodities = plain("commodities", "low", "continue")
      /\ Overview!DisturbedBefore = plain("disturbanceBefore", "low", "continue")
      /\ Overview!DisturbedAfter = plain("disturbanceAfter", "high", "more_info_needed")
  BY TreeNodes
<1> HIDE DEF plain
<1> QED
  BY <1>1, <1>2

\* A test of two clauses, or of a clause and an answer of no.
LEMMA DoubleTest ==
  ASSUME NEW A, NEW B, NEW N, NEW a, NEW b, NEW y
  PROVE  Overview!Branch([test |-> [all |-> {A, B}, none |-> N], yes |-> a, no |-> b], y)
           = IF A \cap y # {} /\ B \cap y # {} /\ N \cap y = {} THEN a ELSE b
<1> DEFINE n == [test |-> [all |-> {A, B}, none |-> N], yes |-> a, no |-> b]
<1>1. n.test.all = {A, B} /\ n.test.none = N /\ n.yes = a /\ n.no = b
  OBVIOUS
<1> HIDE DEF n
<1>2. Overview!Test(n, y) <=> A \cap y # {} /\ B \cap y # {} /\ N \cap y = {}
  BY <1>1 DEF Overview!Test
<1> QED
  BY <1>1, <1>2 DEF Overview!Branch, n

LEMMA TimberBranches ==
  ASSUME NEW y
  PROVE  /\ Len(Overview!TimberTree) = 6
         /\ Overview!Branch(Overview!TimberTree[1], y) = IF "commodities" \in y THEN "low" ELSE "continue"
         /\ Overview!Branch(Overview!TimberTree[2], y)
              = IF "plantation" \in y /\ "agriAfter" \notin y THEN "low" ELSE "continue"
         /\ Overview!Branch(Overview!TimberTree[3], y)
              = IF (Wild(y) \/ "plantation" \in y) /\ "agriAfter" \in y THEN "high" ELSE "continue"
         /\ Overview!Branch(Overview!TimberTree[4], y)
              = IF Wild(y) /\ "plantationAfter" \in y THEN "high" ELSE "continue"
         /\ Overview!Branch(Overview!TimberTree[5], y)
              = IF Wild(y) /\ ("treecoverAfter" \in y \/ "logging" \in y) THEN "low" ELSE "continue"
         /\ Overview!Branch(Overview!TimberTree[6], y)
              = IF Wild(y) THEN "more_info_needed" ELSE "low"
<1> DEFINE t == Overview!TimberTree
           forest == {"primary", "natural", "plantation"}
           wild == {"primary", "natural"}
<1>1. /\ Len(t) = 6
      /\ t[1] = Overview!HasCommodities
      /\ t[2] = [test |-> [all |-> {{"plantation"}}, none |-> {"agriAfter"}],
                 yes |-> "low", no |-> "continue"]
      /\ t[3] = [test |-> [all |-> {forest, {"agriAfter"}}, none |-> {}], yes |-> "high", no |-> "continue"]
      /\ t[4] = [test |-> [all |-> {wild, {"plantationAfter"}}, none |-> {}], yes |-> "high", no |-> "continue"]
      /\ t[5] = [test |-> [all |-> {wild, {"treecoverAfter", "logging"}}, none |-> {}],
                 yes |-> "low", no |-> "continue"]
      /\ t[6] = [test |-> [all |-> {wild}, none |-> {}], yes |-> "more_info_needed", no |-> "low"]
  BY DEF Overview!TimberTree, Overview!Node, Overview!AllOf, Overview!MoreInfo,
         Overview!AnyForest, Overview!NaturalForest
<1> HIDE DEF t
<1>2. wild \cap y # {} <=> Wild(y)
  BY DEF Wild
<1>3. forest \cap y # {} <=> Wild(y) \/ "plantation" \in y
  BY DEF Wild
<1>4. \A f : {f} \cap y # {} <=> f \in y
  OBVIOUS
<1>5. {"treecoverAfter", "logging"} \cap y # {} <=> "treecoverAfter" \in y \/ "logging" \in y
  OBVIOUS
<1> HIDE DEF forest, wild
<1>6. Overview!Branch(t[1], y) = IF "commodities" \in y THEN "low" ELSE "continue"
  BY <1>1, CropBranches
<1> DEFINE double(A, B, N, a) == [test |-> [all |-> {A, B}, none |-> N], yes |-> a, no |-> "continue"]
           both(A, B, N) == A \cap y # {} /\ B \cap y # {} /\ N \cap y = {}
<1>7. \A A, B, N, a : Overview!Branch(double(A, B, N, a), y) = IF both(A, B, N) THEN a ELSE "continue"
  BY DoubleTest
<1>8. \A A : {A} = {A, A}
  OBVIOUS
<1>9. /\ t[2] = double({"plantation"}, {"plantation"}, {"agriAfter"}, "low")
      /\ t[3] = double(forest, {"agriAfter"}, {}, "high")
      /\ t[4] = double(wild, {"plantationAfter"}, {}, "high")
      /\ t[5] = double(wild, {"treecoverAfter", "logging"}, {}, "low")
  <2>1. {{"plantation"}} = {{"plantation"}, {"plantation"}}
    BY <1>8
  <2> QED
    BY <1>1, <2>1, Zenon
<1> HIDE DEF double
<1>10. Overview!Branch(t[2], y) = IF "plantation" \in y /\ "agriAfter" \notin y THEN "low" ELSE "continue"
  <2>1. both({"plantation"}, {"plantation"}, {"agriAfter"}) <=> ("plantation" \in y /\ "agriAfter" \notin y)
    BY <1>4
  <2> HIDE DEF both, forest, wild
  <2> QED
    BY <1>7, <1>9, <2>1
<1>11. Overview!Branch(t[3], y)
         = IF (Wild(y) \/ "plantation" \in y) /\ "agriAfter" \in y THEN "high" ELSE "continue"
  <2>1. both(forest, {"agriAfter"}, {}) <=> ((Wild(y) \/ "plantation" \in y) /\ "agriAfter" \in y)
    BY <1>3, <1>4
  <2> HIDE DEF both, forest, wild
  <2> QED
    BY <1>7, <1>9, <2>1
<1>12. Overview!Branch(t[4], y) = IF Wild(y) /\ "plantationAfter" \in y THEN "high" ELSE "continue"
  <2>1. both(wild, {"plantationAfter"}, {}) <=> (Wild(y) /\ "plantationAfter" \in y)
    BY <1>2, <1>4
  <2> HIDE DEF both, forest, wild
  <2> QED
    BY <1>7, <1>9, <2>1
<1>13. Overview!Branch(t[5], y)
         = IF Wild(y) /\ ("treecoverAfter" \in y \/ "logging" \in y) THEN "low" ELSE "continue"
  <2>1. both(wild, {"treecoverAfter", "logging"}, {})
          <=> (Wild(y) /\ ("treecoverAfter" \in y \/ "logging" \in y))
    BY <1>2, <1>5
  <2> HIDE DEF both, forest, wild
  <2> QED
    BY <1>7, <1>9, <2>1
<1>14. Overview!Branch(t[6], y) = IF Wild(y) THEN "more_info_needed" ELSE "low"
  BY <1>1, <1>2 DEF Overview!Branch, Overview!Test
<1> QED
  BY <1>1, <1>6, <1>10, <1>11, <1>12, <1>13, <1>14 DEF t

LEMMA PcropDecision ==
  ASSUME NEW y PROVE Overview!Decision("pcrop", y) = PcropRisk(y)
<1> DEFINE t == Overview!Trees["pcrop"]
           b(k) == Overview!Branch(t[k], y)
<1>1. t = <<Overview!HasTreecover, Overview!HasCommodities,
            Overview!DisturbedBefore, Overview!DisturbedAfter>>
  BY DEF Overview!Trees, Overview!PcropTree
<1>2. /\ Len(t) = 4
      /\ b(1) = IF "treecover" \in y THEN "continue" ELSE "low"
      /\ b(2) = IF "commodities" \in y THEN "low" ELSE "continue"
      /\ b(3) = IF "disturbanceBefore" \in y THEN "low" ELSE "continue"
      /\ b(4) = IF "disturbanceAfter" \in y THEN "high" ELSE "more_info_needed"
  BY <1>1, CropBranches
<1>3. ASSUME NEW k \in {1, 2, 3, 4}, b(k) # "continue", \A j \in {1, 2, 3, 4} : j < k => b(j) = "continue"
      PROVE  Overview!Decision("pcrop", y) = b(k)
  <2>1. StopsAt(t, k, y) /\ k \in 1..Len(t)
    BY <1>2, <1>3 DEF StopsAt, ComesTo
  <2> QED
    BY <2>1, CommodityIs, DecisionAtStop
<1> HIDE DEF t, b
<1> QED
  BY <1>2, <1>3 DEF PcropRisk

LEMMA AcropDecision ==
  ASSUME NEW y PROVE Overview!Decision("acrop", y) = AcropRisk(y)
<1> DEFINE t == Overview!Trees["acrop"]
           b(k) == Overview!Branch(t[k], y)
<1>1. t = <<Overview!HasTreecover, Overview!HasCommodities, Overview!DisturbedAfter>>
  BY DEF Overview!Trees, Overview!AcropTree
<1>2. /\ Len(t) = 3
      /\ b(1) = IF "treecover" \in y THEN "continue" ELSE "low"
      /\ b(2) = IF "commodities" \in y THEN "low" ELSE "continue"
      /\ b(3) = IF "disturbanceAfter" \in y THEN "high" ELSE "more_info_needed"
  BY <1>1, CropBranches
<1>3. ASSUME NEW k \in {1, 2, 3}, b(k) # "continue", \A j \in {1, 2, 3} : j < k => b(j) = "continue"
      PROVE  Overview!Decision("acrop", y) = b(k)
  <2>1. StopsAt(t, k, y) /\ k \in 1..Len(t)
    BY <1>2, <1>3 DEF StopsAt, ComesTo
  <2> QED
    BY <2>1, CommodityIs, DecisionAtStop
<1> HIDE DEF t, b
<1> QED
  BY <1>2, <1>3 DEF AcropRisk

LEMMA TimberDecision ==
  ASSUME NEW y PROVE Overview!Decision("timber", y) = TimberRisk(y)
<1> DEFINE t == Overview!TimberTree
           b(k) == Overview!Branch(t[k], y)
<1>1. Overview!Trees["timber"] = t
  BY DEF Overview!Trees
<1>2. /\ Len(t) = 6
      /\ b(1) = IF "commodities" \in y THEN "low" ELSE "continue"
      /\ b(2) = IF "plantation" \in y /\ "agriAfter" \notin y THEN "low" ELSE "continue"
      /\ b(3) = IF (Wild(y) \/ "plantation" \in y) /\ "agriAfter" \in y THEN "high" ELSE "continue"
      /\ b(4) = IF Wild(y) /\ "plantationAfter" \in y THEN "high" ELSE "continue"
      /\ b(5) = IF Wild(y) /\ ("treecoverAfter" \in y \/ "logging" \in y) THEN "low" ELSE "continue"
      /\ b(6) = IF Wild(y) THEN "more_info_needed" ELSE "low"
  BY TimberBranches
<1>3. ASSUME NEW k \in {1, 2, 3, 4, 5, 6}, b(k) # "continue",
             \A j \in {1, 2, 3, 4, 5, 6} : j < k => b(j) = "continue"
      PROVE  Overview!Decision("timber", y) = b(k)
  <2>1. StopsAt(t, k, y) /\ k \in 1..Len(t)
    BY <1>2, <1>3 DEF StopsAt, ComesTo
  <2> QED
    BY <1>1, <2>1, CommodityIs, DecisionAtStop
<1> HIDE DEF t, b
<1> QED
  BY <1>2, <1>3 DEF TimberRisk

LEMMA TreeTones == ASSUME Overview!TypeOK PROVE Overview!TonesAreHonest
<1> DEFINE rank(o) == IF o = "low" THEN 0 ELSE IF o = "high" THEN 2 ELSE 1
<1>1. /\ Overview!Risk("low") = 0 /\ Overview!Risk("more_info_needed") = 1
      /\ Overview!Risk("high") = 2
  BY DEF Overview!Risk, Overview!MoreInfo
<1> SUFFICES ASSUME NEW p \in TreePlots, NEW f \in Overview!IndicatorsOf(treeCommodity)
             PROVE  LET with    == Overview!Risk(Overview!Decision(treeCommodity, yes[p] \cup {f}))
                        without == Overview!Risk(Overview!Decision(treeCommodity, yes[p] \ {f}))
                    IN  /\ Overview!Indicators[treeCommodity][f] = "low"  => with <= without
                        /\ Overview!Indicators[treeCommodity][f] = "high" => with >= without
  BY DEF Overview!TonesAreHonest
<1> DEFINE y == yes[p]
           more == y \cup {f}
           less == y \ {f}
<1>2. /\ \A g : g \in more <=> g \in y \/ g = f
      /\ \A g : g \in less <=> g \in y /\ g # f
  OBVIOUS
<1>3. treeCommodity \in {"pcrop", "acrop", "timber"}
  BY CommodityIs DEF Overview!TypeOK
<1> HIDE DEF y, more, less
<1>4. CASE treeCommodity = "pcrop"
  <2> DEFINE tone == Overview!Indicators["pcrop"][f]
  <2>1. /\ f \in {"treecover", "commodities", "disturbanceBefore", "disturbanceAfter"}
        /\ f = "treecover" => tone = "none"
        /\ f = "commodities" => tone = "low"
        /\ f = "disturbanceBefore" => tone = "low"
        /\ f = "disturbanceAfter" => tone = "high"
    BY <1>4 DEF Overview!IndicatorsOf, Overview!Indicators
  <2>2. /\ Overview!Decision("pcrop", more) = PcropRisk(more)
        /\ Overview!Decision("pcrop", less) = PcropRisk(less)
    BY PcropDecision
  <2> HIDE DEF tone
  <2>3. /\ tone = "low" => Overview!Risk(PcropRisk(more)) <= Overview!Risk(PcropRisk(less))
        /\ tone = "high" => Overview!Risk(PcropRisk(more)) >= Overview!Risk(PcropRisk(less))
    BY <1>1, <1>2, <2>1 DEF PcropRisk
  <2> QED
    BY <1>4, <2>2, <2>3 DEF tone, more, less, y
<1>5. CASE treeCommodity = "acrop"
  <2> DEFINE tone == Overview!Indicators["acrop"][f]
  <2>1. /\ f \in {"treecover", "commodities", "disturbanceAfter"}
        /\ f = "treecover" => tone = "none"
        /\ f = "commodities" => tone = "low"
        /\ f = "disturbanceAfter" => tone = "high"
    BY <1>5 DEF Overview!IndicatorsOf, Overview!Indicators
  <2>2. /\ Overview!Decision("acrop", more) = AcropRisk(more)
        /\ Overview!Decision("acrop", less) = AcropRisk(less)
    BY AcropDecision
  <2> HIDE DEF tone
  <2>3. /\ tone = "low" => Overview!Risk(AcropRisk(more)) <= Overview!Risk(AcropRisk(less))
        /\ tone = "high" => Overview!Risk(AcropRisk(more)) >= Overview!Risk(AcropRisk(less))
    BY <1>1, <1>2, <2>1 DEF AcropRisk
  <2> QED
    BY <1>5, <2>2, <2>3 DEF tone, more, less, y
<1>6. CASE treeCommodity = "timber"
  <2> DEFINE tone == Overview!Indicators["timber"][f]
  <2>1. /\ f \in {"commodities", "primary", "natural", "plantation", "plantationAfter",
                  "treecoverAfter", "agriAfter", "logging"}
        /\ f \in {"primary", "natural", "plantation"} => tone = "none"
        /\ f \in {"commodities", "treecoverAfter", "logging"} => tone = "low"
        /\ f \in {"plantationAfter", "agriAfter"} => tone = "high"
    BY <1>6 DEF Overview!IndicatorsOf, Overview!Indicators
  <2>2. /\ Overview!Decision("timber", more) = TimberRisk(more)
        /\ Overview!Decision("timber", less) = TimberRisk(less)
    BY TimberDecision
  <2> HIDE DEF tone
  <2>3. CASE f \in {"commodities", "treecoverAfter", "logging"}
    <3>1. tone # "high" /\ (Wild(more) <=> Wild(less))
      BY <1>2, <2>1, <2>3 DEF Wild
    <3>2. \A g \in {"plantation", "agriAfter", "plantationAfter"} : g \in more <=> g \in less
      BY <1>2, <2>3
    <3>3. CASE f = "commodities"
      <4>1. Overview!Risk(TimberRisk(more)) = 0 /\ Overview!Risk(TimberRisk(less)) \in {0, 1, 2}
        BY <1>1, <1>2, <3>3 DEF TimberRisk
      <4> QED
        BY <3>1, <4>1, <2>2, <1>6 DEF tone, more, less, y
    <3>4. CASE f # "commodities"
      <4>1. "commodities" \in more <=> "commodities" \in less
        BY <1>2, <3>4
      <4>2. "treecoverAfter" \in less \/ "logging" \in less => "treecoverAfter" \in more \/ "logging" \in more
        BY <1>2
      <4>3. Overview!Risk(TimberRisk(more)) <= Overview!Risk(TimberRisk(less))
        BY <1>1, <3>1, <3>2, <4>1, <4>2 DEF TimberRisk
      <4> QED
        BY <3>1, <4>3, <2>2, <1>6 DEF tone, more, less, y
    <3> QED
      BY <3>3, <3>4
  <2>4. CASE f \in {"plantationAfter", "agriAfter"}
    <3>1. tone # "low" /\ (Wild(more) <=> Wild(less))
      BY <1>2, <2>1, <2>4 DEF Wild
    <3>2. \A g \in {"commodities", "plantation", "treecoverAfter", "logging"} : g \in more <=> g \in less
      BY <1>2, <2>4
    <3>3. \A g : g \in less => g \in more
      BY <1>2
    <3>4. Overview!Risk(TimberRisk(more)) >= Overview!Risk(TimberRisk(less))
      BY <1>1, <3>1, <3>2, <3>3 DEF TimberRisk
    <3> QED
      BY <3>1, <3>4, <2>2, <1>6 DEF tone, more, less, y
  <2>5. CASE f \in {"primary", "natural", "plantation"}
    <3>1. tone # "low" /\ tone # "high"
      BY <2>1, <2>5
    <3> QED
      BY <1>6, <3>1 DEF tone
  <2> QED
    BY <2>1, <2>3, <2>4, <2>5
<1> QED
  BY <1>3, <1>4, <1>5, <1>6

\* Every plot that was searched for is counted once, at the outcome its answers decide; the
\* highlighted path leads to it; and no indicator is painted in a tone that its yes can
\* belie: in every state of buildTreeSteps' loop, for any finite result and any selection.
THEOREM TreesAreDecisionsHolds ==
  ASSUME TreeConstants PROVE Overview!Spec => []TreesAreDecisions
<1>1. Overview!Init => TreeInd
  BY TreeInitInd
<1>2. TreeInd /\ [Overview!Walk]_Overview!vars => TreeInd'
  BY TreeNextInd
<1>3. TreeInd => TreesAreDecisions
  <2>1. TreeInd => Overview!TypeOK
    BY DEF TreeInd
  <2> QED
    BY <2>1, TreeCounts, TreePath, TreeTones, Zenon DEF TreesAreDecisions, Overview!TreesAreDecisions
<1> QED
  BY <1>1, <1>2, <1>3, PTL DEF Overview!Spec
=============================================================================
