--------------------------- MODULE PageCheckProofs ---------------------------
(***************************************************************************)
(* Theorems of PageCheck: whatever pages the platform has, whatever it     *)
(* answers, for all cinemas, names and limits.                             *)
(***************************************************************************)
EXTENDS PageCheck, TLAPS

\* What the page variable holds belongs to the stage of the fetch, and a task or
\* preview only ever rests on a page that was understood.
FetchOK ==
    /\ pc \in {"idle", "bootstrap", "retry", "list"} => page = NoPage
    /\ pc = "page" => page \in Page /\ ParseFailure(page) = "none"
    /\ pc = "failed" /\ page # NoPage => ParseFailure(page) # "none"
    /\ pc = "failed" /\ failure = "structure" => NotUnderstood

OriginOK ==
    /\ preview # NoPage => ParseFailure(preview) = "none"
    /\ status # "ABSENT" => /\ origin \in Page /\ ParseFailure(origin) = "none"
                            /\ title = origin.title

CountsOK ==
    /\ status # "ERROR" => fails < TerminalLimit
    /\ fails <= series

PageInv == TypeOK /\ FetchOK /\ OriginOK /\ CountsOK

\* What the parser's acceptance of a page means.
LEMMA Understood ==
    ASSUME NEW p \in Page, ParseFailure(p) = "none"
    PROVE  /\ AboutTarget(p) /\ p.title \in Title
           /\ (p.empties = 1) <=> (p.cells = <<>>)
           /\ \A k \in DOMAIN p.cells : /\ ~CellRefused(p.cells[k]) /\ p.cells[k] \in Cell
                                        /\ p.cells[k].id \in Cinema
                                        /\ p.cells[k].spelling \in Spelling
<1>1. p \in PageType /\ ~p.verify /\ ContextProved(p) /\ ListProved(p)
  BY PagesTyped DEF ParseFailure
<1>2. AboutTarget(p) /\ p.title \in Title
  BY <1>1 DEF AboutTarget, ContextProved, PageType
<1>3. p.cells \in Seq(Cell)
  BY <1>1 DEF PageType
<1>4. (p.empties = 1) <=> (p.cells = <<>>)
  BY <1>1 DEF ListProved, CinemaRoot
<1>5. ASSUME NEW k \in DOMAIN p.cells
      PROVE  /\ ~CellRefused(p.cells[k]) /\ p.cells[k] \in Cell
             /\ p.cells[k].id \in Cinema /\ p.cells[k].spelling \in Spelling
  <2>1. p.cells # <<>>
    BY <1>3, <1>5
  <2>2. ~CellRefused(p.cells[k])
    BY <1>1, <2>1 DEF ListProved, CinemaRoot
  <2>3. p.cells[k] \in Cell
    BY <1>3
  <2>4. QED
    BY <2>2, <2>3 DEF CellRefused, Cell
<1>6. QED
  BY <1>2, <1>4, <1>5

LEMMA PageInit == Init => PageInv
BY LimitPositive, NullsFresh
   DEF Init, PageInv, TypeOK, FetchOK, OriginOK, CountsOK, Failure, NotUnderstood

LEMMA FetchStep ==
    ASSUME PageInv, GetBootstrap \/ RetryBootstrap \/ GetList
    PROVE  PageInv'
<1> USE DEF PageInv, TypeOK, taskVars
<1>1. log \in Seq([to : {"root", "list"}, answer : Answer])
  OBVIOUS
<1>2. ASSUME NEW to \in {"root", "list"}, NEW a \in Answer, Request(to, a)
      PROVE  /\ log' \in Seq([to : {"root", "list"}, answer : Answer])
             /\ log'[Len(log')].answer = a
  BY <1>1, <1>2 DEF Request
<1>3. ASSUME NEW a \in Answer, NEW next \in {"list", "page"}, Proceed(a, next)
      PROVE  /\ failure' \in Failure \cup {"none"} /\ pc' \in {next, "failed"}
             /\ pc' = "failed" <=> a # "ok"
             /\ failure' = "structure" => a \in {"redirect", "selfRedirect"}
  BY <1>3 DEF Proceed, StatusFailure, Answer, Failure
<1>4. UNCHANGED <<status, cinema, wanted, title, fails, booking, preview, origin, series>>
  BY DEF GetBootstrap, RetryBootstrap, GetList
<1>5. OriginOK' /\ CountsOK'
  BY <1>4 DEF OriginOK, CountsOK
<1>6. ASSUME NEW a \in Answer, NEW to \in {"root", "list"}, NEW next \in {"list", "page"},
             Request(to, a), Proceed(a, next), UNCHANGED page, page = NoPage,
             next = "page" => a # "ok"
      PROVE  PageInv'
  <2>1. log'[Len(log')].answer = a
    BY <1>2, <1>6
  <2>2. failure' = "structure" => NotUnderstood'
    BY <1>3, <1>6, <2>1 DEF NotUnderstood
  <2>3. FetchOK'
    BY <1>3, <1>6, <2>2 DEF FetchOK
  <2>4. pc' \in {next, "failed"} /\ failure' \in Failure \cup {"none"}
    BY <1>3, <1>6
  <2>5. log' \in Seq([to : {"root", "list"}, answer : Answer])
    BY <1>2, <1>6
  <2>6. TypeOK'
    BY <1>4, <1>6, <2>4, <2>5
  <2>. QED  BY <1>5, <2>3, <2>6
<1>7. CASE GetBootstrap
  <2>1. PICK a \in Answer :
           /\ Request("root", a)
           /\ IF a = "selfRedirect" THEN pc' = "retry" /\ UNCHANGED failure ELSE Proceed(a, "list")
    BY <1>7 DEF GetBootstrap, AfterBootstrap
  <2>2. page = NoPage /\ UNCHANGED page
    BY <1>7 DEF GetBootstrap, FetchOK
  <2>3. CASE a = "selfRedirect"
    <3>1. FetchOK'
      BY <2>1, <2>2, <2>3 DEF FetchOK
    <3>2. QED
      BY <1>2, <1>4, <1>5, <2>1, <2>2, <2>3, <3>1
  <2>4. CASE a # "selfRedirect"
    BY <1>6, <2>1, <2>2, <2>4
  <2>5. QED
    BY <2>3, <2>4
<1>8. CASE RetryBootstrap
  <2>1. page = NoPage /\ UNCHANGED page
        /\ \E a \in Answer : Request("root", a) /\ Proceed(a, "list")
    BY <1>8 DEF RetryBootstrap, AfterRetry, AfterBootstrap, FetchOK
  <2>2. QED
    BY <1>6, <2>1
<1>9. CASE GetList
  <2>1. page = NoPage
    BY <1>9 DEF GetList, FetchOK
  <2>2. CASE \E a \in Answer \ {"ok"} : Request("list", a) /\ Proceed(a, "page") /\ UNCHANGED page
    BY <1>6, <2>1, <2>2
  <2>3. ASSUME NEW p \in Page, Request("list", "ok"), page' = p, failure' = ParseFailure(p),
               pc' = IF ParseFailure(p) = "none" THEN "page" ELSE "failed"
        PROVE  PageInv'
    <3>1. failure' \in Failure \cup {"none"} /\ (failure' = "structure" => ~p.verify)
      BY <2>3 DEF ParseFailure, Failure
    <3>2. FetchOK'
      BY <2>3, <3>1, NullsFresh DEF FetchOK, NotUnderstood
    <3>3. log' \in Seq([to : {"root", "list"}, answer : Answer])
      BY <1>2, <2>3 DEF Answer
    <3>4. QED
      BY <1>4, <1>5, <2>3, <3>1, <3>2, <3>3
  <2>4. QED
    BY <1>9, <2>2, <2>3 DEF GetList
<1>10. QED
  BY <1>7, <1>8, <1>9

LEMMA CreateStep == ASSUME PageInv, CreateTask PROVE PageInv'
<1> USE DEF PageInv, TypeOK, CreateTask, fetchVars
<1>1. preview \in Page /\ ParseFailure(preview) = "none"
  BY DEF OriginOK
<1>2. cinema' \in Cinema \cup {NoCinema} /\ wanted' \in Spelling
  <2>1. CASE \E k \in DOMAIN preview.cells :
                cinema' = preview.cells[k].id /\ wanted' = NormalOf[preview.cells[k].spelling]
    BY <1>1, <2>1, Understood, NamesTyped
  <2>2. CASE \E s \in Spelling : cinema' = NoCinema /\ wanted' = NormalOf[s]
    BY <2>2, NamesTyped
  <2>3. QED
    BY <2>1, <2>2 DEF CinemaRoot
<1>3. title' \in Title /\ title' = origin'.title
  BY <1>1, Understood
<1>4. FetchOK' /\ OriginOK' /\ CountsOK'
  BY <1>1, <1>3 DEF FetchOK, OriginOK, CountsOK, NotUnderstood
<1>5. QED
  BY <1>1, <1>2, <1>3, <1>4

\* A structure error is counted exactly when the history counts it.
LEMMA FailStep ==
    ASSUME PageInv, FailCheck
    PROVE  PageInv' /\ (status' = "ERROR" => series' >= TerminalLimit)
<1> DEFINE kind == IF ContextMismatch THEN "structure" ELSE failure
           count == IF Terminal(kind) THEN fails + 1 ELSE 0
<1> USE DEF PageInv, TypeOK
<1>1. /\ status = "MONITORING" /\ (pc = "failed" \/ ContextMismatch) /\ Return
      /\ fails' = count
      /\ series' = IF NotUnderstood THEN series + 1 ELSE 0
      /\ status' = IF count >= TerminalLimit THEN "ERROR" ELSE status
      /\ UNCHANGED <<cinema, wanted, title, booking, preview, origin>>
  BY DEF FailCheck
<1>2. kind = "structure" => NotUnderstood
  <2>1. CASE ContextMismatch
    BY <2>1, NullsFresh, Understood DEF ContextMismatch, NotUnderstood, FetchOK, AboutTarget
  <2>2. CASE ~ContextMismatch
    BY <1>1, <2>2 DEF FetchOK
  <2>3. QED
    BY <2>1, <2>2
<1>3. fails \in Nat /\ fails < TerminalLimit /\ fails <= series /\ series \in Nat
      /\ TerminalLimit \in Nat \ {0}
  BY <1>1, LimitPositive DEF CountsOK
<1>4. count <= series' /\ count \in 0..TerminalLimit /\ series' \in Nat
  BY <1>1, <1>2, <1>3 DEF Terminal
<1>5. CountsOK' /\ (status' = "ERROR" => series' >= TerminalLimit)
  BY <1>1, <1>3, <1>4 DEF CountsOK
<1>6. FetchOK' /\ OriginOK'
  BY <1>1 DEF FetchOK, OriginOK, Return, NotUnderstood
<1>7. /\ pc' = "idle" /\ failure' = "none" /\ page' = NoPage /\ log' = <<>>
  BY <1>1 DEF Return
<1>8. QED
  BY <1>1, <1>4, <1>5, <1>6, <1>7

LEMMA ConcludeStep == ASSUME PageInv, ConcludeCheck PROVE PageInv'
<1> USE DEF PageInv, TypeOK
<1>1. /\ page \in Page /\ ParseFailure(page) = "none"
      /\ pc' = "idle" /\ failure' = "none" /\ page' = NoPage /\ log' = <<>>
      /\ fails' = 0 /\ series' = 0
      /\ UNCHANGED <<wanted, title, preview, origin>>
      /\ status = "MONITORING" /\ status' \in {"MONITORING", "DETECTED"}
  BY DEF ConcludeCheck, Return, FetchOK, ContextMismatch
<1>2. cinema' \in Cinema \cup {NoCinema} /\ booking' \in Cinema \cup {NoCinema}
  <2>1. CASE \E k \in DOMAIN page.cells : cinema' = page.cells[k].id /\ booking' = page.cells[k].to
    BY <1>1, <2>1, Understood DEF Cell
  <2>2. CASE UNCHANGED <<cinema, booking>>
    BY <2>2
  <2>3. QED
    BY <2>1, <2>2 DEF ConcludeCheck, Matching, CinemaRoot
<1>3. FetchOK' /\ OriginOK' /\ CountsOK'
  BY <1>1, LimitPositive DEF FetchOK, OriginOK, CountsOK, NotUnderstood
<1>4. fails' \in 0..TerminalLimit /\ series' \in Nat
  BY <1>1, LimitPositive
<1>5. QED
  BY <1>1, <1>2, <1>3, <1>4

LEMMA PageStep == PageInv /\ [Next]_vars => PageInv'
<1> SUFFICES ASSUME PageInv, [Next]_vars PROVE PageInv'
    OBVIOUS
<1> USE DEF PageInv, TypeOK, taskVars, fetchVars
<1>1. CASE BeginPreview \/ BeginCheck
  <2>1. FetchOK' /\ OriginOK' /\ CountsOK'
    BY <1>1 DEF BeginPreview, BeginCheck, Begin, FetchOK, OriginOK, CountsOK, NotUnderstood
  <2>2. QED
    BY <1>1, <2>1 DEF BeginPreview, BeginCheck, Begin
<1>2. CASE EndPreview
  <2>1. FetchOK' /\ OriginOK' /\ CountsOK'
    BY <1>2 DEF EndPreview, Return, FetchOK, OriginOK, CountsOK, NotUnderstood
  <2>2. QED
    BY <1>2, <2>1 DEF EndPreview, Return
<1>3. CASE PreviewLapses
  <2>1. FetchOK' /\ OriginOK' /\ CountsOK'
    BY <1>3 DEF PreviewLapses, FetchOK, OriginOK, CountsOK, NotUnderstood
  <2>2. QED
    BY <1>3, <2>1 DEF PreviewLapses
<1>4. CASE ResumeTask
  <2>1. FetchOK' /\ OriginOK' /\ CountsOK'
    BY <1>4, LimitPositive DEF ResumeTask, FetchOK, OriginOK, CountsOK, NotUnderstood
  <2>2. QED
    BY <1>4, <2>1, LimitPositive DEF ResumeTask
<1>5. CASE UNCHANGED vars
  BY <1>5 DEF vars, FetchOK, OriginOK, CountsOK, NotUnderstood
<1>6. QED
  BY <1>1, <1>2, <1>3, <1>4, <1>5, FetchStep, CreateStep, FailStep, ConcludeStep DEF Next

\* The failure counter stays below its limit until the task is stopped, and
\* what is kept of a page is a cinema, a name and a title that it has.
THEOREM PageTypes == Spec => []TypeOK
<1>1. PageInv => TypeOK
  BY DEF PageInv
<1>2. QED
  BY <1>1, PageInit, PageStep, PTL DEF Spec

-----------------------------------------------------------------------------
(* What a step may conclude.                                               *)

LEMMA StepOpens == ASSUME PageInv, [Next]_vars, Opens PROVE ConcludeCheck
BY DEF Opens, Next, PageInv, TypeOK, GetBootstrap, RetryBootstrap, GetList, BeginPreview, EndPreview,
       PreviewLapses, CreateTask, ResumeTask, BeginCheck, FailCheck, taskVars, vars

LEMMA StepEndsCheck == ASSUME PageInv, [Next]_vars, EndsCheck PROVE FailCheck \/ ConcludeCheck
BY DEF EndsCheck, Next, GetBootstrap, RetryBootstrap, GetList, BeginPreview, EndPreview, Begin,
       PreviewLapses, CreateTask, ResumeTask, BeginCheck, fetchVars, vars

\* A cell that matches the task's target on an understood page.
LEMMA MatchIsTarget ==
    ASSUME PageInv, NEW p \in Page, ParseFailure(p) = "none", NEW k \in DOMAIN p.cells
    PROVE  /\ MatchesTarget(p.cells[k]) <=> IsTarget(p.cells[k])
           /\ Bookable(p.cells[k]) <=> Offered(p.cells[k])
<1>1. p.cells[k] \in Cell /\ p.cells[k].id \in Cinema
  BY Understood
<1>2. MatchesTarget(p.cells[k]) <=> IsTarget(p.cells[k])
  BY <1>1, NullsFresh DEF MatchesTarget, IsTarget
<1>3. Bookable(p.cells[k]) <=> Offered(p.cells[k])
  BY <1>1 DEF Bookable, ValidBooking, Offered, Cell
<1>4. QED
  BY <1>2, <1>3

LEMMA ConcludesFromPage ==
    ASSUME PageInv, ConcludeCheck
    PROVE  /\ page \in Page /\ ParseFailure(page) = "none" /\ page.title = title /\ fails' = 0
           /\ \/ \E k \in DOMAIN page.cells :
                    /\ IsTarget(page.cells[k]) /\ Offered(page.cells[k])
                    /\ status' = "DETECTED"
                    /\ cinema' = page.cells[k].id /\ booking' = page.cells[k].to
              \/ /\ \A k \in DOMAIN page.cells : ~(IsTarget(page.cells[k]) /\ Offered(page.cells[k]))
                 /\ status' = "MONITORING"
<1>1. page \in Page /\ ParseFailure(page) = "none" /\ page.title = title /\ fails' = 0
  BY DEF ConcludeCheck, ContextMismatch, PageInv, FetchOK
<1>2. \A k \in DOMAIN page.cells : k \in Matching <=> IsTarget(page.cells[k]) /\ Offered(page.cells[k])
  BY <1>1, MatchIsTarget DEF Matching, CinemaRoot
<1>3. Matching \subseteq DOMAIN page.cells
  BY DEF Matching, CinemaRoot
<1>4. CASE \E k \in Matching : /\ status' = "DETECTED"
                               /\ cinema' = page.cells[k].id /\ booking' = page.cells[k].to
  BY <1>1, <1>2, <1>3, <1>4
<1>5. CASE Matching = {} /\ UNCHANGED status
  BY <1>1, <1>2, <1>5 DEF ConcludeCheck
<1>6. QED
  BY <1>4, <1>5 DEF ConcludeCheck, CinemaRoot

\* An opening is announced only on a page about the target whose own list sells
\* the show at the target cinema, and the mailed link is that cinema's.
THEOREM OpeningProved == Spec => OpeningIsProved
<1>1. ASSUME PageInv, [Next]_vars, Opens
      PROVE  /\ AboutTarget(page) /\ page.title = title
             /\ \E k \in DOMAIN page.cells :
                   /\ IsTarget(page.cells[k]) /\ Offered(page.cells[k])
                   /\ page.cells[k].id = cinema'
             /\ booking' = cinema'
  <2>1. ConcludeCheck
    BY <1>1, StepOpens
  <2>2. AboutTarget(page) /\ page.title = title
    BY <1>1, <2>1, ConcludesFromPage, Understood
  <2>3. \E k \in DOMAIN page.cells :
           /\ IsTarget(page.cells[k]) /\ Offered(page.cells[k])
           /\ cinema' = page.cells[k].id /\ booking' = page.cells[k].to
    BY <1>1, <2>1, ConcludesFromPage DEF Opens
  <2>4. QED
    BY <2>2, <2>3 DEF Offered
<1>2. QED
  BY <1>1, PageInit, PageStep, PTL DEF Spec, OpeningIsProved

\* "Not open yet" is concluded only from a list about the target that is
\* declared empty or whose cells for the target have no booking control.
THEOREM ClosedProved == Spec => ClosedIsProved
<1>1. ASSUME PageInv, [Next]_vars, FindsClosed
      PROVE  /\ AboutTarget(page)
             /\ (page.empties = 1) <=> (page.cells = <<>>)
             /\ \A k \in DOMAIN page.cells :
                   IsTarget(page.cells[k]) => page.cells[k].control \in {"none", "closed"}
  <2>1. ~FailCheck
    <3>1. fails + 1 # 0
      BY <1>1 DEF PageInv, TypeOK
    <3>2. QED
      BY <1>1, <3>1 DEF FindsClosed, FailCheck, Terminal
  <2>2. ConcludeCheck
    BY <1>1, <2>1, StepEndsCheck DEF FindsClosed
  <2>3. /\ page \in Page /\ ParseFailure(page) = "none"
        /\ \A k \in DOMAIN page.cells : ~(IsTarget(page.cells[k]) /\ Offered(page.cells[k]))
    BY <1>1, <2>2, ConcludesFromPage DEF FindsClosed
  <2>4. AboutTarget(page) /\ ((page.empties = 1) <=> (page.cells = <<>>))
    BY <2>3, Understood
  <2>5. ASSUME NEW k \in DOMAIN page.cells, IsTarget(page.cells[k])
        PROVE  page.cells[k].control \in {"none", "closed"}
    <3>1. /\ ~CellRefused(page.cells[k]) /\ page.cells[k].control \in Control
          /\ ~Bookable(page.cells[k])
      BY <1>1, <2>3, <2>5, Understood, MatchIsTarget DEF Cell
    <3>2. QED
      BY <3>1 DEF CellRefused, Bookable, Control
  <2>6. QED
    BY <2>4, <2>5
<1>2. QED
  BY <1>1, PageInit, PageStep, PTL DEF Spec, ClosedIsProved

\* A check that is answered with the page its task was made from understands it
\* and says "open" exactly if that page offers the show at the target cinema.
THEOREM PreviewUnderstood == Spec => PreviewedPageIsUnderstood
<1>1. ASSUME PageInv, [Next]_vars, EndsCheck, page = origin
      PROVE  fails' = 0 /\ (status' = "DETECTED" <=> OpenAt(page))
  <2>1. page \in Page /\ ParseFailure(page) = "none" /\ page.title = title
    BY <1>1 DEF PageInv, OriginOK, EndsCheck
  <2>2. ~FailCheck
    BY <1>1, <2>1, NullsFresh DEF FailCheck, ContextMismatch, PageInv, FetchOK
  <2>3. ConcludeCheck
    BY <1>1, <2>2, StepEndsCheck
  <2>4. QED
    BY <1>1, <2>3, ConcludesFromPage DEF OpenAt
<1>2. QED
  BY <1>1, PageInit, PageStep, PTL DEF Spec, PreviewedPageIsUnderstood

\* Only a series of answers that were not understood stops a task.
THEOREM SeriesStops == Spec => OnlySeriesStops
<1>1. ASSUME PageInv, [Next]_vars, status' = "ERROR", status # "ERROR"
      PROVE  series' >= TerminalLimit
  <2>1. FailCheck
    BY <1>1 DEF Next, GetBootstrap, RetryBootstrap, GetList, BeginPreview, EndPreview,
       PreviewLapses, CreateTask, ResumeTask, BeginCheck, ConcludeCheck, taskVars, vars
  <2>2. QED
    BY <1>1, <2>1, FailStep
<1>2. QED
  BY <1>1, PageInit, PageStep, PTL DEF Spec, OnlySeriesStops
-----------------------------------------------------------------------------
(* The requests of a fetch, by the stage it has reached.                   *)

Entry == [to : {"root", "list"}, answer : Answer]

LogOK ==
    /\ log \in Seq(Entry)
    /\ pc \in {"idle", "bootstrap"} => log = <<>>
    /\ pc = "retry" => Len(log) = 1 /\ log[1].answer = "selfRedirect" /\ log[1].to = "root"
    /\ pc = "list" => Len(log) \in 1..2 /\ log[Len(log)] = [to |-> "root", answer |-> "ok"]
    /\ PoliteFetch

\* One more request, after answers that allow it.
LEMMA PoliteStep ==
    ASSUME LogOK, NEW to \in {"root", "list"}, NEW a \in Answer, Request(to, a), Len(log) < 3,
           \A k \in DOMAIN log : log[k].answer = "ok" \/ (k = 1 /\ log[k].answer = "selfRedirect"),
           to = "list" => Len(log) > 0 /\ log[Len(log)] = [to |-> "root", answer |-> "ok"]
    PROVE  /\ log' \in Seq(Entry) /\ PoliteFetch' /\ Len(log') = Len(log) + 1
           /\ log'[Len(log')] = [to |-> to, answer |-> a]
           /\ \A k \in DOMAIN log : log'[k] = log[k]
<1>1. /\ log \in Seq(Entry) /\ [to |-> to, answer |-> a] \in Entry
      /\ log' = Append(log, [to |-> to, answer |-> a])
  BY DEF LogOK, Request, Entry
<1>2. /\ log' \in Seq(Entry) /\ Len(log') = Len(log) + 1
      /\ log'[Len(log')] = [to |-> to, answer |-> a]
      /\ \A k \in DOMAIN log : log'[k] = log[k]
  BY <1>1
<1>3. PoliteFetch'
  <2>1. Len(log') <= 3
    BY <1>1, <1>2
  <2>2. ASSUME NEW k \in DOMAIN log' PROVE
           /\ k < Len(log') => log'[k].answer = "ok" \/ (k = 1 /\ log'[k].answer = "selfRedirect")
           /\ log'[k].to = "list" => k > 1 /\ log'[k - 1] = [to |-> "root", answer |-> "ok"]
    <3>1. CASE k = Len(log')
      BY <1>1, <1>2, <3>1
    <3>2. CASE k # Len(log')
      <4>1. k \in DOMAIN log /\ log'[k] = log[k]
        BY <1>1, <1>2, <3>2
      <4>2. k > 1 => k - 1 \in DOMAIN log /\ log'[k - 1] = log[k - 1]
        BY <1>1, <1>2, <4>1
      <4>. QED  BY <4>1, <4>2 DEF LogOK, PoliteFetch
    <3>. QED  BY <3>1, <3>2
  <2>. QED  BY <2>1, <2>2 DEF PoliteFetch
<1>. QED  BY <1>2, <1>3

LEMMA LogStep == TypeOK /\ LogOK /\ [Next]_vars => LogOK'
<1> SUFFICES ASSUME TypeOK, LogOK, [Next]_vars PROVE LogOK'
    OBVIOUS
<1>1. ASSUME Begin, pc = "idle" PROVE LogOK'
  BY <1>1 DEF Begin, LogOK, PoliteFetch
<1>2. ASSUME Return PROVE LogOK'
  BY <1>2 DEF Return, LogOK, PoliteFetch
<1>3. CASE UNCHANGED fetchVars
  BY <1>3 DEF fetchVars, LogOK, PoliteFetch
<1>4. ASSUME NEW a \in Answer, NEW next \in {"list", "page"}, Proceed(a, next)
      PROVE  pc' \in {next, "failed"} /\ (pc' = next <=> a = "ok")
  BY <1>4 DEF Proceed, StatusFailure, Answer
<1>5. CASE GetBootstrap
  <2>1. PICK a \in Answer :
           /\ Request("root", a)
           /\ IF a = "selfRedirect" THEN pc' = "retry" ELSE Proceed(a, "list")
    BY <1>5 DEF GetBootstrap, AfterBootstrap
  <2>2. log = <<>>
    BY <1>5 DEF GetBootstrap, LogOK
  <2>3. /\ log' \in Seq(Entry) /\ PoliteFetch' /\ Len(log') = 1
        /\ log'[1] = [to |-> "root", answer |-> a]
    BY <2>1, <2>2, PoliteStep
  <2>4. /\ pc' \in {"retry", "list", "failed"}
        /\ pc' = "retry" => a = "selfRedirect"
        /\ pc' = "list" => a = "ok"
    BY <1>4, <2>1
  <2>. QED  BY <2>3, <2>4 DEF LogOK
<1>6. CASE RetryBootstrap
  <2>1. PICK a \in Answer : Request("root", a) /\ Proceed(a, "list")
    BY <1>6 DEF RetryBootstrap, AfterRetry, AfterBootstrap
  <2>2. Len(log) = 1 /\ log[1].answer = "selfRedirect" /\ log \in Seq(Entry)
    BY <1>6 DEF RetryBootstrap, LogOK
  <2>3. /\ log' \in Seq(Entry) /\ PoliteFetch' /\ Len(log') = 2
        /\ log'[2] = [to |-> "root", answer |-> a]
    BY <2>1, <2>2, PoliteStep
  <2>4. pc' \in {"list", "failed"} /\ (pc' = "list" => a = "ok")
    BY <1>4, <2>1
  <2>. QED  BY <2>3, <2>4 DEF LogOK
<1>7. CASE GetList
  <2>1. PICK a \in Answer : Request("list", a)
    BY <1>7 DEF GetList, Answer
  <2>2. pc' \in {"page", "failed"}
    BY <1>4, <1>7 DEF GetList, Answer
  <2>3. /\ Len(log) \in 1..2 /\ log[Len(log)] = [to |-> "root", answer |-> "ok"]
        /\ log \in Seq(Entry) /\ PoliteFetch
    <3>1. pc = "list"
      BY <1>7 DEF GetList
    <3>. QED  BY <3>1 DEF LogOK
  <2>4. \A k \in DOMAIN log : log[k].answer = "ok" \/ (k = 1 /\ log[k].answer = "selfRedirect")
    <3>1. log[Len(log)].answer = "ok"
      BY <2>3
    <3>2. \A k \in DOMAIN log :
             k < Len(log) => log[k].answer = "ok" \/ (k = 1 /\ log[k].answer = "selfRedirect")
      BY <2>3 DEF PoliteFetch
    <3>3. Len(log) \in Nat /\ DOMAIN log = 1..Len(log)
      BY <2>3
    <3>4. \A k \in DOMAIN log : k < Len(log) \/ k = Len(log)
      BY <3>3
    <3>. QED  BY <3>1, <3>2, <3>4, Zenon
  <2>5. Len(log) < 3 /\ Len(log) > 0
    <3>1. \A n \in 1..2 : n < 3 /\ n > 0
      OBVIOUS
    <3>. QED  BY <2>3, <3>1, Zenon
  <2>6. log' \in Seq(Entry) /\ PoliteFetch'
    BY <2>1, <2>3, <2>4, <2>5, PoliteStep
  <2>. QED  BY <2>2, <2>6 DEF LogOK
<1>. QED
  BY <1>1, <1>2, <1>3, <1>5, <1>6, <1>7
  DEF Next, BeginPreview, EndPreview, PreviewLapses, CreateTask, ResumeTask, BeginCheck, FailCheck,
      ConcludeCheck, fetchVars, vars

\* Whatever the platform answers, a fetch asks it at most three times, and goes
\* on after a refusal only once, when the start page redirects to itself.
THEOREM PoliteAlways == Spec => []PoliteFetch
<1>1. Init => LogOK
  BY DEF Init, LogOK, PoliteFetch
<1>2. LogOK => PoliteFetch
  BY DEF LogOK
<1>. QED  BY <1>1, <1>2, PageTypes, LogStep, PTL DEF Spec
=============================================================================
