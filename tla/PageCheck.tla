------------------------------- MODULE PageCheck -------------------------------
(***************************************************************************)
(* What a platform page means for a task: the adapter's requests, the      *)
(* parser, the preview a task is made from and the conclusion perform_check *)
(* draws.  The platform answers as it likes: every request may fail, be    *)
(* rejected or redirected, and every list page may be any page of Page.    *)
(*                                                                         *)
(* A page is what the parser looks at.  "city", "film" and "day" say        *)
(* whether the page's own markers name the target's, something else, or    *)
(* nothing definite; a blank title stands for one that is missing, empty   *)
(* or ambiguous, and a page without a body is one without definite markers. *)
(* A cell with several or broken name links has the identity NoCinema.      *)
(*                                                                         *)
(* Claims, pauses and mails of the task are in TaskLifecycle; here one     *)
(* preview or check runs at a time.                                        *)
(***************************************************************************)
EXTENDS Naturals, Sequences, FiniteSets

CONSTANTS
    Cinema,          \* cinema ids of the platform
    Spelling,        \* cinema names as pages or users write them
    NormalOf,        \* normalize_cinema_name
    Title,           \* film names
    Url,             \* what users enter in the preview form
    Page,            \* list pages the platform may answer with
    TerminalLimit,   \* consecutive terminal failures that stop a task (5)
    NoCinema, Blank, NoPage

Control == {"none", "closed", "unlinked", "several", "relabelled", "link"}

\* "to", "fits" and "day" describe the booking link: the cinema in its path,
\* whether host, film and poi are acceptable, and its showDate.
Cell == [id : Cinema \cup {NoCinema}, spelling : Spelling \cup {Blank},
         control : Control, to : Cinema, fits : BOOLEAN,
         day : {"target", "none", "other"}]

Marker == {"target", "other", "unclear"}
PageType == [verify : BOOLEAN, layout : {"legacy", "live"},
             city : Marker, film : Marker, day : Marker,
             title : Title \cup {Blank}, lists : 0..2, empties : 0..2,
             cells : Seq(Cell), outside : Seq(Cell)]

ASSUME NamesTyped == NormalOf \in [Spelling -> Spelling]
ASSUME PagesTyped == Page \subseteq PageType
\* The legacy layout has no list of its own: all cells of the page count.
ASSUME LegacyHasNoOutside ==
    \A p \in Page : p.layout = "legacy" => p.lists = 1 /\ p.outside = <<>>
ASSUME LimitPositive == TerminalLimit \in Nat \ {0}
ASSUME NullsFresh ==
    NoCinema \notin Cinema /\ Blank \notin Spelling \cup Title /\ NoPage \notin Page

VARIABLES
    status,     \* MonitorTask.status, as far as checks and resumption move it
    cinema,     \* cinema_id, NoCinema if the user typed a name
    wanted,     \* normalized_cinema_name
    title,      \* movie_name
    fails,      \* consecutive_terminal_failures
    booking,    \* the cinema of booking_url
    preview,    \* the page whose data a signed preview holds
    origin,     \* history: the page the task was made from
    pc,         \* "idle", the next request, or "page" when a page was received
    failure,    \* the adapter error of the fetch under way
    page,       \* the list page it received
    log,        \* history: its requests and their answers
    series      \* history: checks in a row that received no page they understood

taskVars == <<status, cinema, wanted, title, fails, booking>>
fetchVars == <<pc, failure, page, log>>
vars == <<taskVars, preview, origin, fetchVars, series>>

Failure == {"limited", "temporary", "structure"}
Answer == {"ok", "selfRedirect", "redirect", "rejected", "serverError", "unreachable"}

TypeOK ==
    /\ status \in {"ABSENT", "MONITORING", "DETECTED", "ERROR"}
    /\ cinema \in Cinema \cup {NoCinema} /\ booking \in Cinema \cup {NoCinema}
    /\ wanted \in Spelling \cup {Blank} /\ title \in Title \cup {Blank}
    /\ fails \in 0..TerminalLimit
    /\ preview \in Page \cup {NoPage} /\ origin \in Page \cup {NoPage}
    /\ page \in Page \cup {NoPage}
    /\ pc \in {"idle", "bootstrap", "retry", "list", "page", "failed"}
    /\ failure \in Failure \cup {"none"}
    /\ series \in Nat
    /\ log \in Seq([to : {"root", "list"}, answer : Answer])

Init ==
    /\ status = "ABSENT" /\ cinema = NoCinema /\ wanted = Blank /\ title = Blank
    /\ fails = 0 /\ booking = NoCinema
    /\ preview = NoPage /\ origin = NoPage
    /\ pc = "idle" /\ failure = "none" /\ page = NoPage /\ log = <<>> /\ series = 0

-----------------------------------------------------------------------------
(* validate_target.  The test for the required parameters is one for a     *)
(* proper subset: a URL with another filter but without film or day passes *)
(* it and then fails with a KeyError, which the view does not catch.       *)

Required == {"movieId", "showDate"}

Validation(u) ==
    IF ~u.direct \/ u.irregular \/ (u.names \subseteq Required /\ u.names # Required)
      THEN "refused"
    ELSE IF "movieId" \notin u.names THEN "crashed"
    ELSE IF ~u.numeric \/ ~u.filled THEN "refused"
    ELSE IF "showDate" \notin u.names THEN "crashed"
    ELSE IF ~u.upcoming THEN "refused" ELSE "target"

-----------------------------------------------------------------------------
(* parse_html.                                                             *)

ContextProved(p) ==
    /\ p.city = "target" /\ p.film = "target" /\ p.day = "target"
    /\ p.title # Blank
    /\ p.layout = "live" => p.lists = 1

\* Mutant: cells are searched in the whole page.
WholePage(p) == p.cells \o p.outside
CinemaRoot(p) == p.cells

\* _validated_booking_url
ValidBooking(c) == c.to = c.id /\ c.fits /\ c.day # "other"

\* Mutant: a booking control that is not understood counts as closed.
OnlyIdentityRefused(c) == c.id = NoCinema \/ c.spelling = Blank
CellRefused(c) ==
    \/ c.id = NoCinema \/ c.spelling = Blank
    \/ c.control \in {"several", "relabelled", "unlinked"}
    \/ c.control = "link" /\ ~ValidBooking(c)

ListProved(p) ==
    LET cells == CinemaRoot(p)
    IN  \/ p.empties = 1 /\ cells = <<>>
        \/ /\ p.empties = 0 /\ cells # <<>>
           /\ \A k \in DOMAIN cells : ~CellRefused(cells[k])

ParseFailure(p) ==
    IF p.verify THEN "limited"
    ELSE IF ContextProved(p) /\ ListProved(p) THEN "none" ELSE "structure"

Bookable(c) == c.control = "link" /\ ValidBooking(c)

-----------------------------------------------------------------------------
(* MaoyanAdapter.fetch, for a preview or a check.                           *)

\* _validate_response_status; a network error has the same class as a server
\* error.
StatusFailure(a) ==
    CASE a \in {"selfRedirect", "redirect"} -> "structure"
      [] a = "rejected" -> "limited"
      [] a \in {"serverError", "unreachable"} -> "temporary"
      [] a = "ok" -> "none"

Request(to, a) == log' = Append(log, [to |-> to, answer |-> a])

Proceed(a, next) ==
    /\ failure' = StatusFailure(a)
    /\ pc' = IF StatusFailure(a) = "none" THEN next ELSE "failed"

AfterBootstrap(a) == Proceed(a, "list")

\* The first request; a redirect of the start page to itself is asked again.
GetBootstrap ==
    /\ pc = "bootstrap"
    /\ \E a \in Answer :
          /\ Request("root", a)
          /\ IF a = "selfRedirect" THEN pc' = "retry" /\ UNCHANGED failure
                                   ELSE AfterBootstrap(a)
    /\ UNCHANGED <<taskVars, preview, origin, page, series>>

\* Mutant: every self-redirect is followed.
FollowRedirects(a) ==
    IF a = "selfRedirect" THEN pc' = "retry" /\ UNCHANGED failure ELSE AfterBootstrap(a)
AfterRetry(a) == AfterBootstrap(a)

RetryBootstrap ==
    /\ pc = "retry"
    /\ \E a \in Answer : Request("root", a) /\ AfterRetry(a)
    /\ UNCHANGED <<taskVars, preview, origin, page, series>>

GetList ==
    /\ pc = "list"
    /\ \/ \E a \in Answer \ {"ok"} :
             Request("list", a) /\ Proceed(a, "page") /\ UNCHANGED page
       \/ \E p \in Page :
             /\ Request("list", "ok")
             /\ page' = p
             /\ failure' = ParseFailure(p)
             /\ pc' = IF ParseFailure(p) = "none" THEN "page" ELSE "failed"
    /\ UNCHANGED <<taskVars, preview, origin, series>>

Begin == pc' = "bootstrap" /\ UNCHANGED <<failure, page, log>>
Return ==
    /\ pc \in {"page", "failed"}
    /\ pc' = "idle" /\ failure' = "none" /\ page' = NoPage /\ log' = <<>>

-----------------------------------------------------------------------------
(* The web process: preview and creation.                                  *)

BeginPreview ==
    /\ status = "ABSENT" /\ preview = NoPage /\ pc = "idle"
    /\ \E u \in Url : Validation(u) = "target"
    /\ Begin
    /\ UNCHANGED <<taskVars, preview, origin, series>>

EndPreview ==
    /\ status = "ABSENT" /\ Return
    /\ preview' = IF pc = "page" THEN page ELSE NoPage
    /\ UNCHANGED <<taskVars, origin, series>>

\* The signature is older than 30 minutes, or the user starts again.
PreviewLapses ==
    /\ preview # NoPage
    /\ preview' = NoPage
    /\ UNCHANGED <<taskVars, origin, fetchVars, series>>

\* create_task: one of the listed cinemas, or a typed name.  The listed ones are
\* kept by id, so that of two cells with one id the later gives the name.
CreateTask ==
    /\ status = "ABSENT" /\ preview # NoPage /\ pc = "idle"
    /\ \/ \E k \in DOMAIN CinemaRoot(preview) :
             LET c == CinemaRoot(preview)[k]
             IN  /\ \A j \in DOMAIN CinemaRoot(preview) :
                        CinemaRoot(preview)[j].id = c.id => j <= k
                 /\ cinema' = c.id /\ wanted' = NormalOf[c.spelling]
       \/ \E s \in Spelling : cinema' = NoCinema /\ wanted' = NormalOf[s]
    /\ status' = "MONITORING"
    /\ title' = preview.title
    /\ preview' = NoPage
    /\ origin' = preview
    /\ UNCHANGED <<fails, booking, fetchVars, series>>

\* task_resume
ResumeTask ==
    /\ status = "ERROR"
    /\ status' = "MONITORING" /\ fails' = 0 /\ series' = 0
    /\ UNCHANGED <<cinema, wanted, title, booking, preview, origin, fetchVars>>

-----------------------------------------------------------------------------
(* The worker: perform_check.                                              *)

BeginCheck ==
    /\ status = "MONITORING" /\ pc = "idle"
    /\ Begin
    /\ UNCHANGED <<taskVars, preview, origin, series>>

\* _result_matches_task: what the parser has not compared yet is the film name.
ContextMismatch == pc = "page" /\ page.title # title

\* Mutant: the name is compared even if the id is known.
MatchesByName(c) == NormalOf[c.spelling] = wanted
MatchesTarget(c) ==
    IF cinema # NoCinema THEN c.id = cinema ELSE NormalOf[c.spelling] = wanted

\* Mutant: rate limits count as terminal.
TerminalOrLimited(f) == f \in {"structure", "limited"}
Terminal(f) == f = "structure"

\* History: the answer was a redirect, or a page that is not a challenge.
NotUnderstood ==
    \/ page # NoPage /\ ~page.verify
    \/ log[Len(log)].answer \in {"redirect", "selfRedirect"}

FailCheck ==
    LET kind == IF ContextMismatch THEN "structure" ELSE failure
        count == IF Terminal(kind) THEN fails + 1 ELSE 0
    IN  /\ status = "MONITORING"
        /\ pc = "failed" \/ ContextMismatch
        /\ Return
        /\ fails' = count
        /\ series' = IF NotUnderstood THEN series + 1 ELSE 0
        /\ status' = IF count >= TerminalLimit THEN "ERROR" ELSE status
        /\ UNCHANGED <<cinema, wanted, title, booking, preview, origin>>

\* The cells that match and can be booked, in the order of the page.
Matching == {k \in DOMAIN CinemaRoot(page) :
                MatchesTarget(CinemaRoot(page)[k]) /\ Bookable(CinemaRoot(page)[k])}

ConcludeCheck ==
    /\ status = "MONITORING" /\ pc = "page" /\ ~ContextMismatch
    /\ Return
    /\ fails' = 0 /\ series' = 0
    /\ \/ \E k \in Matching :
             /\ \A j \in Matching : k <= j
             /\ status' = "DETECTED"
             /\ cinema' = CinemaRoot(page)[k].id
             /\ booking' = CinemaRoot(page)[k].to
       \/ Matching = {} /\ UNCHANGED <<status, cinema, booking>>
    /\ UNCHANGED <<wanted, title, preview, origin>>

-----------------------------------------------------------------------------
Next ==
    \/ BeginPreview \/ EndPreview \/ PreviewLapses \/ CreateTask \/ ResumeTask
    \/ BeginCheck \/ FailCheck \/ ConcludeCheck
    \/ GetBootstrap \/ RetryBootstrap \/ GetList

Spec == Init /\ [][Next]_vars

-----------------------------------------------------------------------------
(* What a page says, stated without the parser.                            *)

AboutTarget(p) ==
    ~p.verify /\ p.city = "target" /\ p.film = "target" /\ p.day = "target"

\* A cell whose link sells the show at the cinema it names.
Offered(c) ==
    c.control = "link" /\ c.to = c.id /\ c.fits /\ c.day \in {"target", "none"}

IsTarget(c) == c.id = cinema \/ (cinema = NoCinema /\ NormalOf[c.spelling] = wanted)
OpenAt(p) == \E k \in DOMAIN p.cells : IsTarget(p.cells[k]) /\ Offered(p.cells[k])

Opens == status # "DETECTED" /\ status' = "DETECTED"
EndsCheck == status = "MONITORING" /\ pc \in {"page", "failed"} /\ pc' = "idle"
FindsClosed == EndsCheck /\ pc = "page" /\ fails' = 0 /\ status' = "MONITORING"

\* An opening is announced only on the evidence of a page about the target's
\* city, film and day whose own list offers the show at the target cinema; the
\* link that is mailed belongs to that cinema, and a cinema chosen by its id is
\* never exchanged for a namesake.
OpeningIsProved ==
    [][Opens => /\ AboutTarget(page) /\ page.title = title
                /\ \E k \in DOMAIN page.cells :
                      /\ IsTarget(page.cells[k]) /\ Offered(page.cells[k])
                      /\ page.cells[k].id = cinema'
                /\ booking' = cinema']_vars

\* A page that is not understood is an error and never "not open yet": this is
\* concluded, and clears the failures, only from a list about the target that
\* is declared empty or holds cells, none of which has anything like a booking
\* control for the target.
ClosedIsProved ==
    [][FindsClosed => /\ AboutTarget(page)
                      /\ (page.empties = 1) <=> (page.cells = <<>>)
                      /\ \A k \in DOMAIN page.cells :
                            IsTarget(page.cells[k])
                               => page.cells[k].control \in {"none", "closed"}]_vars

\* If a check is answered with the very page the task was made from, it is
\* understood again, and says "open" exactly if the page offers the show there:
\* a preview never leads to a task that its own page would fail or miss.
PreviewedPageIsUnderstood ==
    [][EndsCheck /\ page = origin => fails' = 0 /\ (status' = "DETECTED" <=> OpenAt(page))]_vars

\* Rate limits, verification pages and outages never stop a task, and one of
\* them in between starts the count again: it takes TerminalLimit checks in a
\* row whose page was received and not understood, or redirected.
OnlySeriesStops ==
    [][status' = "ERROR" /\ status # "ERROR" => series' >= TerminalLimit]_vars

\* A fetch is at most three requests; it stops at the first answer that is not
\* the page asked for, except for one redirect of the start page to itself, and
\* the list is asked for only after an accepted start page.
PoliteFetch ==
    /\ Len(log) <= 3
    /\ \A k \in DOMAIN log :
          /\ k < Len(log) => log[k].answer = "ok" \/ (k = 1 /\ log[k].answer = "selfRedirect")
          /\ log[k].to = "list" => k > 1 /\ log[k - 1] = [to |-> "root", answer |-> "ok"]
=============================================================================
