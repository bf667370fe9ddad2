------------------------------- MODULE Page -------------------------------
(***************************************************************************)
(* One tab and its server: what a person presses, what the handlers answer,*)
(* and what htmx makes of the answers (internal/server/app.go, ui/home).   *)
(*                                                                         *)
(* The page consists of the composer, with the form and the button that    *)
(* loads the sample plan, and of the three panels a snapshot renders: the  *)
(* statistics, the todos with their buttons, and the events with theirs.   *)
(* Buttons disappear with the panel they are in, so it matters to an answer*)
(* whether its button (gone) and the composer it was to replace (stale)    *)
(* are still the ones in the page.  What the commands do to the database is *)
(* in TodoStore, and which moment a snapshot shows in LiveView: here the    *)
(* todos may have become anything whenever they are read.                   *)
(***************************************************************************)
EXTENDS Naturals, FiniteSets, Framing

CONSTANTS Rows,  \* todos
          Body,  \* the body of each
          Slots  \* BOUND: the requests of the tab that are under way at once

States == {"none", "open", "done"}
Panels == {"stats", "todos", "events"}
Ids == Panels \cup {"composer"}

ASSUME PageAssumption ==
    /\ IsFiniteSet(Rows) /\ Slots # {}
    /\ \A row \in Rows : ToSet(Body[row]) \cap (Rows \cup States \cup Panels) = {}

\* Tokens of different kinds differ, numbers included, and bodies are texts.
ASSUME TokenAssumption ==
    /\ Rows \cap (States \cup Panels \cup {"CR", "LF"}) = {}
    /\ \A n \in 0..Cardinality(Rows) : ToString(n) \notin Panels \cup {"CR", "LF"}
    /\ \A row \in Rows : Body[row] \in Seq(ToSet(Body[row]))

VARIABLES
    page,      \* what the tab shows
    requests,  \* the requests of the tab
    last       \* what became of the latest text that was submitted

vars == <<page, requests, last>>

-----------------------------------------------------------------------------
(* Views                                                                    *)

Existing(read) == {row \in Rows : read[row] # "none"}

Count(set) == ToString(Cardinality(set))

StatsPanel(read) ==
    LET done == {row \in Rows : read[row] = "done"} IN
    <<"stats", Count(Existing(read)), Count(Existing(read) \ done), Count(done)>>

TodoRow(row, state) == <<row, state>> \o Body[row]

TodosPanel(read) ==
    LET list == SetToSeq(Existing(read)) IN
    <<"todos">> \o FlattenSeq([i \in DOMAIN list |-> TodoRow(list[i], read[list[i]])])

EventsPanel == <<"events">>

\* Mutation of Stats: CountTodos is asked after ListTodos.
CountTodos(listed, later) == later

\* viewModel counts the todos that ListTodos returned.
Stats(listed, later) == listed

Reads == [Rows -> States]

\* Mutation of SnapshotParts: the composer is sent along.
SnapshotWithComposer == Ids

SnapshotParts == Panels

\* ListTodos, then ListEvents: the todos may change in between.
Views == [listed : Reads, later : Reads]

renderSnapshot(view) ==
       StatsPanel(Stats(view.listed, view.later))
    \o TodosPanel(view.listed) \o EventsPanel

\* What an HTML parser, which knows one kind of line end, finds of a panel.
Section(text, panel) ==
    LET html == UniformLineEnds(text)
        starts == {i \in DOMAIN html : html[i] \in Panels}
        first == {i \in starts : html[i] = panel}
        start == CHOOSE i \in first : TRUE
        after == {i \in starts : i > start}
        end == IF after = {} THEN Len(html) ELSE (CHOOSE i \in after : \A j \in after : i <= j) - 1
    IN IF first = {} THEN <<>> ELSE SubSeq(html, start, end)

PanelsOf(html) == [panel \in Panels |-> Section(html, panel)]

\* What pages and answers may show.
Rendered == {PanelsOf(renderSnapshot(view)) : view \in Views}

\* What the stream may show: writeSnapshotEvent's event is put together again.
Streamed ==
    {PanelsOf(Last(EventSource(writeSSE("snapshot", renderSnapshot(view)))).data) : view \in Views}

-----------------------------------------------------------------------------
(* The page                                                                 *)

\* accepted counts the todos that were created from the form, whoever sent it;
\* posted is whether the browser has, and failed whether htmx was told of a failure.
Composer ==
    [text |-> "none", error |-> "none", accepted |-> 0, posted |-> FALSE, failed |-> FALSE]

\* home: the error of a form that was sent without htmx comes with the URL.
Home(panels, error) ==
    [url      |-> error,
     scripted |-> FALSE,
     composer |-> [Composer EXCEPT !.error = IF error THEN "url" ELSE "none"],
     panels   |-> panels,
     copies   |-> [id \in Ids |-> 1]]

Idle == [what |-> "none", row |-> "none", text |-> "none", phase |-> "idle",
         main |-> "none", oob |-> {},
         gone |-> FALSE, stale |-> FALSE, again |-> FALSE, newest |-> FALSE]

Init ==
    /\ \E panels \in Rendered : page = Home(panels, FALSE)
    /\ requests = [s \in Slots |-> Idle]
    /\ last = "none"

InComposer == {"create", "seed"}
InTodos == {"toggle", "delete"}
Navigations == {"home", "post"}
Submissions == {"create", "post"}

UnderWay == {s \in Slots : requests[s].phase # "idle"}

\* hx-swap of everything that is to replace the composer, and mutations of it.
SwapInner == "innerHTML"
SwapNone == "none"
HxSwap == "outerHTML"

\* Mutation of oob: the panels of an answer are rendered like those of a page.
InPlace == FALSE

\* renderSnapshot asks for hx-swap-oob.
oob == TRUE

NewComposer(p, error) ==
    [p EXCEPT !.composer = [Composer EXCEPT !.error = error],
              !.copies = IF HxSwap = "innerHTML" THEN [@ EXCEPT !["composer"] = @ + 1] ELSE @]

\* Out-of-band parts replace what has their id, parts that are not there nothing.
Oob(p, parts, panels) ==
    LET q == IF "composer" \in parts THEN NewComposer(p, "none") ELSE p IN
    [q EXCEPT !.panels = [panel \in Panels |->
        IF panel \in parts /\ panels[panel] # <<>> THEN panels[panel] ELSE @[panel]]]

\* Parts that are not out of band come with what replaces the composer.
Inserted(p, parts) ==
    [p EXCEPT !.copies = [id \in Ids |-> IF id \in parts THEN @[id] + 1 ELSE @[id]]]

-----------------------------------------------------------------------------
(* The person                                                               *)

Type(text) ==
    /\ page' = [page EXCEPT !.composer.text = text]
    /\ UNCHANGED <<requests, last>>

\* htmx takes over from the browser when its script has run.
ScriptLoads ==
    /\ ~page.scripted
    /\ page' = [page EXCEPT !.scripted = TRUE]
    /\ UNCHANGED <<requests, last>>

Request(what, row) ==
    [Idle EXCEPT !.what = what, !.row = row, !.phase = "sent",
                 !.text = IF what \in Submissions THEN page.composer.text ELSE "none",
                 !.newest = what \in Submissions]

\* A request starts; it may be the newest submission.
Send(s, what, row) ==
    /\ requests' = [t \in Slots |->
           IF t = s THEN Request(what, row)
           ELSE [requests[t] EXCEPT !.newest = @ /\ what \notin Submissions]]
    /\ last' = IF what \in Submissions THEN "pending" ELSE last

\* An element with a request under way keeps one more for later.
Press(what, row) ==
    /\ page.scripted
    /\ what = "create" => page.composer.text # "none"
    /\ LET busy == {s \in UnderWay : requests[s].what = what /\ requests[s].row = row /\ ~requests[s].gone}
       IN  \/ /\ busy # {}
              /\ requests' = [s \in Slots |-> [requests[s] EXCEPT !.again = @ \/ s \in busy]]
              /\ last' = last
           \/ /\ busy = {} /\ UnderWay # Slots
              /\ Send(CHOOSE s \in Slots \ UnderWay : TRUE, what, row)
    /\ UNCHANGED page

\* The buttons of a row are there while the row is shown.
PressRow(what, row) ==
    /\ row \in ToSet(page.panels["todos"])
    /\ Press(what, row)

\* Without htmx the browser sends the form, and it loads the page again.
Navigate(what) ==
    /\ what = "post" => ~page.scripted /\ page.composer.text # "none"
    /\ \A s \in UnderWay : requests[s].what \notin Navigations
    /\ UnderWay # Slots
    /\ Send(CHOOSE s \in Slots \ UnderWay : TRUE, what, "none")
    /\ page' = [page EXCEPT !.composer.posted = @ \/ what = "post"]

-----------------------------------------------------------------------------
(* The handlers                                                             *)

\* htmx sends HX-Request, the browser itself does not.
isHTMX(s) == requests[s].what \notin Navigations

\* A todo was created: from the form that is in the page, or one that was.
Accepted(s) ==
    page' = IF requests[s].gone THEN page
            ELSE [page EXCEPT !.composer.accepted = IF @ < 2 THEN @ + 1 ELSE @]

Verdict(s, verdict) == last' = IF requests[s].newest THEN verdict ELSE last

Answer(s, main, parts) ==
    requests' = [requests EXCEPT ![s] =
                     [@ EXCEPT !.phase = "answered", !.main = main, !.oob = parts]]

\* http.Error: nothing but an error has been written.
serverError(s) == Answer(s, "failed", {}) /\ Verdict(s, "failed")

Handles(s, commands) == requests[s].phase = "sent" /\ requests[s].what \in commands

\* A redirect ends with the page, or with the failure to read it.
Redirect(s, main, verdict) ==
    \/ Answer(s, main, {}) /\ Verdict(s, verdict)
    \/ serverError(s)

\* formError: the composer with the message, or a redirect to the page with it.
formError(s) ==
    /\ Handles(s, Submissions) /\ requests[s].text = "bad"
    /\ IF isHTMX(s) THEN Answer(s, "error", {}) /\ Verdict(s, "refused")
       ELSE Redirect(s, "page with error", "refused")
    /\ UNCHANGED page

\* createTodo: the commit fails, or takes effect although it reports an error.
createTodoFails(s) ==
    /\ Handles(s, Submissions) /\ requests[s].text = "good"
    /\ serverError(s)
    /\ Accepted(s) \/ page' = page

\* createTodo: a browser is redirected to the page, htmx answered with an empty
\* composer and a snapshot.  If the snapshot cannot be read the composer has been
\* written by then: the answer still succeeds, with the text of the error at the
\* place of the panels.
createTodo(s) ==
    /\ Handles(s, Submissions) /\ requests[s].text = "good"
    /\ IF isHTMX(s)
       THEN /\ Verdict(s, "accepted")
            /\ \E parts \in {SnapshotParts, {}} : Answer(s, "composer", parts)
       ELSE Redirect(s, "page", "accepted")
    /\ Accepted(s)

\* seedShowcase, enqueueSnapshot and broadcastPulse.
clearComposer(s) ==
    /\ Handles(s, {"seed", "pulse"})
    /\ Answer(s, "composer", {})
    /\ UNCHANGED <<page, last>>

\* toggleTodo, deleteTodo: a todo that is not there any more is answered with a
\* snapshot as well (notFoundOrSnapshot; its other answer is for clients whose
\* requests no button of the page sends).
changeTodo(s) ==
    /\ Handles(s, InTodos)
    /\ Answer(s, "none", SnapshotParts)
    /\ UNCHANGED <<page, last>>

\* home: of the URL that the page has, with its error, or of the link to "/".
home(s) ==
    /\ Handles(s, {"home"})
    /\ \E error \in {FALSE, page.url} : Answer(s, IF error THEN "page with error" ELSE "page", {})
    /\ UNCHANGED <<page, last>>

\* Any other handler fails, before or after its commit, or cannot read what it is
\* to show.
Fail(s) ==
    /\ Handles(s, {"seed", "pulse", "home"} \cup InTodos)
    /\ serverError(s)
    /\ UNCHANGED page

Handle(s) ==
    \/ formError(s) \/ createTodo(s) \/ createTodoFails(s) \/ clearComposer(s)
    \/ changeTodo(s) \/ home(s) \/ Fail(s)

-----------------------------------------------------------------------------
(* The tab                                                                  *)

Lost(swapped, replaced) ==
    (IF replaced THEN InComposer \cup {"post"} ELSE {})
    \cup (IF "todos" \in swapped THEN InTodos ELSE {})
    \cup (IF "events" \in swapped THEN {"pulse"} ELSE {})

\* What the other requests lose when elements are replaced.
Detach(r, kinds, target) ==
    [r EXCEPT !.gone = @ \/ r.what \in kinds,
              !.stale = @ \/ (target /\ r.what \in InComposer \cup {"pulse"})]

\* An answer to htmx: errors replace nothing; the composer that was there when
\* the request began is replaced if it still is there, the panels if the button
\* still is.  A second press that waited is sent if the button still is.
Arrive(s, panels) ==
    LET r == requests[s]
        shown == oob /\ ~r.gone
        swapped == IF shown THEN r.oob ELSE {}
        document == r.main \in {"page", "page with error"}
        replaced == r.main \notin {"none", "failed"} /\ ~r.stale /\ HxSwap # "none"
        whole == (replaced /\ HxSwap = "outerHTML") \/ "composer" \in swapped
        kinds == Lost(swapped, replaced \/ whole)
        p == Oob(page, swapped, panels)
        q == IF replaced
             THEN Inserted(NewComposer(p, CASE r.main = "error" -> "verdict"
                                            [] r.main = "page with error" -> "url"
                                            [] OTHER -> "none"),
                           IF document THEN Panels ELSE IF oob THEN {} ELSE r.oob)
             ELSE p
        resent == /\ r.again /\ ~r.gone /\ r.what \notin kinds
                  /\ r.what = "create" => page.composer.text # "none"
    IN  /\ r.phase = "answered" /\ r.what \notin Navigations
        /\ page' = [q EXCEPT !.composer.failed =
                        @ \/ (r.main = "failed" /\ r.what = "create" /\ ~r.gone)]
        /\ requests' = [t \in Slots |->
               IF t = s THEN IF resent THEN Request(r.what, r.row) ELSE Idle
               ELSE [Detach(requests[t], kinds, whole) EXCEPT
                        !.newest = @ /\ ~(resent /\ r.what = "create")]]
        /\ last' = IF resent /\ r.what = "create" THEN "pending" ELSE last

\* The page is replaced, and everything that was under way forgotten; an error
\* page is left with the back button.
OpenPage(s, panels) ==
    LET r == requests[s] IN
    /\ r.phase = "answered" /\ r.what \in Navigations
    /\ \/ /\ r.main = "failed"
          /\ requests' = [requests EXCEPT ![s] = Idle]
          /\ UNCHANGED <<page, last>>
       \/ /\ r.main # "failed"
          /\ page' = Home(panels, r.main = "page with error")
          /\ requests' = [t \in Slots |-> Idle]
          /\ last' = "none"

\* A snapshot of the stream is swapped into an element that takes nothing: only
\* its out-of-band parts are shown, whatever the person is doing.
ShowStreamed(panels) ==
    LET swapped == IF oob THEN SnapshotParts ELSE {}
        composer == "composer" \in swapped
    IN  /\ page.scripted
        /\ page' = Oob(page, swapped, panels)
        /\ requests' = [t \in Slots |-> Detach(requests[t], Lost(swapped, composer), composer)]
        /\ last' = last

Next ==
    \/ \E text \in {"good", "bad"} : Type(text)
    \/ ScriptLoads
    \/ \E what \in InComposer \cup {"pulse"} : Press(what, "none")
    \/ \E what \in InTodos : \E row \in Rows : PressRow(what, row)
    \/ \E what \in Navigations : Navigate(what)
    \/ \E s \in Slots : Handle(s)
    \/ \E panels \in Rendered : \E s \in Slots : Arrive(s, panels) \/ OpenPage(s, panels)
    \/ \E panels \in Streamed : ShowStreamed(panels)

Spec == Init /\ [][Next]_vars

-----------------------------------------------------------------------------
\* The type invariant.
TypeOK ==
    /\ page.url \in BOOLEAN /\ page.scripted \in BOOLEAN
    /\ page.composer \in [text : {"none", "good", "bad"}, error : {"none", "verdict", "url"},
                          accepted : 0..2, posted : BOOLEAN, failed : BOOLEAN]
    /\ page.copies \in [Ids -> Nat]
    /\ requests \in [Slots ->
           [what : {"none", "pulse"} \cup InComposer \cup InTodos \cup Navigations,
            row : Rows \cup {"none"}, text : {"none", "good", "bad"},
            phase : {"idle", "sent", "answered"},
            main : {"none", "failed", "composer", "error", "page", "page with error"},
            oob : SUBSET Ids,
            gone : BOOLEAN, stale : BOOLEAN, again : BOOLEAN, newest : BOOLEAN]]
    /\ last \in {"none", "pending", "accepted", "refused", "failed"}

\* In whatever order answers and snapshots arrive, and whether or not the elements
\* they belong to are still there, every panel is in the page once: the ids that
\* later swaps rely on stay unique (home.templ:107-241; app.go:438-450).
EachPanelOnce == \A id \in Ids : page.copies[id] = 1

\* What a panel shows of the todos: the rows of TodosPanel, the numbers of StatsPanel.
Truth == {[todos |-> UniformLineEnds(TodosPanel(read)), stats |-> StatsPanel(read)] : read \in Reads}

\* The numbers are those of the rows below them, although todos change between
\* the queries of a snapshot (app.go:509-545).
StatsTellRows ==
    \A fact \in Truth : page.panels["todos"] = fact.todos => page.panels["stats"] = fact.stats

\* No line end in a body cuts a snapshot short: every panel is shown as it was
\* rendered, over the stream as well (app.go:460-473).
PanelsAreWhole ==
    /\ \E fact \in Truth : page.panels["todos"] = fact.todos
    /\ page.panels["events"] = EventsPanel

\* Unless it came with the URL, the error beside the form is the verdict on the
\* latest text that was submitted and has a verdict: a late answer to an older
\* one never replaces a newer composer (home.templ:107-141; app.go:487-495).
ErrorIsLatestVerdict ==
    /\ page.composer.error = "verdict"
    /\ \A s \in UnderWay : ~requests[s].newest
    => last \in {"refused", "failed"}

\* However often htmx is asked to send a form, one todo is created from it: the
\* second request waits for the first, and the answer takes its form away; only
\* after a failure is it sent.  Nothing of the kind holds once the browser itself
\* has sent the form: every post creates a todo, and the page with the form in it
\* stays until the next one is there, or comes back with the back button
\* (home.templ:107-141; app.go:216-235).
OneTodoPerForm ==
    page.composer.accepted < 2 \/ page.composer.failed \/ page.composer.posted

\* What is being typed is the person's own: snapshots never touch it, only answers
\* to what this tab sent with the composer or the event buttons, and a new page.
DraftIsTheirs ==
    [][ page'.composer.text = "none" /\ page.composer.text # "none"
        => \E s \in Slots :
               /\ requests[s].phase = "answered" /\ requests'[s] # requests[s]
               /\ requests[s].what \in InComposer \cup Navigations \cup {"pulse"} ]_vars
=============================================================================
