----------------------------- MODULE PageProofs -----------------------------
(***************************************************************************)
(* For any number of todos and of requests under way: no panel is ever     *)
(* twice in the page, the error beside the form is the latest verdict, one *)
(* form that htmx sends makes one todo, and nobody else touches what is    *)
(* being typed.  For any bodies: what writeSSE writes comes out of EventSource as it went    *)
(* in, no panel is cut short, and the numbers are those of the rows.       *)
(***************************************************************************)
EXTENDS Page, SequenceTheorems, WellFoundedInduction, FiniteSetTheorems, FunctionTheorems,
        TLAPS

\* The form's request that the answer will find its form for.
FormOf(s) == requests[s].phase # "idle" /\ requests[s].what = "create" /\ ~requests[s].stale

\* What is known of one request.
RequestInv(s) ==
    LET r == requests[s] IN
    /\ r.newest => r.phase # "idle" /\ r.what \in Submissions
    /\ r.what = "create" => r.row = "none" /\ r.gone = r.stale
    /\ FormOf(s) => r.newest /\ page.scripted
    /\ r.phase # "idle" /\ r.what = "create" => page.scripted
    /\ r.phase # "idle" /\ r.what = "post" /\ ~r.gone => page.composer.posted
    /\ r.oob \subseteq Panels
    /\ r.newest /\ r.phase = "sent" => last = "pending"
    /\ r.phase = "answered" =>
        /\ r.what \notin Navigations => r.main \notin {"page", "page with error"}
        /\ r.main = "error" => r.what = "create"
        /\ r.main = "none" => r.what # "create"
        /\ r.main = "composer" => r.what \in InComposer \cup {"pulse"}
        /\ r.newest /\ r.main = "failed" => last = "failed"
        /\ r.newest /\ r.main = "error" => last = "refused"

OneNewest == \A s, t \in Slots : requests[s].newest /\ requests[t].newest => s = t

\* An error outlasts its verdict only while the next one is on its way.
ErrorInv ==
    page.composer.error = "verdict" =>
        page.scripted /\ (last \in {"refused", "failed"} \/ \E s \in Slots : FormOf(s))

\* A form that has created a todo, and that the browser has not sent itself, is
\* about to be replaced, or told that it failed.
FormInv ==
    page.composer.accepted # 0 =>
        \/ page.composer.failed \/ page.composer.posted
        \/ /\ page.composer.accepted = 1
           /\ \E s \in Slots : /\ FormOf(s) /\ requests[s].phase = "answered"
                               /\ requests[s].main \in {"composer", "failed"}

Composers == [text : {"none", "good", "bad"}, error : {"none", "verdict", "url"},
              accepted : 0..2, posted : BOOLEAN, failed : BOOLEAN]

\* A page with whatever panels, and each of them once.
IsPage(p) ==
    p \in [url : BOOLEAN, scripted : BOOLEAN, composer : Composers,
           panels : {p.panels}, copies : {[id \in Ids |-> 1]}]

PageInv ==
    /\ TypeOK /\ IsPage(page)
    /\ \A s \in Slots : RequestInv(s)
    /\ OneNewest /\ ErrorInv /\ FormInv

-----------------------------------------------------------------------------
(* Requests                                                                *)

Commands == {"none", "pulse"} \cup InComposer \cup InTodos \cup Navigations
Mains == {"none", "failed", "composer", "error", "page", "page with error"}

RequestSet ==
    [what : Commands, row : Rows \cup {"none"}, text : {"none", "good", "bad"},
     phase : {"idle", "sent", "answered"}, main : Mains, oob : SUBSET Ids,
     gone : BOOLEAN, stale : BOOLEAN, again : BOOLEAN, newest : BOOLEAN]

LastSet == {"none", "pending", "accepted", "refused", "failed"}

LEMMA TypeOKParts == TypeOK => requests \in [Slots -> RequestSet] /\ last \in LastSet
  BY DEF TypeOK, RequestSet, LastSet, Commands, Mains

LEMMA TypeOKFromParts ==
    ASSUME requests' \in [Slots -> RequestSet], last' \in LastSet, IsPage(page')
    PROVE  TypeOK'
<1>1. /\ page'.url \in BOOLEAN /\ page'.scripted \in BOOLEAN
      /\ page'.composer \in Composers /\ page'.copies \in [Ids -> Nat]
  BY DEF IsPage
<1>. QED
  BY <1>1 DEF TypeOK, RequestSet, LastSet, Commands, Mains, Composers

LEMMA IdleTyped ==
    /\ Idle \in RequestSet /\ Idle.phase = "idle" /\ Idle.what = "none" /\ Idle.main = "none"
    /\ Idle.oob = {} /\ Idle.newest = FALSE /\ Idle.row = "none"
    /\ Idle.gone = FALSE /\ Idle.stale = FALSE
  BY DEF Idle, RequestSet, Commands, Mains, Ids, Panels

\* A new request: it has lost nothing, and it is the newest if it submits the form.
LEMMA RequestTyped ==
    ASSUME IsPage(page), NEW what \in Commands, NEW row \in Rows \cup {"none"}
    PROVE  LET r == Request(what, row) IN
           /\ r \in RequestSet /\ r.what = what /\ r.row = row
           /\ r.phase = "sent" /\ r.main = "none" /\ r.oob = {}
           /\ r.gone = FALSE /\ r.stale = FALSE
           /\ r.newest <=> what \in Submissions
<1>. DEFINE text == IF what \in Submissions THEN page.composer.text ELSE "none"
            flag == what \in Submissions
<1>1. text \in {"none", "good", "bad"}
  BY DEF IsPage, Composers
<1>2. ASSUME NEW f \in BOOLEAN
      PROVE  LET r == [Idle EXCEPT !.what = what, !.row = row, !.phase = "sent",
                                   !.text = text, !.newest = f] IN
             /\ r \in RequestSet /\ r.what = what /\ r.row = row
             /\ r.phase = "sent" /\ r.main = "none" /\ r.oob = {}
             /\ r.gone = FALSE /\ r.stale = FALSE /\ r.newest = f
  <2>. HIDE DEF text
  <2>. QED
    BY <1>1, IdleTyped DEF RequestSet
<1>3. Request(what, row) = [Idle EXCEPT !.what = what, !.row = row, !.phase = "sent",
                                        !.text = text, !.newest = flag]
  BY Zenon DEF Request
<1>4. flag \in BOOLEAN
  OBVIOUS
<1>. HIDE DEF text, flag
<1>5. /\ Request(what, row) \in RequestSet /\ Request(what, row).newest = flag
      /\ Request(what, row).what = what /\ Request(what, row).row = row
      /\ Request(what, row).phase = "sent" /\ Request(what, row).main = "none"
      /\ Request(what, row).oob = {} /\ Request(what, row).gone = FALSE
      /\ Request(what, row).stale = FALSE
  BY <1>2, <1>3, <1>4
<1>. QED
  BY <1>5, Zenon DEF flag

\* A request is sent once more, as it was sent before.
LEMMA SentAgainTyped ==
    ASSUME IsPage(page), NEW r, r.what \in Commands, r.row \in Rows \cup {"none"}
    PROVE  LET new == Request(r.what, r.row) IN
           /\ new \in RequestSet /\ new.what = r.what /\ new.row = r.row
           /\ new.phase = "sent" /\ new.oob = {}
           /\ new.gone = FALSE /\ new.stale = FALSE
           /\ new.newest <=> r.what \in Submissions
<1>. DEFINE AsSent(what, row) ==
               LET new == Request(what, row) IN
               /\ new \in RequestSet /\ new.what = what /\ new.row = row
               /\ new.phase = "sent" /\ new.main = "none" /\ new.oob = {}
               /\ new.gone = FALSE /\ new.stale = FALSE
               /\ new.newest <=> what \in Submissions
<1>1. ASSUME NEW what \in Commands, NEW row \in Rows \cup {"none"} PROVE AsSent(what, row)
  BY RequestTyped, Zenon
<1>. HIDE DEF AsSent
<1>2. AsSent(r.what, r.row)
  BY <1>1
<1>. QED
  BY <1>2, Zenon DEF AsSent

\* There is at most one form's request.
LEMMA OneForm ==
    ASSUME PageInv, NEW s \in Slots, NEW t \in Slots, FormOf(s), FormOf(t) PROVE s = t
  BY DEF PageInv, RequestInv, OneNewest

-----------------------------------------------------------------------------
(* The page                                                                *)

LEMMA NewComposerPage ==
    ASSUME NEW p, IsPage(p), NEW error \in {"none", "verdict", "url"}
    PROVE  LET q == NewComposer(p, error) IN
           /\ IsPage(q) /\ q.scripted = p.scripted /\ q.composer \in Composers
           /\ q.composer.text = "none" /\ q.composer.error = error
           /\ q.composer.accepted = 0 /\ q.composer.failed = FALSE
<1>. DEFINE c == [Composer EXCEPT !.error = error]
<1>1. /\ c \in Composers /\ c.text = "none" /\ c.error = error
      /\ c.accepted = 0 /\ c.failed = FALSE
  <2>1. /\ Composer \in Composers /\ Composer.text = "none"
        /\ Composer.accepted = 0 /\ Composer.failed = FALSE
    BY DEF Composer, Composers
  <2>. QED
    BY <2>1 DEF Composers
<1>2. NewComposer(p, error) = [p EXCEPT !.composer = c, !.copies = p.copies]
  BY DEF NewComposer, HxSwap
<1>. HIDE DEF c
<1>3. /\ IsPage([p EXCEPT !.composer = c, !.copies = p.copies])
      /\ [p EXCEPT !.composer = c, !.copies = p.copies].scripted = p.scripted
      /\ [p EXCEPT !.composer = c, !.copies = p.copies].composer = c
  BY <1>1 DEF IsPage
<1>. QED
  BY <1>1, <1>2, <1>3

LEMMA OobPage ==
    ASSUME NEW p, IsPage(p), NEW parts \in SUBSET Panels, NEW panels
    PROVE  LET q == Oob(p, parts, panels) IN
           IsPage(q) /\ q.scripted = p.scripted /\ q.composer = p.composer
<1>1. "composer" \notin parts
  BY DEF Panels
<1>2. PICK new : Oob(p, parts, panels) = [p EXCEPT !.panels = new]
  BY <1>1 DEF Oob
<1>. QED
  BY <1>2 DEF IsPage

LEMMA InsertedNothing ==
    ASSUME NEW p, IsPage(p)
    PROVE  LET q == Inserted(p, {}) IN
           IsPage(q) /\ q.scripted = p.scripted /\ q.composer = p.composer
<1>1. Inserted(p, {}) = [p EXCEPT !.copies = [id \in Ids |-> p.copies[id]]]
  BY DEF Inserted
<1>2. [id \in Ids |-> p.copies[id]] = [id \in Ids |-> 1]
  BY DEF IsPage
<1>3. Inserted(p, {}) = [p EXCEPT !.copies = [id \in Ids |-> 1]]
  BY <1>1, <1>2
<1>. QED
  BY <1>3 DEF IsPage

\* One field of the composer is replaced.
LEMMA ComposerUpdate ==
    ASSUME NEW p, IsPage(p), NEW c \in Composers
    PROVE  LET q == [p EXCEPT !.composer = c] IN
           IsPage(q) /\ q.scripted = p.scripted /\ q.composer = c
  BY DEF IsPage

-----------------------------------------------------------------------------
(* What the person and the stream do                                       *)

SameRequest(t) ==
    LET q == requests[t]
        r == requests'[t]
    IN  /\ r.phase = q.phase /\ r.main = q.main /\ r.oob = q.oob
        /\ r.what = q.what /\ r.row = q.row /\ r.newest = q.newest
        /\ q.what \in Submissions => r.gone = q.gone /\ r.stale = q.stale

SameForm ==
    /\ page.scripted => page'.scripted
    /\ page'.composer.error = page.composer.error
    /\ page'.composer.accepted = page.composer.accepted
    /\ page'.composer.failed = page.composer.failed
    /\ page'.composer.posted = page.composer.posted

\* Panels, texts and flags that the invariant does not speak of.
LEMMA UntouchedKeeps ==
    ASSUME PageInv, last' = last, requests' \in [Slots -> RequestSet], IsPage(page'),
           SameForm, \A t \in Slots : SameRequest(t)
    PROVE  PageInv'
<1>1. TypeOK'
  <2>1. last' \in LastSet
    BY TypeOKParts DEF PageInv
  <2>. QED
    BY <2>1, TypeOKFromParts
<1>2. ASSUME NEW t \in Slots PROVE FormOf(t)' <=> FormOf(t)
  BY DEF FormOf, SameRequest, Submissions
<1>3. ASSUME NEW t \in Slots PROVE RequestInv(t)'
  <2>1. RequestInv(t) /\ SameRequest(t) /\ (FormOf(t)' <=> FormOf(t))
    BY <1>2 DEF PageInv
  <2>2. /\ requests'[t].phase = requests[t].phase /\ requests'[t].main = requests[t].main
        /\ requests'[t].oob = requests[t].oob /\ requests'[t].what = requests[t].what
        /\ requests'[t].row = requests[t].row /\ requests'[t].newest = requests[t].newest
        /\ requests[t].what \in {"create", "post"} => /\ requests'[t].gone = requests[t].gone
                                                      /\ requests'[t].stale = requests[t].stale
        /\ page.scripted => page'.scripted
        /\ page'.composer.posted = page.composer.posted
    BY <2>1 DEF SameRequest, SameForm, Submissions
  <2>. QED
    BY <2>1, <2>2 DEF RequestInv
<1>4. OneNewest'
  BY DEF PageInv, OneNewest, SameRequest
<1>5. ErrorInv'
  BY <1>2 DEF PageInv, ErrorInv, SameForm
<1>6. FormInv'
  BY <1>2 DEF PageInv, FormInv, SameForm, SameRequest
<1>. QED
  BY <1>1, <1>3, <1>4, <1>5, <1>6 DEF PageInv

LEMMA TypeKeeps ==
    ASSUME PageInv, NEW text \in {"good", "bad"}, Type(text) PROVE PageInv'
<1>1. page' = [page EXCEPT !.composer = [page.composer EXCEPT !.text = text]]
  BY DEF Type
<1>2. page.composer \in Composers
  BY DEF PageInv, IsPage
<1>3. [page.composer EXCEPT !.text = text] \in Composers
  BY <1>2 DEF Composers
<1>4. IsPage(page') /\ SameForm
  BY <1>1, <1>2, <1>3, ComposerUpdate DEF PageInv, IsPage, Composers, SameForm
<1>5. requests' \in [Slots -> RequestSet] /\ \A t \in Slots : SameRequest(t)
  BY TypeOKParts DEF Type, PageInv, SameRequest
<1>. QED
  BY <1>4, <1>5, UntouchedKeeps DEF Type

LEMMA ScriptLoadsKeeps == ASSUME PageInv, ScriptLoads PROVE PageInv'
<1>1. IsPage(page') /\ SameForm
  BY DEF ScriptLoads, PageInv, IsPage, SameForm
<1>2. requests' \in [Slots -> RequestSet] /\ \A t \in Slots : SameRequest(t)
  BY TypeOKParts DEF ScriptLoads, PageInv, SameRequest
<1>. QED
  BY <1>1, <1>2, UntouchedKeeps DEF ScriptLoads

LEMMA ShowStreamedKeeps ==
    ASSUME PageInv, NEW panels, ShowStreamed(panels) PROVE PageInv'
<1>1. "composer" \notin Panels /\ oob = TRUE
  BY DEF Panels, oob
<1>. DEFINE kinds == Lost(Panels, "composer" \in Panels)
            target == "composer" \in Panels
<1>2. kinds \cap Submissions = {} /\ ~target
  BY <1>1 DEF Lost, InTodos, Submissions
<1>3. /\ page' = Oob(page, Panels, panels) /\ last' = last
      /\ requests' = [t \in Slots |-> Detach(requests[t], kinds, target)]
  BY <1>1, Zenon DEF ShowStreamed, SnapshotParts
<1>4. IsPage(page') /\ SameForm
  BY <1>3, OobPage DEF PageInv, SameForm
<1>. HIDE DEF kinds, target
<1>5. ASSUME NEW t \in Slots PROVE requests'[t] \in RequestSet /\ SameRequest(t)
  <2>1. requests[t] \in RequestSet /\ requests'[t] = Detach(requests[t], kinds, target)
    BY <1>3, TypeOKParts DEF PageInv
  <2>. QED
    BY <1>2, <2>1 DEF SameRequest, Detach, RequestSet
<1>6. requests' \in [Slots -> RequestSet]
  BY <1>3, <1>5
<1>. QED
  BY <1>3, <1>4, <1>5, <1>6, UntouchedKeeps

\* A request starts.  A submission takes "newest" from every other request, and
\* so must not be made while the form of another one is still there.
LEMMA SendKeeps ==
    ASSUME PageInv, NEW s \in Slots, requests[s].phase = "idle",
           NEW what \in Commands, NEW row \in Rows \cup {"none"},
           Send(s, what, row), IsPage(page'), page'.scripted = page.scripted,
           page'.composer.error = page.composer.error,
           page'.composer.accepted = page.composer.accepted,
           page'.composer.failed = page.composer.failed,
           page'.composer.posted <=> page.composer.posted \/ what = "post",
           what = "create" => page.scripted /\ row = "none" /\ \A t \in Slots : ~FormOf(t),
           what = "post" => ~page.scripted
    PROVE  PageInv'
<1>. DEFINE new == Request(what, row)
            submits == what \in Submissions
<1>0. IsPage(page)
  BY DEF PageInv
<1>1. /\ new \in RequestSet /\ new.what = what /\ new.row = row
      /\ new.phase = "sent" /\ new.main = "none" /\ new.oob = {}
      /\ new.gone = FALSE /\ new.stale = FALSE
      /\ new.newest <=> submits
  BY <1>0, RequestTyped
<1>2. submits <=> what \in {"create", "post"}
  BY DEF Submissions
<1>3. /\ requests' = [t \in Slots |->
             IF t = s THEN new ELSE [requests[t] EXCEPT !.newest = @ /\ ~submits]]
      /\ last' = IF submits THEN "pending" ELSE last
  BY DEF Send
<1>4. requests \in [Slots -> RequestSet] /\ last \in LastSet /\ IsPage(page)
  BY TypeOKParts DEF PageInv
<1>. HIDE DEF new, submits
<1>5. requests'[s] = new
  BY <1>3
<1>a. page.composer.posted => page'.composer.posted
  OBVIOUS
<1>6. ASSUME NEW t \in Slots, t # s
      PROVE  LET q == requests[t]
                 r == requests'[t]
             IN  /\ r \in RequestSet
                 /\ r.phase = q.phase /\ r.main = q.main /\ r.oob = q.oob
                 /\ r.what = q.what /\ r.row = q.row /\ r.gone = q.gone /\ r.stale = q.stale
                 /\ r.newest <=> q.newest /\ ~submits
  <2>1. requests[t] \in RequestSet
    BY <1>4
  <2>2. requests'[t] = [requests[t] EXCEPT !.newest = @ /\ ~submits]
    BY <1>3, <1>6
  <2>. QED
    BY <2>1, <2>2 DEF RequestSet
<1>7. TypeOK' /\ IsPage(page')
  <2>1. requests' \in [Slots -> RequestSet]
    BY <1>1, <1>3, <1>5, <1>6
  <2>2. last' \in LastSet
    BY <1>3, <1>4 DEF LastSet
  <2>. QED
    BY <1>4, <2>1, <2>2, TypeOKFromParts
<1>8. ASSUME NEW t \in Slots, t # s PROVE FormOf(t)' <=> FormOf(t)
  BY <1>6, <1>8 DEF FormOf
<1>9. ASSUME NEW t \in Slots, FormOf(t) PROVE ~submits
  BY <1>2, <1>9 DEF PageInv, RequestInv
<1>10. RequestInv(s)'
  BY <1>1, <1>2, <1>3, <1>5 DEF RequestInv, FormOf, Submissions
<1>11. ASSUME NEW t \in Slots, t # s PROVE RequestInv(t)'
  <2>1. RequestInv(t)
    BY DEF PageInv
  <2>2. CASE submits
    BY <1>a, <1>6, <1>8, <1>9, <1>11, <2>1, <2>2 DEF RequestInv
  <2>3. CASE ~submits
    <3>1. /\ last' = last /\ page'.scripted = page.scripted
          /\ FormOf(t)' <=> FormOf(t)
          /\ requests'[t].newest <=> requests[t].newest
      BY <1>3, <1>6, <1>8, <1>11, <2>3
    <3>. QED
      BY <1>a, <1>6, <1>11, <2>1, <3>1 DEF RequestInv
  <2>. QED
    BY <2>2, <2>3
<1>12. OneNewest'
  <2>1. OneNewest
    BY DEF PageInv
  <2>2. ASSUME NEW t \in Slots, requests'[t].newest
        PROVE  IF submits THEN t = s ELSE t # s /\ requests[t].newest
    BY <1>1, <1>5, <1>6, <2>2
  <2>. QED
    BY <2>1, <2>2 DEF OneNewest
<1>13. ErrorInv'
  <2>. SUFFICES ASSUME page.composer.error = "verdict"
                PROVE  page.scripted /\ (last' \in {"refused", "failed"} \/ \E t \in Slots : FormOf(t)')
    BY DEF ErrorInv
  <2>1. page.scripted /\ (last \in {"refused", "failed"} \/ \E t \in Slots : FormOf(t))
    BY DEF PageInv, ErrorInv
  <2>2. CASE submits
    <3>1. what = "create"
      BY <1>2, <2>1, <2>2
    <3>2. FormOf(s)'
      BY <1>1, <1>5, <3>1 DEF FormOf
    <3>. QED
      BY <2>1, <3>2
  <2>3. CASE ~submits
    <3>1. \A t \in Slots : FormOf(t) => t # s
      BY DEF FormOf
    <3>. QED
      BY <1>3, <1>8, <2>1, <2>3, <3>1
  <2>. QED
    BY <2>2, <2>3
<1>14. FormInv'
  <2>. SUFFICES ASSUME page.composer.accepted # 0, ~page.composer.failed, ~page.composer.posted
                PROVE  /\ page.composer.accepted = 1
                       /\ \E t \in Slots : /\ FormOf(t)' /\ requests'[t].phase = "answered"
                                            /\ requests'[t].main \in {"composer", "failed"}
    BY DEF FormInv
  <2>1. /\ page.composer.accepted = 1
        /\ \E t \in Slots : /\ FormOf(t) /\ requests[t].phase = "answered"
                             /\ requests[t].main \in {"composer", "failed"}
    BY DEF PageInv, FormInv
  <2>2. ASSUME NEW t \in Slots, requests[t].phase = "answered" PROVE t # s
    BY <2>2
  <2>. QED
    BY <1>6, <1>8, <2>1, <2>2
<1>. QED
  BY <1>7, <1>10, <1>11, <1>12, <1>13, <1>14 DEF PageInv

LEMMA PressKeeps ==
    ASSUME PageInv, NEW what \in InComposer \cup InTodos \cup {"pulse"},
           NEW row \in Rows \cup {"none"}, what = "create" => row = "none",
           Press(what, row)
    PROVE  PageInv'
<1>. DEFINE busy == {s \in UnderWay : requests[s].what = what /\ requests[s].row = row
                                     /\ ~requests[s].gone}
<1>1. page' = page
  BY DEF Press
<1>2. CASE /\ requests' = [s \in Slots |-> [requests[s] EXCEPT !.again = @ \/ s \in busy]]
           /\ last' = last
  <2>1. requests \in [Slots -> RequestSet] /\ IsPage(page)
    BY TypeOKParts DEF PageInv
  <2>2. ASSUME NEW t \in Slots PROVE requests'[t] \in RequestSet /\ SameRequest(t)
    <3>. DEFINE flag == requests[t].again \/ t \in busy
    <3>1. requests'[t] = [requests[t] EXCEPT !.again = flag]
      BY <1>2
    <3>2. flag \in BOOLEAN /\ requests[t] \in RequestSet
      BY <2>1
    <3>. HIDE DEF flag
    <3>. QED
      BY <3>1, <3>2 DEF SameRequest, RequestSet
  <2>3. requests' \in [Slots -> RequestSet]
    BY <1>2, <2>2
  <2>. QED
    BY <1>1, <1>2, <2>1, <2>2, <2>3, UntouchedKeeps DEF SameForm
<1>3. CASE busy = {} /\ UnderWay # Slots /\ Send(CHOOSE s \in Slots \ UnderWay : TRUE, what, row)
  <2>. DEFINE s == CHOOSE s \in Slots \ UnderWay : TRUE
  <2>1. s \in Slots /\ requests[s].phase = "idle"
    BY <1>3 DEF UnderWay
  <2>2. ASSUME what = "create", NEW t \in Slots PROVE ~FormOf(t)
    <3>1. RequestInv(t)
      BY DEF PageInv
    <3>2. t \notin busy
      BY <1>3
    <3>. QED
      BY <2>2, <3>1, <3>2 DEF RequestInv, FormOf, UnderWay
  <2>3. what \in Commands /\ what # "post"
    BY DEF Commands, InComposer, InTodos
  <2>4. what = "create" => page.scripted
    BY DEF Press
  <2>5. Send(s, what, row)
    BY <1>3
  <2>6. IsPage(page)
    BY DEF PageInv
  <2>. HIDE DEF s, busy
  <2>. QED
    BY <1>1, <2>1, <2>2, <2>3, <2>4, <2>5, <2>6, SendKeeps
<1>. QED
  BY <1>2, <1>3 DEF Press

\* The browser's own submission is remembered by the form.
LEMMA NavigateEffect ==
    ASSUME PageInv, NEW what, Navigate(what)
    PROVE  /\ IsPage(page') /\ page'.scripted = page.scripted /\ page'.panels = page.panels
           /\ page'.composer.text = page.composer.text
           /\ page'.composer.error = page.composer.error
           /\ page'.composer.accepted = page.composer.accepted
           /\ page'.composer.failed = page.composer.failed
           /\ page'.composer.posted <=> page.composer.posted \/ what = "post"
<1>. DEFINE flag == page.composer.posted \/ what = "post"
            c == [page.composer EXCEPT !.posted = flag]
<1>1. IsPage(page) /\ page.composer \in Composers
  BY DEF PageInv, IsPage
<1>2. page' = [page EXCEPT !.composer = c]
  BY DEF Navigate
<1>3. flag \in BOOLEAN /\ (flag <=> page.composer.posted \/ what = "post")
  OBVIOUS
<1>. HIDE DEF flag
<1>4. /\ c \in Composers /\ c.text = page.composer.text /\ c.error = page.composer.error
      /\ c.accepted = page.composer.accepted /\ c.failed = page.composer.failed
      /\ c.posted = flag
  BY <1>1, <1>3 DEF Composers
<1>. HIDE DEF c
<1>5. /\ IsPage(page') /\ page'.scripted = page.scripted /\ page'.panels = page.panels
      /\ page'.composer = c
  BY <1>1, <1>2, <1>4 DEF IsPage
<1>. QED
  BY <1>3, <1>4, <1>5

LEMMA NavigateKeeps ==
    ASSUME PageInv, NEW what \in Navigations, Navigate(what) PROVE PageInv'
<1>. DEFINE s == CHOOSE s \in Slots \ UnderWay : TRUE
<1>1. s \in Slots /\ requests[s].phase = "idle"
  BY DEF UnderWay, Navigate
<1>2. what \in Commands /\ what # "create" /\ (what = "post" => ~page.scripted)
  BY DEF Commands, Navigations, Navigate
<1>3. Send(s, what, "none")
  BY DEF Navigate
<1>. HIDE DEF s
<1>. QED
  BY <1>1, <1>2, <1>3, NavigateEffect, SendKeeps

-----------------------------------------------------------------------------
(* What the handlers do                                                    *)

\* A request is answered.  The form counts a todo only if it is the one in the
\* page, and then its answer is on the way, or the browser has sent it.
LEMMA AnswerKeeps ==
    ASSUME PageInv, NEW s \in Slots, requests[s].phase = "sent",
           NEW main \in Mains, NEW parts \in SUBSET Panels, Answer(s, main, parts),
           last' \in LastSet,
           requests[s].newest => /\ main = "failed" => last' = "failed"
                                 /\ main = "error" => last' = "refused",
           ~requests[s].newest => last' = last,
           requests[s].what \notin Navigations => main \notin {"page", "page with error"},
           main = "error" => requests[s].what = "create",
           main = "none" => requests[s].what # "create",
           main = "composer" => requests[s].what \in InComposer \cup {"pulse"},
           IsPage(page'), page'.scripted = page.scripted,
           page'.composer.error = page.composer.error,
           page'.composer.failed = page.composer.failed,
           page'.composer.posted = page.composer.posted,
           \/ page'.composer.accepted = page.composer.accepted
           \/ page.composer.posted
           \/ /\ FormOf(s) /\ main \in {"composer", "failed"}
              /\ page.composer.accepted = 0 => page'.composer.accepted = 1
    PROVE  PageInv'
<1>1. requests \in [Slots -> RequestSet] /\ requests[s] \in RequestSet
  BY TypeOKParts DEF PageInv
<1>2. LET q == requests[s]
          r == requests'[s]
      IN  /\ r \in RequestSet /\ r.phase = "answered" /\ r.main = main /\ r.oob = parts
          /\ r.what = q.what /\ r.row = q.row /\ r.gone = q.gone /\ r.stale = q.stale
          /\ r.newest = q.newest
  <2>1. parts \in SUBSET Ids
    BY DEF Ids
  <2>2. requests'[s] = [requests[s] EXCEPT !.phase = "answered", !.main = main, !.oob = parts]
    BY <1>1 DEF Answer
  <2>. QED
    BY <1>1, <2>1, <2>2 DEF RequestSet
<1>3. /\ \A t \in Slots : t # s => requests'[t] = requests[t]
      /\ requests' \in [Slots -> RequestSet]
  BY <1>1, <1>2 DEF Answer
<1>4. TypeOK'
  BY <1>3, TypeOKFromParts
<1>5. ASSUME NEW t \in Slots
      PROVE  /\ FormOf(t)' <=> FormOf(t)
             /\ requests'[t].newest = requests[t].newest
  BY <1>2, <1>3 DEF FormOf
<1>6. RequestInv(s)'
  <2>1. RequestInv(s)
    BY DEF PageInv
  <2>. QED
    BY <1>2, <1>5, <2>1 DEF RequestInv
<1>7. ASSUME NEW t \in Slots, t # s PROVE RequestInv(t)'
  <2>1. RequestInv(t) /\ requests'[t] = requests[t]
    BY <1>3, <1>7 DEF PageInv
  <2>2. requests[t].newest => last' = last
    BY <1>7 DEF PageInv, OneNewest
  <2>. QED
    BY <1>5, <2>1, <2>2 DEF RequestInv
<1>8. OneNewest'
  BY <1>5 DEF PageInv, OneNewest
<1>9. ErrorInv'
  <2>. SUFFICES ASSUME page.composer.error = "verdict"
                PROVE  page.scripted /\ (last' \in {"refused", "failed"} \/ \E t \in Slots : FormOf(t))
    BY <1>5 DEF ErrorInv
  <2>1. page.scripted /\ (last \in {"refused", "failed"} \/ \E t \in Slots : FormOf(t))
    BY DEF PageInv, ErrorInv
  <2>2. requests[s].newest => last = "pending"
    BY DEF PageInv, RequestInv
  <2>. QED
    BY <2>1, <2>2
<1>10. FormInv'
  <2>. SUFFICES ASSUME page'.composer.accepted # 0, ~page.composer.failed, ~page.composer.posted
                PROVE  /\ page'.composer.accepted = 1
                       /\ \E t \in Slots : /\ FormOf(t) /\ requests'[t].phase = "answered"
                                            /\ requests'[t].main \in {"composer", "failed"}
    BY <1>5 DEF FormInv
  <2>1. page.composer.accepted # 0 =>
            /\ page.composer.accepted = 1
            /\ \E t \in Slots : /\ FormOf(t) /\ requests[t].phase = "answered"
                                 /\ requests[t].main \in {"composer", "failed"}
    BY DEF PageInv, FormInv
  <2>2. CASE page'.composer.accepted = page.composer.accepted
    BY <1>2, <1>3, <2>1, <2>2
  <2>3. CASE /\ FormOf(s) /\ main \in {"composer", "failed"}
             /\ page.composer.accepted = 0 => page'.composer.accepted = 1
    <3>1. page.composer.accepted = 0
      BY <2>1, <2>3, OneForm
    <3>. QED
      BY <1>2, <2>3, <3>1
  <2>. QED
    BY <2>2, <2>3
<1>. QED
  BY <1>4, <1>6, <1>7, <1>8, <1>9, <1>10 DEF PageInv

LEMMA AcceptedEffect ==
    ASSUME PageInv, NEW s \in Slots, Handles(s, Submissions), Accepted(s)
    PROVE  /\ IsPage(page') /\ page'.scripted = page.scripted
           /\ page'.composer.error = page.composer.error
           /\ page'.composer.failed = page.composer.failed
           /\ page'.composer.posted = page.composer.posted
           /\ page'.composer.text = page.composer.text
           /\ \/ page'.composer.accepted = page.composer.accepted
              \/ page.composer.posted
              \/ FormOf(s) /\ (page.composer.accepted = 0 => page'.composer.accepted = 1)
<1>1. IsPage(page) /\ RequestInv(s)
  BY DEF PageInv
<1>2. CASE requests[s].gone
  BY <1>1, <1>2 DEF Accepted
<1>3. CASE ~requests[s].gone
  <2>1. FormOf(s) \/ page.composer.posted
    BY <1>1, <1>3 DEF RequestInv, FormOf, Handles, Submissions
  <2>. DEFINE n == IF page.composer.accepted < 2 THEN page.composer.accepted + 1
                   ELSE page.composer.accepted
              c == [page.composer EXCEPT !.accepted = n]
  <2>2. page.composer \in Composers
    BY <1>1 DEF IsPage
  <2>3. n \in 0..2 /\ (page.composer.accepted = 0 => n = 1)
    BY <2>2 DEF Composers
  <2>4. page' = [page EXCEPT !.composer = c]
    BY <1>3 DEF Accepted
  <2>. HIDE DEF n
  <2>5. /\ c \in Composers /\ c.error = page.composer.error
        /\ c.failed = page.composer.failed /\ c.posted = page.composer.posted
        /\ c.text = page.composer.text /\ c.accepted = n
    BY <2>2, <2>3 DEF Composers
  <2>. HIDE DEF c
  <2>6. IsPage(page') /\ page'.scripted = page.scripted /\ page'.composer = c
    BY <1>1, <2>4, <2>5 DEF IsPage
  <2>. QED
    BY <2>1, <2>3, <2>5, <2>6
<1>. QED
  BY <1>2, <1>3

LEMMA HandleKeeps ==
    ASSUME PageInv, NEW s \in Slots, Handle(s) PROVE PageInv'
<1>1. /\ IsPage(page) /\ RequestInv(s) /\ last \in LastSet
  BY TypeOKParts DEF PageInv
<1>2. requests[s].phase = "sent"
  BY DEF Handle, formError, createTodo, createTodoFails, clearComposer, changeTodo, home, Fail, Handles
<1>3. /\ {} \in SUBSET Panels /\ SnapshotParts \in SUBSET Panels
      /\ {"failed", "error", "composer", "none", "page", "page with error"} \subseteq Mains
      /\ {"failed", "refused", "accepted"} \subseteq LastSet
  BY DEF SnapshotParts, Mains, LastSet
<1>4. ASSUME serverError(s), requests[s].newest \/ last' = last,
             IsPage(page'), page'.scripted = page.scripted,
             page'.composer.error = page.composer.error,
             page'.composer.failed = page.composer.failed,
             page'.composer.posted = page.composer.posted,
             \/ page'.composer.accepted = page.composer.accepted
             \/ page.composer.posted
             \/ FormOf(s) /\ (page.composer.accepted = 0 => page'.composer.accepted = 1)
      PROVE  PageInv'
  BY <1>1, <1>2, <1>3, <1>4, AnswerKeeps DEF serverError, Verdict
<1>5. ASSUME NEW main \in {"page", "page with error"}, NEW verdict \in {"refused", "accepted"},
             Redirect(s, main, verdict), requests[s].what \in Navigations,
             IsPage(page'), page'.scripted = page.scripted,
             page'.composer.error = page.composer.error,
             page'.composer.failed = page.composer.failed,
             page'.composer.posted = page.composer.posted,
             page'.composer.accepted = page.composer.accepted \/ page.composer.posted
      PROVE  PageInv'
  <2>1. CASE Answer(s, main, {}) /\ Verdict(s, verdict)
    BY <1>1, <1>2, <1>3, <1>5, <2>1, AnswerKeeps DEF Verdict
  <2>2. CASE serverError(s)
    BY <1>1, <1>4, <1>5, <2>2 DEF serverError, Verdict
  <2>. QED
    BY <1>5, <2>1, <2>2 DEF Redirect
<1>6. CASE formError(s)
  <2>1. page' = page /\ requests[s].what \in Submissions
    BY <1>6 DEF formError, Handles
  <2>2. CASE isHTMX(s)
    <3>1. requests[s].what = "create"
      BY <2>1, <2>2 DEF isHTMX, Submissions, Navigations
    <3>2. Answer(s, "error", {}) /\ Verdict(s, "refused")
      BY <1>6, <2>2 DEF formError
    <3>. QED
      BY <1>1, <1>2, <1>3, <2>1, <3>1, <3>2, AnswerKeeps DEF Verdict
  <2>3. CASE ~isHTMX(s)
    BY <1>1, <1>5, <1>6, <2>1, <2>3 DEF formError, isHTMX
  <2>. QED
    BY <2>2, <2>3
<1>7. CASE createTodo(s)
  <2>1. /\ IsPage(page') /\ page'.scripted = page.scripted
        /\ page'.composer.error = page.composer.error
        /\ page'.composer.failed = page.composer.failed
        /\ page'.composer.posted = page.composer.posted
        /\ \/ page'.composer.accepted = page.composer.accepted
           \/ page.composer.posted
           \/ FormOf(s) /\ (page.composer.accepted = 0 => page'.composer.accepted = 1)
    BY <1>7, AcceptedEffect DEF createTodo
  <2>2. requests[s].what \in Submissions
    BY <1>7 DEF createTodo, Handles
  <2>3. CASE isHTMX(s)
    <3>1. requests[s].what = "create" /\ requests[s].what \in InComposer \cup {"pulse"}
      BY <2>2, <2>3 DEF isHTMX, Submissions, Navigations, InComposer
    <3>2. PICK parts \in SUBSET Panels : Answer(s, "composer", parts) /\ Verdict(s, "accepted")
      BY <1>3, <1>7, <2>3 DEF createTodo
    <3>. QED
      BY <1>1, <1>2, <1>3, <2>1, <3>1, <3>2, AnswerKeeps DEF Verdict
  <2>4. CASE ~isHTMX(s)
    <3>1. Redirect(s, "page", "accepted") /\ requests[s].what \in Navigations
      BY <1>7, <2>4 DEF createTodo, isHTMX
    <3>2. ~FormOf(s)
      BY <3>1 DEF FormOf, Navigations
    <3>. QED
      BY <1>5, <2>1, <3>1, <3>2
  <2>. QED
    BY <2>3, <2>4
<1>8. CASE createTodoFails(s)
  <2>1. serverError(s) /\ Handles(s, Submissions)
    BY <1>8 DEF createTodoFails
  <2>2. requests[s].newest \/ last' = last
    BY <2>1 DEF serverError, Verdict
  <2>3. CASE Accepted(s)
    BY <1>4, <2>1, <2>2, <2>3, AcceptedEffect
  <2>4. CASE page' = page
    BY <1>1, <1>4, <2>1, <2>2, <2>4
  <2>. QED
    BY <1>8, <2>3, <2>4 DEF createTodoFails
<1>9. CASE clearComposer(s)
  <2>1. /\ requests[s].what \in InComposer \cup {"pulse"} /\ requests[s].what \notin Submissions
        /\ requests[s].what \notin Navigations
        /\ Answer(s, "composer", {}) /\ page' = page /\ last' = last
    BY <1>9 DEF clearComposer, Handles, InComposer, Submissions, Navigations
  <2>2. ~requests[s].newest
    BY <1>1, <2>1 DEF RequestInv
  <2>. QED
    BY <1>1, <1>2, <1>3, <2>1, <2>2, AnswerKeeps
<1>10. CASE changeTodo(s)
  <2>1. /\ requests[s].what \notin Submissions /\ requests[s].what \notin Navigations
        /\ requests[s].what # "create"
        /\ Answer(s, "none", SnapshotParts) /\ page' = page /\ last' = last
    BY <1>10 DEF changeTodo, Handles, InTodos, Submissions, Navigations
  <2>2. ~requests[s].newest
    BY <1>1, <2>1 DEF RequestInv
  <2>. QED
    BY <1>1, <1>2, <1>3, <2>1, <2>2, AnswerKeeps
<1>11. CASE home(s)
  <2>1. PICK main \in {"page", "page with error"} : Answer(s, main, {})
    BY <1>11 DEF home
  <2>2. /\ requests[s].what \in Navigations /\ requests[s].what \notin Submissions
        /\ page' = page /\ last' = last
    BY <1>11 DEF home, Handles, Submissions, Navigations
  <2>3. ~requests[s].newest
    BY <1>1, <2>2 DEF RequestInv
  <2>. QED
    BY <1>1, <1>2, <1>3, <2>1, <2>2, <2>3, AnswerKeeps
<1>12. CASE Fail(s)
  <2>1. serverError(s) /\ page' = page
    BY <1>12 DEF Fail
  <2>2. requests[s].newest \/ last' = last
    BY <2>1 DEF serverError, Verdict
  <2>. QED
    BY <1>1, <1>4, <2>1, <2>2
<1>. QED
  BY <1>6, <1>7, <1>8, <1>9, <1>10, <1>11, <1>12 DEF Handle

-----------------------------------------------------------------------------
(* What answers do to the page                                             *)

LEMMA HomePage ==
    ASSUME NEW panels, NEW error \in BOOLEAN
    PROVE  LET p == Home(panels, error) IN
           /\ IsPage(p) /\ p.scripted = FALSE
           /\ p.composer.error # "verdict" /\ p.composer.accepted = 0
<1>. DEFINE e == IF error THEN "url" ELSE "none"
            c == [Composer EXCEPT !.error = e]
<1>1. e \in {"url", "none"}
  OBVIOUS
<1>. HIDE DEF e
<1>2. Composer \in Composers /\ Composer.accepted = 0
  BY DEF Composer, Composers
<1>3. c \in Composers /\ c.error = e /\ c.accepted = 0
  BY <1>1, <1>2 DEF Composers
<1>. DEFINE p == [url |-> error, scripted |-> FALSE, composer |-> c, panels |-> panels,
                  copies |-> [id \in Ids |-> 1]]
<1>4. Home(panels, error) = p
  BY DEF Home, e
<1>. HIDE DEF c
<1>5. IsPage(p) /\ p.scripted = FALSE /\ p.composer = c
  BY <1>3 DEF IsPage
<1>. QED
  BY <1>1, <1>3, <1>4, <1>5

LEMMA OpenPageKeeps ==
    ASSUME PageInv, NEW s \in Slots, NEW panels, OpenPage(s, panels) PROVE PageInv'
<1>1. requests \in [Slots -> RequestSet] /\ last \in LastSet /\ IsPage(page)
  BY TypeOKParts DEF PageInv
<1>2. CASE requests' = [requests EXCEPT ![s] = Idle] /\ UNCHANGED <<page, last>>
  <2>1. requests'[s] = Idle /\ \A t \in Slots : t # s => requests'[t] = requests[t]
    BY <1>1, <1>2
  <2>2. requests' \in [Slots -> RequestSet]
    BY <1>1, <1>2, IdleTyped
  <2>3. requests[s].what # "create"
    BY DEF OpenPage, Navigations
  <2>4. ASSUME NEW t \in Slots PROVE FormOf(t)' <=> FormOf(t)
    BY <2>1, <2>3, IdleTyped DEF FormOf
  <2>5. RequestInv(s)'
    BY <2>1, IdleTyped DEF RequestInv, FormOf
  <2>6. ASSUME NEW t \in Slots, t # s PROVE RequestInv(t)'
    <3>1. RequestInv(t)
      BY DEF PageInv
    <3>2. requests'[t] = requests[t] /\ page' = page /\ last' = last /\ (FormOf(t)' <=> FormOf(t))
      BY <1>2, <2>1, <2>4, <2>6
    <3>. QED
      BY <3>1, <3>2 DEF RequestInv
  <2>7. OneNewest'
    BY <2>1, IdleTyped DEF PageInv, OneNewest
  <2>8. ErrorInv'
    BY <1>2, <2>4 DEF PageInv, ErrorInv
  <2>9. FormInv'
    BY <1>2, <2>1, <2>3, <2>4 DEF PageInv, FormInv, FormOf
  <2>. QED
    BY <1>1, <1>2, <2>2, <2>5, <2>6, <2>7, <2>8, <2>9, TypeOKFromParts DEF PageInv
<1>3. CASE /\ page' = Home(panels, requests[s].main = "page with error")
           /\ requests' = [t \in Slots |-> Idle] /\ last' = "none"
  <2>. DEFINE error == requests[s].main = "page with error"
  <2>1. error \in BOOLEAN /\ page' = Home(panels, error)
    BY <1>3
  <2>. HIDE DEF error
  <2>2. /\ IsPage(page') /\ page'.scripted = FALSE
        /\ page'.composer.error # "verdict" /\ page'.composer.accepted = 0
    BY <2>1, HomePage
  <2>3. requests' \in [Slots -> RequestSet] /\ last' \in LastSet
    BY <1>3, IdleTyped DEF LastSet
  <2>4. ASSUME NEW t \in Slots PROVE requests'[t] = Idle /\ RequestInv(t)'
    BY <1>3, IdleTyped DEF RequestInv, FormOf
  <2>5. OneNewest'
    BY <2>4, IdleTyped DEF OneNewest
  <2>. QED
    BY <2>2, <2>3, <2>4, <2>5, TypeOKFromParts DEF PageInv, ErrorInv, FormInv
<1>. QED
  BY <1>2, <1>3 DEF OpenPage

\* The last case: an answer to htmx arrives.  Either it replaces the composer,
\* and then takes the form from every other request, or it leaves it alone.
LEMMA ArriveKeeps ==
    ASSUME PageInv, NEW s \in Slots, NEW panels, Arrive(s, panels) PROVE PageInv'
<1>. DEFINE r == requests[s]
            shown == oob /\ ~r.gone
            swapped == IF shown THEN r.oob ELSE {}
            document == r.main \in {"page", "page with error"}
            replaced == r.main \notin {"none", "failed"} /\ ~r.stale /\ HxSwap # "none"
            whole == (replaced /\ HxSwap = "outerHTML") \/ "composer" \in swapped
            kinds == Lost(swapped, replaced \/ whole)
            p == Oob(page, swapped, panels)
            error == CASE r.main = "error" -> "verdict"
                       [] r.main = "page with error" -> "url"
                       [] OTHER -> "none"
            parts == IF document THEN Panels ELSE IF oob THEN {} ELSE r.oob
            q == IF replaced THEN Inserted(NewComposer(p, error), parts) ELSE p
            resent == /\ r.again /\ ~r.gone /\ r.what \notin kinds
                      /\ r.what = "create" => page.composer.text # "none"
            again == resent /\ r.what = "create"
            failure == r.main = "failed" /\ r.what = "create" /\ ~r.gone
<1>1. /\ r.phase = "answered" /\ r.what \notin Navigations
      /\ page' = [q EXCEPT !.composer.failed = @ \/ failure]
      /\ requests' = [t \in Slots |->
             IF t = s THEN IF resent THEN Request(r.what, r.row) ELSE Idle
             ELSE [Detach(requests[t], kinds, whole) EXCEPT !.newest = @ /\ ~again]]
      /\ last' = IF again THEN "pending" ELSE last
  BY Zenon DEF Arrive
<1>2. /\ requests \in [Slots -> RequestSet] /\ r \in RequestSet
      /\ last \in LastSet /\ IsPage(page) /\ RequestInv(s)
  BY TypeOKParts DEF PageInv
<1>3. swapped \in SUBSET Panels /\ "composer" \notin swapped
  BY <1>2 DEF RequestInv, Panels
<1>4. /\ ~document /\ parts = {}
      /\ replaced <=> r.main \notin {"none", "failed"} /\ ~r.stale
      /\ whole <=> replaced
  BY <1>1, <1>2, <1>3 DEF RequestInv, oob, HxSwap
<1>5. /\ "create" \in kinds <=> replaced
      /\ "post" \in kinds <=> replaced
  BY <1>4 DEF Lost, InComposer, InTodos
<1>6. IsPage(p) /\ p.scripted = page.scripted /\ p.composer = page.composer
  BY <1>2, <1>3, OobPage
<1>7. error \in {"none", "verdict"} /\ (error = "verdict" => r.main = "error")
  BY <1>4
<1>. HIDE DEF p, error, kinds, swapped
<1>8. /\ IsPage(q) /\ q.scripted = page.scripted
      /\ replaced => /\ q.composer.accepted = 0 /\ q.composer.failed = FALSE
                     /\ q.composer.error = error
      /\ ~replaced => q.composer = page.composer
  <2>1. CASE replaced
    <3>1. error \in {"none", "verdict", "url"}
      BY <1>7
    <3>. DEFINE n == NewComposer(p, error)
    <3>2. /\ IsPage(n) /\ n.scripted = page.scripted
          /\ n.composer.error = error
          /\ n.composer.accepted = 0 /\ n.composer.failed = FALSE
      BY <1>6, <3>1, NewComposerPage
    <3>3. q = Inserted(n, {})
      BY <1>4, <2>1
    <3>. HIDE DEF n, q
    <3>. QED
      BY <2>1, <3>2, <3>3, InsertedNothing
  <2>2. CASE ~replaced
    BY <1>6, <2>2
  <2>. QED
    BY <2>1, <2>2
<1>. HIDE DEF q
<1>9. /\ IsPage(page') /\ page'.scripted = page.scripted
      /\ page'.composer.error = q.composer.error
      /\ page'.composer.accepted = q.composer.accepted
      /\ page'.composer.posted = q.composer.posted
      /\ page'.composer.failed <=> q.composer.failed \/ failure
  <2>. DEFINE flag == q.composer.failed \/ failure
              c == [q.composer EXCEPT !.failed = flag]
  <2>1. page' = [q EXCEPT !.composer = c]
    BY <1>1
  <2>2. flag \in BOOLEAN /\ q.composer \in Composers
    BY <1>8 DEF IsPage
  <2>3. flag <=> q.composer.failed \/ failure
    OBVIOUS
  <2>. HIDE DEF flag, failure
  <2>4. /\ c \in Composers /\ c.error = q.composer.error
        /\ c.accepted = q.composer.accepted /\ c.posted = q.composer.posted
        /\ c.failed = flag
    BY <2>2 DEF Composers
  <2>. HIDE DEF c
  <2>5. IsPage(page') /\ page'.scripted = q.scripted /\ page'.composer = c
    BY <1>8, <2>1, <2>4, ComposerUpdate
  <2>. QED
    BY <1>8, <2>3, <2>4, <2>5
<1>10. ASSUME NEW t \in Slots, t # s
       PROVE  LET old == requests[t]
                  new == requests'[t]
              IN  /\ new \in RequestSet
                  /\ new.phase = old.phase /\ new.main = old.main /\ new.oob = old.oob
                  /\ new.what = old.what /\ new.row = old.row
                  /\ new.newest <=> old.newest /\ ~again
                  /\ old.what = "create" => /\ new.gone <=> old.gone \/ replaced
                                            /\ new.stale <=> old.stale \/ replaced
                  /\ old.what = "post" => (new.gone <=> old.gone \/ replaced)
  <2>. DEFINE d == Detach(requests[t], kinds, whole)
  <2>1. requests[t] \in RequestSet /\ requests'[t] = [d EXCEPT !.newest = @ /\ ~again]
    BY <1>1, <1>2, <1>10
  <2>. HIDE DEF whole, replaced, again
  <2>2. /\ d \in RequestSet
        /\ d.phase = requests[t].phase /\ d.main = requests[t].main /\ d.oob = requests[t].oob
        /\ d.what = requests[t].what /\ d.row = requests[t].row
        /\ d.newest = requests[t].newest
        /\ d.gone <=> requests[t].gone \/ requests[t].what \in kinds
        /\ d.stale <=> \/ requests[t].stale
                       \/ whole /\ requests[t].what \in InComposer \cup {"pulse"}
    BY <2>1 DEF Detach, RequestSet
  <2>. HIDE DEF d
  <2>3. LET new == requests'[t] IN
        /\ new \in RequestSet
        /\ new.phase = d.phase /\ new.main = d.main /\ new.oob = d.oob
        /\ new.what = d.what /\ new.row = d.row
        /\ new.newest <=> d.newest /\ ~again
        /\ new.gone = d.gone /\ new.stale = d.stale
    BY <2>1, <2>2 DEF RequestSet
  <2>. QED
    BY <1>4, <1>5, <2>2, <2>3 DEF InComposer
<1>11. requests'[s] = IF resent THEN Request(r.what, r.row) ELSE Idle
  BY <1>1, <1>2
<1>12. again => ~replaced /\ FormOf(s)
  BY <1>1, <1>2, <1>5 DEF FormOf, RequestInv
<1>13. /\ requests'[s] \in RequestSet
       /\ requests'[s].phase \in {"idle", "sent"} /\ requests'[s].oob = {}
       /\ requests'[s].newest <=> again
       /\ requests'[s].what = "create" <=> again
       /\ requests'[s].what # "post"
       /\ again => /\ requests'[s].phase = "sent" /\ requests'[s].row = "none"
                   /\ requests'[s].gone = FALSE /\ requests'[s].stale = FALSE
  <2>1. CASE resent
    <3>. DEFINE new == Request(r.what, r.row)
    <3>1. IsPage(page) /\ r.what \in Commands /\ r.row \in Rows \cup {"none"}
      BY <1>2 DEF RequestSet
    <3>2. /\ new \in RequestSet /\ new.what = r.what /\ new.row = r.row
          /\ new.phase = "sent" /\ new.oob = {}
          /\ new.gone = FALSE /\ new.stale = FALSE
          /\ new.newest <=> r.what \in Submissions
      <4>. HIDE DEF r
      <4>. QED
        BY <3>1, SentAgainTyped
    <3>3. requests'[s] = new
      BY <1>11, <2>1
    <3>. HIDE DEF new, resent
    <3>4. r.what \in Submissions <=> again
      BY <1>1, <2>1 DEF Submissions, Navigations
    <3>5. again <=> r.what = "create"
      BY <2>1
    <3>6. again => r.row = "none"
      BY <1>2, <3>5 DEF RequestInv
    <3>7. r.what # "post"
      BY <1>1 DEF Navigations
    <3>. QED
      BY <3>2, <3>3, <3>4, <3>5, <3>6, <3>7
  <2>2. CASE ~resent
    <3>1. requests'[s] = Idle /\ ~again
      BY <1>11, <2>2
    <3>. QED
      BY <3>1, IdleTyped
  <2>. QED
    BY <2>1, <2>2
<1>. HIDE DEF resent, again, whole, document, parts, shown
<1>14. TypeOK'
  <2>1. requests' \in [Slots -> RequestSet]
    BY <1>1, <1>10, <1>13
  <2>2. last' \in LastSet
    BY <1>1, <1>2 DEF LastSet
  <2>. QED
    BY <1>9, <2>1, <2>2, TypeOKFromParts
<1>15. ASSUME NEW t \in Slots, t # s
       PROVE  FormOf(t)' <=> FormOf(t) /\ ~replaced
  BY <1>10, <1>15 DEF FormOf
<1>16. RequestInv(s)'
  <2>1. again => page'.scripted
    BY <1>9, <1>12 DEF PageInv, RequestInv
  <2>2. again => last' = "pending"
    BY <1>1
  <2>. QED
    BY <1>13, <2>1, <2>2 DEF RequestInv, FormOf, Submissions
<1>17. ASSUME NEW t \in Slots, t # s PROVE RequestInv(t)'
  <2>1. RequestInv(t)
    BY DEF PageInv
  <2>2. requests[t] \in RequestSet
    BY <1>2
  <2>3. FormOf(t) => ~again
    BY <1>12, <1>17, OneForm
  <2>4. ~again => last' = last
    BY <1>1
  <2>5. requests[t].what = "create" => (requests'[t].gone = requests'[t].stale)
    <3>1. requests'[t].gone \in BOOLEAN /\ requests'[t].stale \in BOOLEAN
      BY <1>10, <1>17 DEF RequestSet
    <3>. QED
      BY <1>10, <1>17, <2>1, <3>1 DEF RequestInv
  <2>6. requests'[t].phase # "idle" /\ requests'[t].what = "post" /\ ~requests'[t].gone
        => page'.composer.posted
    BY <1>8, <1>9, <1>10, <1>17, <2>1 DEF RequestInv
  <2>. QED
    BY <1>9, <1>10, <1>15, <1>17, <2>1, <2>3, <2>4, <2>5, <2>6 DEF RequestInv
<1>18. OneNewest'
  BY <1>10, <1>13 DEF PageInv, OneNewest
<1>19. ErrorInv'
  <2>. SUFFICES ASSUME page'.composer.error = "verdict"
                PROVE  page.scripted /\ (last' \in {"refused", "failed"} \/ \E t \in Slots : FormOf(t)')
    BY <1>9 DEF ErrorInv
  <2>1. CASE replaced
    <3>1. r.main = "error"
      BY <1>7, <1>8, <1>9, <2>1
    <3>2. FormOf(s)
      BY <1>1, <1>2, <2>1, <3>1 DEF RequestInv, FormOf
    <3>3. page.scripted /\ last = "refused"
      BY <1>1, <1>2, <3>1, <3>2 DEF RequestInv
    <3>. QED
      BY <1>1, <1>12, <2>1, <3>3
  <2>2. CASE ~replaced
    <3>1. page.scripted /\ (last \in {"refused", "failed"} \/ \E t \in Slots : FormOf(t))
      BY <1>8, <1>9, <2>2 DEF PageInv, ErrorInv
    <3>2. CASE again
      <4>1. FormOf(s)'
        BY <1>13, <3>2 DEF FormOf
      <4>. QED
        BY <3>1, <4>1
    <3>3. CASE ~again /\ FormOf(s)
      <4>1. r.main = "failed" /\ r.newest
        BY <1>1, <1>2, <1>4, <2>2, <3>3 DEF RequestInv, FormOf
      <4>. QED
        BY <1>1, <1>2, <3>1, <3>3, <4>1 DEF RequestInv
    <3>4. CASE ~again /\ ~FormOf(s)
      BY <1>1, <1>15, <2>2, <3>1, <3>4
    <3>. QED
      BY <3>2, <3>3, <3>4
  <2>. QED
    BY <2>1, <2>2
<1>20. FormInv'
  <2>. SUFFICES ASSUME page'.composer.accepted # 0, ~page'.composer.failed, ~page'.composer.posted
                PROVE  /\ page'.composer.accepted = 1
                       /\ \E t \in Slots : /\ FormOf(t)' /\ requests'[t].phase = "answered"
                                            /\ requests'[t].main \in {"composer", "failed"}
    BY DEF FormInv
  <2>1. ~replaced /\ ~failure /\ q.composer = page.composer
    BY <1>8, <1>9
  <2>2. /\ page'.composer.accepted = page.composer.accepted
        /\ page.composer.accepted # 0 /\ ~page.composer.failed /\ ~page.composer.posted
    BY <1>9, <2>1
  <2>3. PICK t \in Slots : /\ FormOf(t) /\ requests[t].phase = "answered"
                           /\ requests[t].main \in {"composer", "failed"}
    BY <2>2 DEF PageInv, FormInv
  <2>4. page.composer.accepted = 1
    BY <2>2 DEF PageInv, FormInv
  <2>5. t # s
    BY <1>2, <1>4, <2>1, <2>3 DEF FormOf, RequestInv
  <2>. QED
    BY <1>10, <1>15, <2>1, <2>2, <2>3, <2>4, <2>5
<1>. QED
  BY <1>9, <1>14, <1>16, <1>17, <1>18, <1>19, <1>20 DEF PageInv

-----------------------------------------------------------------------------
LEMMA PageInvStep == PageInv /\ [Next]_vars => PageInv'
<1>. SUFFICES ASSUME PageInv, [Next]_vars PROVE PageInv'
  OBVIOUS
<1>1. CASE UNCHANGED vars
  <2>1. /\ page' = page /\ requests' = requests /\ last' = last
        /\ requests \in [Slots -> RequestSet] /\ IsPage(page)
    BY <1>1, TypeOKParts DEF vars, PageInv
  <2>2. \A t \in Slots : SameRequest(t)
    BY <2>1 DEF SameRequest
  <2>. QED
    BY <2>1, <2>2, UntouchedKeeps DEF SameForm
<1>2. ASSUME NEW text \in {"good", "bad"}, Type(text) PROVE PageInv'
  BY <1>2, TypeKeeps
<1>3. CASE ScriptLoads
  BY <1>3, ScriptLoadsKeeps
<1>4. ASSUME NEW what \in InComposer \cup {"pulse"}, Press(what, "none") PROVE PageInv'
  BY <1>4, PressKeeps
<1>5. ASSUME NEW what \in InTodos, NEW row \in Rows, PressRow(what, row) PROVE PageInv'
  BY <1>5, PressKeeps DEF PressRow, InTodos
<1>6. ASSUME NEW what \in Navigations, Navigate(what) PROVE PageInv'
  BY <1>6, NavigateKeeps
<1>7. ASSUME NEW s \in Slots, Handle(s) PROVE PageInv'
  BY <1>7, HandleKeeps
<1>8. ASSUME NEW panels, NEW s \in Slots, Arrive(s, panels) \/ OpenPage(s, panels) PROVE PageInv'
  BY <1>8, ArriveKeeps, OpenPageKeeps
<1>9. ASSUME NEW panels, ShowStreamed(panels) PROVE PageInv'
  BY <1>9, ShowStreamedKeeps
<1>. QED
  BY <1>1, <1>2, <1>3, <1>4, <1>5, <1>6, <1>7, <1>8, <1>9 DEF Next

LEMMA PageInvInit == Init => PageInv
<1>. SUFFICES ASSUME Init PROVE PageInv
  OBVIOUS
<1>1. PICK panels : page = Home(panels, FALSE)
  BY DEF Init
<1>2. /\ IsPage(page) /\ page.scripted = FALSE
      /\ page.composer.error # "verdict" /\ page.composer.accepted = 0
  BY <1>1, HomePage
<1>3. requests = [s \in Slots |-> Idle] /\ last = "none"
  BY DEF Init
<1>4. TypeOK
  <2>1. requests \in [Slots -> RequestSet] /\ last \in LastSet
    BY <1>3, IdleTyped DEF LastSet
  <2>2. /\ page.url \in BOOLEAN /\ page.scripted \in BOOLEAN
        /\ page.composer \in Composers /\ page.copies \in [Ids -> Nat]
    BY <1>2 DEF IsPage
  <2>. QED
    BY <2>1, <2>2 DEF TypeOK, RequestSet, LastSet, Commands, Mains, Composers
<1>5. ASSUME NEW s \in Slots PROVE requests[s] = Idle /\ RequestInv(s)
  BY <1>3, IdleTyped DEF RequestInv, FormOf
<1>6. OneNewest
  BY <1>5, IdleTyped DEF OneNewest
<1>. QED
  BY <1>2, <1>4, <1>5, <1>6 DEF PageInv, ErrorInv, FormInv

-----------------------------------------------------------------------------
(* What is being typed                                                     *)

Erases(s) ==
    /\ requests[s].phase = "answered" /\ requests'[s] # requests[s]
    /\ requests[s].what \in InComposer \cup Navigations \cup {"pulse"}

\* An answer that replaces no composer leaves the text alone.
LEMMA ArriveSpares ==
    ASSUME PageInv, NEW s \in Slots, NEW panels, Arrive(s, panels),
           requests[s].main \in {"none", "failed"}
    PROVE  page'.composer.text = page.composer.text
<1>. DEFINE r == requests[s]
            swapped == IF oob /\ ~r.gone THEN r.oob ELSE {}
            p == Oob(page, swapped, panels)
            flag == p.composer.failed \/ (r.main = "failed" /\ r.what = "create" /\ ~r.gone)
            c == [p.composer EXCEPT !.failed = flag]
<1>1. page' = [p EXCEPT !.composer = c]
  BY DEF Arrive
<1>2. IsPage(page) /\ swapped \in SUBSET Panels
  BY DEF PageInv, RequestInv
<1>3. flag \in BOOLEAN
  OBVIOUS
<1>. HIDE DEF swapped, flag
<1>4. IsPage(p) /\ p.composer = page.composer /\ p.composer \in Composers
  BY <1>2, OobPage DEF IsPage
<1>. HIDE DEF p
<1>5. c \in Composers /\ c.text = p.composer.text
  BY <1>3, <1>4 DEF Composers
<1>. HIDE DEF c
<1>. QED
  BY <1>1, <1>4, <1>5, ComposerUpdate

\* An answer that has arrived is not on its way any more.
LEMMA ArriveEnds ==
    ASSUME PageInv, NEW s \in Slots, NEW panels, Arrive(s, panels)
    PROVE  requests[s].phase = "answered" /\ requests'[s] # requests[s]
<1>. DEFINE r == requests[s]
<1>1. r.phase = "answered" /\ requests'[s] \in {Request(r.what, r.row), Idle}
  BY DEF Arrive
<1>2. IsPage(page) /\ r.what \in Commands /\ r.row \in Rows \cup {"none"}
  BY TypeOKParts DEF PageInv, RequestSet
<1>. HIDE DEF r
<1>3. Request(r.what, r.row).phase = "sent" /\ Idle.phase = "idle"
  BY <1>2, SentAgainTyped, IdleTyped
<1>. QED
  BY <1>1, <1>3 DEF r

LEMMA DraftStep ==
    ASSUME PageInv, Next, page'.composer.text = "none", page.composer.text # "none"
    PROVE  \E s \in Slots : Erases(s)
<1>1. IsPage(page) /\ page.composer \in Composers
  BY DEF PageInv, IsPage
<1>2. page' # page
  OBVIOUS
<1>3. ASSUME NEW text \in {"good", "bad"}, Type(text) PROVE FALSE
  <2>. DEFINE c == [page.composer EXCEPT !.text = text]
  <2>1. page' = [page EXCEPT !.composer = c]
    BY <1>3 DEF Type
  <2>2. c \in Composers /\ c.text = text
    BY <1>1 DEF Composers
  <2>. HIDE DEF c
  <2>. QED
    BY <1>1, <2>1, <2>2, ComposerUpdate
<1>4. CASE ScriptLoads
  BY <1>1, <1>4 DEF ScriptLoads, IsPage
<1>5. ASSUME NEW what, NEW row, Press(what, row) PROVE FALSE
  BY <1>2, <1>5 DEF Press
<1>6. ASSUME NEW what, Navigate(what) PROVE FALSE
  BY <1>6, NavigateEffect
<1>7. ASSUME NEW s \in Slots, Handle(s) PROVE FALSE
  <2>1. Handles(s, Submissions) /\ Accepted(s)
    BY <1>2, <1>7 DEF Handle, formError, createTodo, createTodoFails, clearComposer,
                      changeTodo, home, Fail
  <2>. QED
    BY <2>1, AcceptedEffect
<1>8. ASSUME NEW s \in Slots, NEW panels, Arrive(s, panels) PROVE Erases(s)
  <2>1. requests[s].phase = "answered" /\ requests'[s] # requests[s]
    BY <1>8, ArriveEnds
  <2>2. requests[s].main \notin {"none", "failed"}
    BY <1>8, ArriveSpares
  <2>3. requests[s] \in RequestSet /\ RequestInv(s) /\ requests[s].what \notin Navigations
    BY <1>8, TypeOKParts DEF PageInv, Arrive
  <2>4. requests[s].main \in {"error", "composer"}
    BY <2>1, <2>2, <2>3 DEF RequestInv, RequestSet, Mains
  <2>. QED
    BY <2>1, <2>3, <2>4 DEF RequestInv, Erases, InComposer
<1>9. ASSUME NEW s \in Slots, NEW panels, OpenPage(s, panels) PROVE Erases(s)
  <2>1. requests'[s] = Idle /\ requests[s].phase = "answered" /\ requests[s].what \in Navigations
    BY <1>2, <1>9 DEF OpenPage
  <2>. QED
    BY <2>1, IdleTyped DEF Erases
<1>10. ASSUME NEW panels, ShowStreamed(panels) PROVE FALSE
  <2>1. page' = Oob(page, Panels, panels)
    BY <1>10 DEF ShowStreamed, SnapshotParts, oob
  <2>. QED
    BY <1>1, <2>1, OobPage
<1>. QED
  BY <1>3, <1>4, <1>5, <1>6, <1>7, <1>8, <1>9, <1>10 DEF Next, PressRow

\* What Page's variables are (app.go:127-138, 204-280, 411-507; home.templ).
THEOREM PageTypeCorrect == Spec => []TypeOK
  BY PageInvInit, PageInvStep, PTL DEF Spec, PageInv

\* Every panel is in the page once, in whatever order answers and snapshots
\* arrive (home.templ:107-241; app.go:438-450).
THEOREM EachPanelIsOnce == Spec => []EachPanelOnce
<1>1. PageInv => EachPanelOnce
  BY DEF PageInv, IsPage, EachPanelOnce
<1>. QED
  BY <1>1, PageInvInit, PageInvStep, PTL DEF Spec

\* The error beside the form is the verdict on the latest text that has one
\* (home.templ:107-141; app.go:487-495).
THEOREM ErrorIsAlwaysLatest == Spec => []ErrorIsLatestVerdict
<1>1. PageInv => ErrorIsLatestVerdict
  BY DEF PageInv, ErrorInv, FormOf, RequestInv, ErrorIsLatestVerdict, UnderWay
<1>. QED
  BY <1>1, PageInvInit, PageInvStep, PTL DEF Spec

\* One form creates one todo however often htmx sends it, unless a failure was
\* reported or the browser has sent it too (home.templ:107-141; app.go:216-235).
THEOREM OneTodoForEachForm == Spec => []OneTodoPerForm
<1>1. PageInv => OneTodoPerForm
  BY DEF PageInv, IsPage, Composers, FormInv, OneTodoPerForm
<1>. QED
  BY <1>1, PageInvInit, PageInvStep, PTL DEF Spec

\* Nobody erases what is being typed but answers to what this tab sent with the
\* composer or the event buttons, and a new page (app.go:438-450).
THEOREM DraftIsAlwaysTheirs == Spec => DraftIsTheirs
<1>1. PageInv /\ [Next]_vars
      => [ page'.composer.text = "none" /\ page.composer.text # "none"
           => \E s \in Slots :
                  /\ requests[s].phase = "answered" /\ requests'[s] # requests[s]
                  /\ requests[s].what \in InComposer \cup Navigations \cup {"pulse"} ]_vars
  BY DraftStep DEF Erases
<1>. QED
  BY <1>1, PageInvInit, PageInvStep, PTL DEF Spec, DraftIsTheirs

-----------------------------------------------------------------------------
(* Folds                                                                   *)

\* The order of the numbers as the relation whose well-foundedness is known.
LEMMA LessIsRelated == \A i, j \in Nat : i < j => <<i, j>> \in OpToRel(<, Nat)
  BY DEF OpToRel

\* A set of numbers that is not empty has a least one,
LEMMA LeastOfNaturals ==
    ASSUME NEW S \in SUBSET Nat, S # {}
    PROVE  \E least \in S : \A i \in S : least <= i
<1>1. PICK least \in S : \A i \in S : ~(<<i, least>> \in OpToRel(<, Nat))
  BY NatLessThanWellFounded, WFMin
<1>2. \A i \in S : ~(i < least)
  BY <1>1, LessIsRelated
<1>. QED
  BY <1>2

\* and, if it is bounded, a greatest one.
LEMMA GreatestOfBounded ==
    ASSUME NEW n \in Nat, NEW S \in SUBSET (1..n), S # {}
    PROVE  Max(S) \in S /\ \A i \in S : Max(S) >= i
<1>. DEFINE T == {m \in Nat : \A i \in S : i <= m}
<1>1. n \in T
  OBVIOUS
<1>2. PICK m \in T : \A i \in T : m <= i
  <2>. HIDE DEF T
  <2>1. T \in SUBSET Nat
    BY DEF T
  <2>. QED
    BY <1>1, <2>1, LeastOfNaturals
<1>3. m \in Nat /\ \A i \in S : i <= m /\ i \in 1..n
  OBVIOUS
<1>4. m \in S
  <2>1. PICK j \in S : TRUE
    OBVIOUS
  <2>2. m - 1 \in Nat /\ m - 1 \notin T
    BY <1>2, <1>3, <2>1
  <2>. QED
    BY <1>3, <2>2
<1>5. \E x \in S : \A y \in S : x >= y
  BY <1>3, <1>4
<1>. QED
  BY <1>5, Zenon DEF Max

\* Induction over the numbers of a set.
LEMMA AllNaturals ==
    ASSUME NEW S, 0 \in S, \A k \in Nat : k \in S => k + 1 \in S
    PROVE  Nat \subseteq S
<1>. DEFINE T == Nat \ S
<1>. SUFFICES ASSUME T # {} PROVE FALSE
  OBVIOUS
<1>1. PICK k \in T : \A i \in T : k <= i
  BY LeastOfNaturals
<1>2. k \in Nat /\ k # 0 /\ k - 1 \in Nat
  OBVIOUS
<1>3. k - 1 \in S
  BY <1>1, <1>2
<1>. QED
  BY <1>2, <1>3

-----------------------------------------------------------------------------
\* What the community modules' folds compute over the numbers up to n.
Computes(it, base, step, n) ==
    \A s \in SUBSET (1..n) :
        it[s] = IF s = {} THEN base ELSE step[<<it[s \ {Max(s)}], Max(s)>>]

\* The community modules define a fold as some function that computes it: there is one.
LEMMA FoldsExist ==
    ASSUME NEW n \in Nat, NEW D, NEW base \in D, NEW step \in [D \X (1..n) -> D]
    PROVE  \E it \in [SUBSET (1..n) -> D] : Computes(it, base, step, n)
<1>. DEFINE Folds(it, k) ==
                \A s \in SUBSET (1..k) :
                    it[s] = IF s = {} THEN base ELSE step[<<it[s \ {Max(s)}], Max(s)>>]
            Exists(k) == k <= n => \E it \in [SUBSET (1..k) -> D] : Folds(it, k)
            S == {k \in Nat : Exists(k)}
<1>1. Exists(0)
  <2>. DEFINE it == [s \in SUBSET (1..0) |-> base]
  <2>1. it \in [SUBSET (1..0) -> D] /\ \A s \in SUBSET (1..0) : s = {}
    OBVIOUS
  <2>2. Folds(it, 0)
    BY <2>1
  <2>. QED
    BY <2>1, <2>2
<1>2. ASSUME NEW k \in Nat, Exists(k) PROVE Exists(k + 1)
  <2>. SUFFICES ASSUME k + 1 <= n
                PROVE  \E it \in [SUBSET (1..(k + 1)) -> D] : Folds(it, k + 1)
    OBVIOUS
  <2>0. k <= n
    OBVIOUS
  <2>1. PICK it \in [SUBSET (1..k) -> D] : Folds(it, k)
    <3>. HIDE DEF Folds
    <3>. QED
      BY <1>2, <2>0
  <2>2. ASSUME NEW s \in SUBSET (1..(k + 1)), s # {}
        PROVE  Max(s) \in 1..n /\ s \ {Max(s)} \in SUBSET (1..k)
    <3>1. s \in SUBSET (1..n)
      OBVIOUS
    <3>2. Max(s) \in s /\ \A i \in s : Max(s) >= i
      BY <2>2, <3>1, GreatestOfBounded
    <3>3. Max(s) \in 1..(k + 1)
      BY <3>2
    <3>4. \A i \in s \ {Max(s)} : i \in 1..k
      BY <3>2, <3>3
    <3>5. Max(s) \in 1..n
      BY <3>3
    <3>. QED
      BY <3>4, <3>5, Zenon
  <2>. DEFINE next == [s \in SUBSET (1..(k + 1)) |->
                  IF s = {} THEN base ELSE step[<<it[s \ {Max(s)}], Max(s)>>]]
  <2>3. ASSUME NEW s \in SUBSET (1..(k + 1)) PROVE next[s] \in D
    <3>1. CASE s = {}
      BY <3>1
    <3>2. CASE s # {}
      <4>1. <<it[s \ {Max(s)}], Max(s)>> \in D \X (1..n)
        BY <2>2, <3>2
      <4>. QED
        BY <4>1, <3>2
    <3>. QED
      BY <3>1, <3>2
  <2>4. next \in [SUBSET (1..(k + 1)) -> D]
    BY <2>3
  <2>5. ASSUME NEW s \in SUBSET (1..k) PROVE next[s] = it[s]
    <3>1. s \in SUBSET (1..(k + 1))
      OBVIOUS
    <3>. QED
      BY <2>1, <3>1
  <2>6. Folds(next, k + 1)
    <3>. SUFFICES ASSUME NEW s \in SUBSET (1..(k + 1))
                  PROVE  next[s] = IF s = {} THEN base
                                   ELSE step[<<next[s \ {Max(s)}], Max(s)>>]
      OBVIOUS
    <3>1. next[s] = IF s = {} THEN base ELSE step[<<it[s \ {Max(s)}], Max(s)>>]
      OBVIOUS
    <3>2. s # {} => next[s \ {Max(s)}] = it[s \ {Max(s)}]
      BY <2>2, <2>5
    <3>. HIDE DEF next
    <3>. QED
      BY <3>1, <3>2
  <2>. HIDE DEF next
  <2>. QED
    BY <2>4, <2>6
<1>. HIDE DEF Exists
<1>3. 0 \in S /\ \A k \in Nat : k \in S => k + 1 \in S
  BY <1>1, <1>2
<1>4. n \in S
  <2>. HIDE DEF S
  <2>. QED
    BY <1>3, AllNaturals
<1>5. Exists(n)
  BY <1>4
<1>6. n <= n
  OBVIOUS
<1>. QED
  BY <1>5, <1>6, Zenon DEF Exists, Computes

\* Without its greatest number a set stays among the numbers up to n,
LEMMA GreatestOfPart ==
    ASSUME NEW n \in Nat, NEW s \in SUBSET (1..n), s # {}
    PROVE  Max(s) \in 1..n /\ s \ {Max(s)} \in SUBSET (1..n)
<1>1. Max(s) \in s
  BY GreatestOfBounded
<1>. QED
  BY <1>1, Zenon

\* and an interval loses its last one.
LEMMA GreatestOfInterval ==
    ASSUME NEW k \in Nat
    PROVE  Max(1..(k + 1)) = k + 1 /\ (1..(k + 1)) \ {k + 1} = 1..k
<1>1. k + 1 \in Nat /\ k + 1 \in 1..(k + 1) /\ 1..(k + 1) \in SUBSET (1..(k + 1))
  OBVIOUS
<1>2. Max(1..(k + 1)) \in 1..(k + 1) /\ \A i \in 1..(k + 1) : Max(1..(k + 1)) >= i
  BY <1>1, GreatestOfBounded
<1>. QED
  BY <1>1, <1>2

\* The values of a fold over the beginnings of what it folds.
IsTrace(p, base, step, n) == p[0] = base /\ \A i \in 1..n : p[i] = step[<<p[i - 1], i>>]

\* As Computes, but only as far as the values are of D.
ComputesIn(it, D, base, step, n) ==
    /\ it[{}] = base
    /\ \A s \in SUBSET (1..n) :
          s # {} /\ it[s \ {Max(s)}] \in D => it[s] = step[<<it[s \ {Max(s)}], Max(s)>>]

\* Whatever function a fold is, it takes its values step by step.
LEMMA FoldTrace ==
    ASSUME NEW n \in Nat, NEW D, NEW base \in D, NEW step \in [D \X (1..n) -> D], NEW it,
           ComputesIn(it, D, base, step, n)
    PROVE  \E p \in [0..n -> D] : p[n] = it[1..n] /\ IsTrace(p, base, step, n)
<1>1. it[1..0] = base
  <2>1. 1..0 = {}
    OBVIOUS
  <2>. QED
    BY <2>1 DEF ComputesIn
<1>2. ASSUME NEW k \in Nat, k + 1 <= n, it[1..k] \in D
      PROVE  it[1..(k + 1)] = step[<<it[1..k], k + 1>>]
  <2>1. 1..(k + 1) \in SUBSET (1..n) /\ k + 1 \in 1..(k + 1)
    BY <1>2
  <2>2. Max(1..(k + 1)) = k + 1 /\ (1..(k + 1)) \ {k + 1} = 1..k
    BY GreatestOfInterval
  <2>. QED
    BY <1>2, <2>1, <2>2 DEF ComputesIn
<1>. DEFINE S == {k \in Nat : k <= n => it[1..k] \in D}
<1>3. 0 \in S
  BY <1>1
<1>4. ASSUME NEW k \in Nat, k \in S PROVE k + 1 \in S
  <2>. SUFFICES ASSUME k + 1 <= n PROVE it[1..(k + 1)] \in D
    OBVIOUS
  <2>1. <<it[1..k], k + 1>> \in D \X (1..n)
    BY <1>4
  <2>. QED
    BY <1>4, <2>1, <1>2
<1>5. \A k \in 0..n : it[1..k] \in D
  <2>1. Nat \subseteq S
    <3>. HIDE DEF S
    <3>. QED
      BY <1>3, <1>4, AllNaturals
  <2>. QED
    BY <2>1
<1>. DEFINE p == [k \in 0..n |-> it[1..k]]
<1>6. p \in [0..n -> D] /\ p[0] = base /\ p[n] = it[1..n]
  BY <1>1, <1>5
<1>7. ASSUME NEW i \in 1..n PROVE p[i] = step[<<p[i - 1], i>>]
  <2>1. i - 1 \in Nat /\ (i - 1) + 1 = i /\ i - 1 \in 0..n /\ i \in 0..n
    OBVIOUS
  <2>2. it[1..i] = step[<<it[1..(i - 1)], i>>]
    BY <2>1, <1>2, <1>5
  <2>. QED
    BY <2>1, <2>2
<1>. HIDE DEF p
<1>. QED
  BY <1>6, <1>7 DEF IsTrace

\* What is true of the empty sequence, and of any sequence with one more element
\* if it is of the sequence, is true of all sequences.
LEMMA AllSequences ==
    ASSUME NEW T, NEW P, <<>> \in P,
           \A text \in Seq(T), t \in T : text \in P => Append(text, t) \in P
    PROVE  Seq(T) \subseteq P
<1>. DEFINE S == {k \in Nat : \A text \in Seq(T) : Len(text) = k => text \in P}
<1>1. 0 \in S
  OBVIOUS
<1>2. ASSUME NEW k \in Nat, k \in S PROVE k + 1 \in S
  <2>. SUFFICES ASSUME NEW text \in Seq(T), Len(text) = k + 1 PROVE text \in P
    OBVIOUS
  <2>. DEFINE before == SubSeq(text, 1, k)
  <2>1. before \in Seq(T) /\ Len(before) = k /\ text[k + 1] \in T
    OBVIOUS
  <2>2. text = Append(before, text[k + 1])
    <3>1. Append(before, text[k + 1]) \in Seq(T) /\ Len(Append(before, text[k + 1])) = Len(text)
      BY <2>1
    <3>2. \A i \in 1..Len(text) : Append(before, text[k + 1])[i] = text[i]
      BY <2>1
    <3>. HIDE DEF before
    <3>. QED
      BY <3>1, <3>2
  <2>3. before \in P
    BY <1>2, <2>1
  <2>. QED
    BY <2>1, <2>2, <2>3, Zenon
<1>3. Nat \subseteq S
  <2>. HIDE DEF S
  <2>. QED
    BY <1>1, <1>2, AllNaturals
<1>. QED
  BY <1>3

-----------------------------------------------------------------------------
(* Line ends                                                               *)

\* What UniformLineEnds makes of one more token.
Uniformed(done, final, t) ==
    CASE t = "CR" -> Append(done, "LF")
      [] t = "LF" /\ final = "CR" -> done
      [] OTHER -> Append(done, t)

LastOf(text) == IF text = <<>> THEN "none" ELSE text[Len(text)]

\* Line ends are made uniform token by token.
LEMMA UniformTrace ==
    ASSUME NEW T, "LF" \in T, NEW text \in Seq(T)
    PROVE  \E p \in [0..Len(text) -> Seq(T)] :
               /\ p[0] = <<>> /\ p[Len(text)] = UniformLineEnds(text)
               /\ \A i \in 1..Len(text) :
                    p[i] = Uniformed(p[i - 1], IF i > 1 THEN text[i - 1] ELSE "none", text[i])
<1>. DEFINE n == Len(text)
            Add(done, i) ==
                CASE text[i] = "CR" -> Append(done, "LF")
                  [] text[i] = "LF" /\ i > 1 /\ text[i - 1] = "CR" -> done
                  [] OTHER -> Append(done, text[i])
            at == [i \in 1..Len(text) |-> i]
            Folds(it) ==
                it = [s \in SUBSET DOMAIN at |->
                         IF s = {} THEN <<>> ELSE Add(it[s \ {Max(s)}], at[Max(s)])]
            iter == CHOOSE it : Folds(it)
            step == [x \in Seq(T) \X (1..n) |-> Add(x[1], x[2])]
<1>1. UniformLineEnds(text) = iter[DOMAIN at]
  BY Zenon DEF UniformLineEnds, FoldLeft, MapThenFoldSet
<1>2. n \in Nat /\ DOMAIN at = 1..n
  OBVIOUS
<1>3. \A done \in Seq(T), i \in 1..n : Add(done, i) \in Seq(T)
  OBVIOUS
<1>4. step \in [Seq(T) \X (1..n) -> Seq(T)]
  BY <1>3
<1>5. PICK g \in [SUBSET (1..n) -> Seq(T)] : Computes(g, <<>>, step, n)
  <2>. HIDE DEF step, n, Add, at, Folds, iter
  <2>1. <<>> \in Seq(T)
    OBVIOUS
  <2>. QED
    BY <1>2, <1>4, <2>1, FoldsExist
<1>6. Folds(g)
  <2>1. ASSUME NEW s \in SUBSET (1..n), s # {}
        PROVE  g[s] = Add(g[s \ {Max(s)}], at[Max(s)])
    <3>1. Max(s) \in 1..n /\ s \ {Max(s)} \in SUBSET (1..n)
      BY <2>1, GreatestOfPart
    <3>2. g[s] = step[<<g[s \ {Max(s)}], Max(s)>>]
      BY <1>5, <2>1 DEF Computes
    <3>3. at[Max(s)] = Max(s)
      BY <3>1
    <3>. QED
      BY <3>1, <3>2, <3>3
  <2>2. g[{}] = <<>>
    BY <1>5 DEF Computes
  <2>. HIDE DEF Add
  <2>. QED
    BY <1>2, <2>1, <2>2
<1>7. Folds(iter)
  <2>. HIDE DEF Folds
  <2>. QED
    BY <1>6, Zenon
<1>8. ComputesIn(iter, Seq(T), <<>>, step, n)
  <2>. HIDE DEF iter
  <2>1. iter[{}] = <<>>
    <3>. HIDE DEF Add, at
    <3>. QED
      BY <1>2, <1>7
  <2>2. ASSUME NEW s \in SUBSET (1..n), s # {}, iter[s \ {Max(s)}] \in Seq(T)
        PROVE  iter[s] = step[<<iter[s \ {Max(s)}], Max(s)>>]
    <3>1. iter[s] = Add(iter[s \ {Max(s)}], at[Max(s)])
      <4>. HIDE DEF Add, at
      <4>. QED
        BY <1>2, <1>7, <2>2
    <3>2. Max(s) \in 1..n
      BY <2>2, GreatestOfPart
    <3>3. at[Max(s)] = Max(s)
      BY <3>2
    <3>. HIDE DEF Add, at
    <3>. QED
      BY <2>2, <3>1, <3>2, <3>3
  <2>. HIDE DEF step
  <2>. QED
    BY <2>1, <2>2 DEF ComputesIn
<1>9. PICK p \in [0..n -> Seq(T)] :
          p[n] = iter[1..n] /\ IsTrace(p, <<>>, step, n)
  <2>. HIDE DEF step, n, iter, Add, at, Folds
  <2>1. <<>> \in Seq(T)
    OBVIOUS
  <2>. QED
    BY <1>2, <1>4, <1>8, <2>1, FoldTrace
<1>10. ASSUME NEW i \in 1..n
       PROVE  p[i] = Uniformed(p[i - 1], IF i > 1 THEN text[i - 1] ELSE "none", text[i])
  <2>1. p[i] = Add(p[i - 1], i)
    <3>1. p[i - 1] \in Seq(T) /\ p[i] = step[<<p[i - 1], i>>]
      <4>. HIDE DEF step, n, iter, Add, at, Folds
      <4>1. i - 1 \in 0..n
        BY <1>2
      <4>. QED
        BY <1>9, <4>1 DEF IsTrace
    <3>. HIDE DEF Add, at, Folds, iter
    <3>. QED
      BY <3>1
  <2>. QED
    BY <2>1 DEF Uniformed
<1>. HIDE DEF iter, step, Add
<1>. QED
  BY <1>1, <1>2, <1>9, <1>10 DEF IsTrace

\* Two computations that start alike and go on alike end alike.
LEMMA TracesAgree ==
    ASSUME NEW n \in Nat, NEW p, NEW q, p[0] = q[0],
           \A i \in 1..n : p[i - 1] = q[i - 1] => p[i] = q[i]
    PROVE  p[n] = q[n]
<1>. DEFINE S == {k \in Nat : k <= n => p[k] = q[k]}
<1>1. 0 \in S
  OBVIOUS
<1>2. ASSUME NEW k \in Nat, k \in S PROVE k + 1 \in S
  <2>. SUFFICES ASSUME k + 1 <= n PROVE p[k + 1] = q[k + 1]
    OBVIOUS
  <2>1. k + 1 \in 1..n /\ (k + 1) - 1 = k /\ p[k] = q[k]
    BY <1>2
  <2>. QED
    BY <2>1
<1>3. n \in S
  <2>. HIDE DEF S
  <2>. QED
    BY <1>1, <1>2, AllNaturals
<1>. QED
  BY <1>3

LEMMA UniformEmpty == UniformLineEnds(<<>>) = <<>>
<1>. DEFINE none == <<>>
            T == {"LF"}
<1>1. none \in Seq(T) /\ Len(none) = 0 /\ "LF" \in T
  OBVIOUS
<1>. HIDE DEF none, T
<1>2. \E p : p[0] = <<>> /\ p[Len(none)] = UniformLineEnds(none)
  BY <1>1, UniformTrace
<1>. QED
  BY <1>1, <1>2 DEF none

\* One token more.
LEMMA UniformAppend ==
    ASSUME NEW T, "LF" \in T, NEW text \in Seq(T), NEW t \in T
    PROVE  UniformLineEnds(Append(text, t)) = Uniformed(UniformLineEnds(text), LastOf(text), t)
<1>. DEFINE n == Len(text)
            more == Append(text, t)
            Before(line, i) == IF i > 1 THEN line[i - 1] ELSE "none"
<1>1. n \in Nat /\ more \in Seq(T) /\ Len(more) = n + 1 /\ more[n + 1] = t
      /\ \A i \in 1..n : more[i] = text[i]
  OBVIOUS
<1>2. PICK p \in [0..n -> Seq(T)] :
          /\ p[0] = <<>> /\ p[n] = UniformLineEnds(text)
          /\ \A i \in 1..n : p[i] = Uniformed(p[i - 1], Before(text, i), text[i])
  BY UniformTrace
<1>3. PICK q \in [0..Len(more) -> Seq(T)] :
          /\ q[0] = <<>> /\ q[Len(more)] = UniformLineEnds(more)
          /\ \A i \in 1..Len(more) : q[i] = Uniformed(q[i - 1], Before(more, i), more[i])
  <2>. HIDE DEF more
  <2>. QED
    BY <1>1, UniformTrace
<1>. HIDE DEF more, n
<1>4. ASSUME NEW i \in 1..n, p[i - 1] = q[i - 1] PROVE p[i] = q[i]
  <2>1. Before(text, i) = Before(more, i) /\ text[i] = more[i] /\ i \in 1..Len(more)
    BY <1>1
  <2>2. p[i] = Uniformed(p[i - 1], Before(text, i), text[i])
    BY <1>2
  <2>3. q[i] = Uniformed(q[i - 1], Before(more, i), more[i])
    BY <1>3, <2>1
  <2>. HIDE DEF Before
  <2>. QED
    BY <1>4, <2>1, <2>2, <2>3
<1>5. p[n] = q[n]
  <2>1. p[0] = q[0] /\ \A i \in 1..n : p[i - 1] = q[i - 1] => p[i] = q[i]
    BY <1>2, <1>3, <1>4
  <2>. QED
    BY <1>1, <2>1, TracesAgree
<1>6. Before(more, n + 1) = LastOf(text)
  BY <1>1 DEF LastOf, n
<1>7. n + 1 \in 1..Len(more) /\ (n + 1) - 1 = n
  BY <1>1
<1>8. q[n + 1] = Uniformed(q[n], Before(more, n + 1), more[n + 1])
  <2>. HIDE DEF Before
  <2>. QED
    BY <1>3, <1>7
<1>. QED
  BY <1>1, <1>2, <1>3, <1>5, <1>6, <1>8 DEF more

-----------------------------------------------------------------------------
(* FlattenSeq                                                              *)

\* Any step can be taken any number of times.
LEMMA TracesExist ==
    ASSUME NEW n \in Nat, NEW D, NEW base \in D, NEW step \in [D \X (1..n) -> D]
    PROVE  \E p \in [0..n -> D] : IsTrace(p, base, step, n)
<1>1. PICK it \in [SUBSET (1..n) -> D] : Computes(it, base, step, n)
  BY FoldsExist
<1>2. ComputesIn(it, D, base, step, n)
  <2>1. {} \in SUBSET (1..n)
    OBVIOUS
  <2>. QED
    BY <1>1, <2>1 DEF Computes, ComputesIn
<1>. QED
  BY <1>2, FoldTrace

\* Texts are put together one after the other.
LEMMA FlattenTrace ==
    ASSUME NEW T, NEW seqs \in Seq(Seq(T))
    PROVE  \E p \in [0..Len(seqs) -> Seq(T)] :
               /\ p[0] = <<>> /\ p[Len(seqs)] = FlattenSeq(seqs)
               /\ \A i \in 1..Len(seqs) : p[i] = p[i - 1] \o seqs[i]
<1>. DEFINE n == Len(seqs)
            F(f) == f = [i \in 1..n |-> IF i = 1 THEN seqs[i] ELSE f[i - 1] \o seqs[i]]
            flatten == CHOOSE f : F(f)
            step == [x \in Seq(T) \X (1..n) |-> x[1] \o seqs[x[2]]]
<1>1. n \in Nat /\ <<>> \in Seq(T) /\ step \in [Seq(T) \X (1..n) -> Seq(T)]
  OBVIOUS
<1>0. \A i \in 1..n : seqs[i] \in Seq(T) /\ <<>> \o seqs[i] = seqs[i]
  <2>1. \A s \in Seq(T) : <<>> \o s = s
    OBVIOUS
  <2>. QED
    BY <2>1
<1>2. PICK p \in [0..n -> Seq(T)] : IsTrace(p, <<>>, step, n)
  <2>. HIDE DEF n, step, F
  <2>. QED
    BY <1>1, TracesExist
<1>3. p[0] = <<>> /\ \A i \in 1..n : p[i] = p[i - 1] \o seqs[i]
  <2>1. p[0] = <<>>
    BY <1>2 DEF IsTrace
  <2>2. ASSUME NEW i \in 1..n PROVE p[i] = p[i - 1] \o seqs[i]
    <3>1. p[i - 1] \in Seq(T) /\ p[i] = step[<<p[i - 1], i>>]
      <4>1. i - 1 \in 0..n
        BY <1>1
      <4>. HIDE DEF n, step, F
      <4>. QED
        BY <1>2, <4>1 DEF IsTrace
    <3>. QED
      BY <3>1
  <2>. QED
    BY <2>1, <2>2
<1>6. ASSUME NEW i \in 1..n, i = 1 PROVE p[i] = seqs[i]
  <2>. HIDE DEF n, step, F, flatten
  <2>1. p[i] = p[i - 1] \o seqs[i]
    BY <1>3
  <2>2. i - 1 = 0
    BY <1>6
  <2>. QED
    BY <1>0, <1>3, <2>1, <2>2
<1>4. CASE n = 0
  <2>1. FlattenSeq(seqs) = <<>>
    BY <1>4 DEF FlattenSeq
  <2>. HIDE DEF step, F
  <2>. QED
    BY <1>3, <1>4, <2>1
<1>5. CASE n # 0
  <2>1. FlattenSeq(seqs) = flatten[n]
    BY <1>5, Zenon DEF FlattenSeq
  <2>. DEFINE g == [i \in 1..n |-> p[i]]
  <2>2. F(g)
    <3>. SUFFICES ASSUME NEW i \in 1..n
                  PROVE  p[i] = IF i = 1 THEN seqs[i] ELSE g[i - 1] \o seqs[i]
      OBVIOUS
    <3>1. CASE i = 1
      <4>. HIDE DEF n, step, F, flatten, g
      <4>. QED
        BY <1>6, <3>1
    <3>2. CASE i # 1
      <4>1. i - 1 \in 1..n
        BY <1>1, <3>2
      <4>. QED
        BY <1>3, <3>2, <4>1
    <3>. QED
      BY <3>1, <3>2
  <2>3. F(flatten)
    <3>. HIDE DEF F, g
    <3>. QED
      BY <2>2, Zenon
  <2>4. \A i \in 1..n : flatten[i] = IF i = 1 THEN seqs[i] ELSE flatten[i - 1] \o seqs[i]
    <3>. HIDE DEF flatten
    <3>. QED
      BY <2>3
  <2>. DEFINE q == [i \in 0..n |-> IF i = 0 THEN <<>> ELSE flatten[i]]
  <2>. HIDE DEF flatten
  <2>5. p[0] = q[0] /\ n \in 1..n /\ q[n] = flatten[n]
    BY <1>1, <1>3, <1>5
  <2>6. ASSUME NEW i \in 1..n, p[i - 1] = q[i - 1] PROVE p[i] = q[i]
    <3>1. CASE i = 1
      <4>1. q[i] = flatten[i]
        BY <1>1, <3>1
      <4>. HIDE DEF n, step, F, q, g
      <4>. QED
        BY <1>6, <2>4, <3>1, <4>1
    <3>2. CASE i # 1
      <4>1. i - 1 \in 1..n
        BY <1>1, <3>2
      <4>2. q[i] = flatten[i - 1] \o seqs[i] /\ q[i - 1] = flatten[i - 1]
        <5>1. q[i] = flatten[i] /\ q[i - 1] = flatten[i - 1]
          BY <1>1, <4>1
        <5>2. flatten[i] = flatten[i - 1] \o seqs[i]
          <6>. HIDE DEF step, F, g, q
          <6>. QED
            BY <2>4, <3>2
        <5>. QED
          BY <5>1, <5>2
      <4>. QED
        BY <1>3, <2>6, <4>2
    <3>. QED
      BY <3>1, <3>2
  <2>7. p[n] = q[n]
    <3>. HIDE DEF n, q, F, step, g
    <3>. QED
      BY <1>1, <2>5, <2>6, TracesAgree
  <2>. HIDE DEF step, F, g, q
  <2>. QED
    BY <1>3, <2>1, <2>5, <2>7
<1>. QED
  BY <1>4, <1>5

LEMMA FlattenEmpty == FlattenSeq(<<>>) = <<>>
  BY DEF FlattenSeq

LEMMA FlattenAppend ==
    ASSUME NEW T, NEW seqs \in Seq(Seq(T)), NEW s \in Seq(T)
    PROVE  /\ FlattenSeq(seqs) \in Seq(T)
           /\ FlattenSeq(Append(seqs, s)) = FlattenSeq(seqs) \o s
<1>. DEFINE n == Len(seqs)
            more == Append(seqs, s)
<1>1. n \in Nat /\ more \in Seq(Seq(T)) /\ Len(more) = n + 1 /\ more[n + 1] = s
      /\ \A i \in 1..n : more[i] = seqs[i]
  OBVIOUS
<1>2. PICK p \in [0..n -> Seq(T)] :
          p[0] = <<>> /\ p[n] = FlattenSeq(seqs) /\ \A i \in 1..n : p[i] = p[i - 1] \o seqs[i]
  BY FlattenTrace
<1>. HIDE DEF more, n
<1>3. PICK q \in [0..(n + 1) -> Seq(T)] :
          /\ q[0] = <<>> /\ q[n + 1] = FlattenSeq(more)
          /\ \A i \in 1..(n + 1) : q[i] = q[i - 1] \o more[i]
  <2>1. \E q \in [0..Len(more) -> Seq(T)] :
            /\ q[0] = <<>> /\ q[Len(more)] = FlattenSeq(more)
            /\ \A i \in 1..Len(more) : q[i] = q[i - 1] \o more[i]
    BY <1>1, FlattenTrace
  <2>. QED
    BY <1>1, <2>1
<1>4. p[n] = q[n]
  <2>1. \A i \in 1..n : i \in 1..(n + 1)
    BY <1>1
  <2>2. p[0] = q[0] /\ \A i \in 1..n : p[i - 1] = q[i - 1] => p[i] = q[i]
    BY <1>1, <1>2, <1>3, <2>1
  <2>. QED
    BY <1>1, <2>2, TracesAgree
<1>5. n + 1 \in 1..(n + 1) /\ (n + 1) - 1 = n /\ n \in 0..n
  BY <1>1
<1>6. q[n + 1] = q[n] \o s
  BY <1>1, <1>3, <1>5
<1>. QED
  BY <1>1, <1>2, <1>3, <1>4, <1>5, <1>6 DEF more

-----------------------------------------------------------------------------
(* Split                                                                   *)

\* What Split makes of one more token.
Cut(lines, t) ==
    IF t = "LF" THEN Append(lines, <<>>) ELSE [lines EXCEPT ![Len(lines)] = Append(@, t)]

SomeLines(T) == Seq(Seq(T)) \ { <<>> }

\* There is always a last line.
LEMMA CutTyped ==
    ASSUME NEW T, NEW lines \in SomeLines(T), NEW t \in T
    PROVE  Cut(lines, t) \in SomeLines(T)
<1>1. lines \in Seq(Seq(T)) /\ Len(lines) \in 1..Len(lines)
  BY DEF SomeLines
<1>2. CASE t = "LF"
  BY <1>1, <1>2 DEF Cut, SomeLines
<1>3. CASE t # "LF"
  <2>1. Append(lines[Len(lines)], t) \in Seq(T)
    BY <1>1
  <2>2. Cut(lines, t) = [lines EXCEPT ![Len(lines)] = Append(lines[Len(lines)], t)]
    BY <1>3 DEF Cut
  <2>3. Cut(lines, t) \in Seq(Seq(T)) /\ Len(Cut(lines, t)) = Len(lines)
    BY <1>1, <2>1, <2>2
  <2>. QED
    BY <1>1, <2>3 DEF SomeLines
<1>. QED
  BY <1>2, <1>3

\* A text is split token by token.
LEMMA SplitTrace ==
    ASSUME NEW T, NEW text \in Seq(T)
    PROVE  \E p \in [0..Len(text) -> SomeLines(T)] :
               /\ p[0] = << <<>> >> /\ p[Len(text)] = Split(text)
               /\ \A i \in 1..Len(text) : p[i] = Cut(p[i - 1], text[i])
<1>. DEFINE n == Len(text)
            D == SomeLines(T)
            base == << <<>> >>
            Folds(it) ==
                it = [s \in SUBSET DOMAIN text |->
                         IF s = {} THEN base ELSE Cut(it[s \ {Max(s)}], text[Max(s)])]
            iter == CHOOSE it : Folds(it)
            step == [x \in D \X (1..n) |-> Cut(x[1], text[x[2]])]
<1>1. Split(text) = iter[DOMAIN text]
  BY Zenon DEF Split, FoldLeft, MapThenFoldSet, Cut
<1>2. n \in Nat /\ DOMAIN text = 1..n /\ base \in D
  BY DEF SomeLines
<1>3. \A lines \in D, i \in 1..n : Cut(lines, text[i]) \in D
  BY CutTyped
<1>4. step \in [D \X (1..n) -> D]
  <2>. HIDE DEF D
  <2>. QED
    BY <1>3
<1>5. PICK g \in [SUBSET (1..n) -> D] : Computes(g, base, step, n)
  <2>. HIDE DEF step, n, D, base, Folds, iter
  <2>. QED
    BY <1>2, <1>4, FoldsExist
<1>. HIDE DEF D, base
<1>6. Folds(g)
  <2>1. ASSUME NEW s \in SUBSET (1..n), s # {}
        PROVE  g[s] = Cut(g[s \ {Max(s)}], text[Max(s)])
    <3>1. Max(s) \in 1..n /\ s \ {Max(s)} \in SUBSET (1..n)
      BY <2>1, GreatestOfPart
    <3>2. g[s] = step[<<g[s \ {Max(s)}], Max(s)>>]
      BY <1>5, <2>1 DEF Computes
    <3>. QED
      BY <3>1, <3>2
  <2>2. g[{}] = base
    BY <1>5 DEF Computes
  <2>. QED
    BY <1>2, <2>1, <2>2
<1>7. Folds(iter)
  <2>. HIDE DEF Folds
  <2>. QED
    BY <1>6, Zenon
<1>8. ComputesIn(iter, D, base, step, n)
  <2>. HIDE DEF iter
  <2>1. iter[{}] = base
    BY <1>2, <1>7
  <2>2. ASSUME NEW s \in SUBSET (1..n), s # {}, iter[s \ {Max(s)}] \in D
        PROVE  iter[s] = step[<<iter[s \ {Max(s)}], Max(s)>>]
    <3>1. iter[s] = Cut(iter[s \ {Max(s)}], text[Max(s)])
      BY <1>2, <1>7, <2>2
    <3>2. Max(s) \in 1..n
      BY <2>2, GreatestOfPart
    <3>. QED
      BY <2>2, <3>1, <3>2
  <2>. HIDE DEF step, Folds, n
  <2>. QED
    BY <2>1, <2>2 DEF ComputesIn
<1>9. PICK p \in [0..n -> D] : p[n] = iter[1..n] /\ IsTrace(p, base, step, n)
  <2>. HIDE DEF step, n, iter, Folds
  <2>. QED
    BY <1>2, <1>4, <1>8, FoldTrace
<1>10. ASSUME NEW i \in 1..n PROVE p[i] = Cut(p[i - 1], text[i])
  <2>1. p[i - 1] \in D /\ p[i] = step[<<p[i - 1], i>>]
    <3>. HIDE DEF step, n, iter, Folds
    <3>1. i - 1 \in 0..n
      BY <1>2
    <3>. QED
      BY <1>9, <3>1 DEF IsTrace
  <2>. HIDE DEF iter, Folds
  <2>. QED
    BY <2>1
<1>. HIDE DEF iter, step, Folds
<1>. QED
  BY <1>1, <1>2, <1>9, <1>10 DEF IsTrace, D, base

LEMMA SplitEmpty == Split(<<>>) = << <<>> >>
<1>. DEFINE none == <<>>
<1>1. none \in Seq({}) /\ Len(none) = 0
  OBVIOUS
<1>. HIDE DEF none
<1>2. \E p : p[0] = << <<>> >> /\ p[Len(none)] = Split(none)
  BY <1>1, SplitTrace
<1>. QED
  BY <1>1, <1>2 DEF none

\* One token more.
LEMMA SplitAppend ==
    ASSUME NEW T, NEW text \in Seq(T), NEW t \in T
    PROVE  /\ Split(text) \in SomeLines(T)
           /\ Split(Append(text, t)) = Cut(Split(text), t)
<1>. DEFINE n == Len(text)
            more == Append(text, t)
<1>1. n \in Nat /\ more \in Seq(T) /\ Len(more) = n + 1 /\ more[n + 1] = t
      /\ \A i \in 1..n : more[i] = text[i]
  OBVIOUS
<1>2. PICK p \in [0..n -> SomeLines(T)] :
          p[0] = << <<>> >> /\ p[n] = Split(text) /\ \A i \in 1..n : p[i] = Cut(p[i - 1], text[i])
  BY SplitTrace
<1>. HIDE DEF more, n
<1>3. PICK q \in [0..(n + 1) -> SomeLines(T)] :
          /\ q[0] = << <<>> >> /\ q[n + 1] = Split(more)
          /\ \A i \in 1..(n + 1) : q[i] = Cut(q[i - 1], more[i])
  <2>1. \E q \in [0..Len(more) -> SomeLines(T)] :
            /\ q[0] = << <<>> >> /\ q[Len(more)] = Split(more)
            /\ \A i \in 1..Len(more) : q[i] = Cut(q[i - 1], more[i])
    BY <1>1, SplitTrace
  <2>. QED
    BY <1>1, <2>1
<1>4. p[n] = q[n]
  <2>1. \A i \in 1..n : i \in 1..(n + 1)
    BY <1>1
  <2>2. p[0] = q[0] /\ \A i \in 1..n : p[i - 1] = q[i - 1] => p[i] = q[i]
    BY <1>1, <1>2, <1>3, <2>1
  <2>. QED
    BY <1>1, <2>2, TracesAgree
<1>5. n + 1 \in 1..(n + 1) /\ (n + 1) - 1 = n /\ n \in 0..n
  BY <1>1
<1>6. q[n + 1] = Cut(q[n], t)
  BY <1>1, <1>3, <1>5
<1>. QED
  BY <1>1, <1>2, <1>3, <1>4, <1>5, <1>6 DEF more

-----------------------------------------------------------------------------
(* Texts                                                                   *)

LEMMA ConcatAppend ==
    ASSUME NEW T, NEW a \in Seq(T), NEW b \in Seq(T), NEW t \in T
    PROVE  a \o Append(b, t) = Append(a \o b, t)
<1>1. <<t>> \in Seq(T) /\ a \o b \in Seq(T)
  OBVIOUS
<1>2. (a \o b) \o <<t>> = a \o (b \o <<t>>)
  BY <1>1, ConcatAssociative
<1>. QED
  BY <1>1, <1>2, AppendIsConcat

\* The result has one kind of line end, and no other new tokens.
LEMMA UniformTyped ==
    ASSUME NEW T, "LF" \in T, NEW text \in Seq(T)
    PROVE  UniformLineEnds(text) \in Seq(T \ {"CR"})
<1>. DEFINE Q == T \ {"CR"}
            P == {x \in Seq(T) : UniformLineEnds(x) \in Seq(Q)}
<1>1. <<>> \in P
  <2>1. <<>> \in Seq(Q) /\ <<>> \in Seq(T)
    OBVIOUS
  <2>. QED
    BY <2>1, UniformEmpty
<1>2. ASSUME NEW x \in Seq(T), NEW t \in T, x \in P PROVE Append(x, t) \in P
  <2>1. UniformLineEnds(Append(x, t)) = Uniformed(UniformLineEnds(x), LastOf(x), t)
    BY UniformAppend
  <2>2. UniformLineEnds(x) \in Seq(Q) /\ Append(x, t) \in Seq(T)
    BY <1>2
  <2>3. ASSUME NEW u \in Q PROVE Append(UniformLineEnds(x), u) \in Seq(Q)
    BY <2>2
  <2>4. "LF" \in Q /\ (t # "CR" => t \in Q)
    OBVIOUS
  <2>5. Uniformed(UniformLineEnds(x), LastOf(x), t) \in Seq(Q)
    <3>. HIDE DEF Q
    <3>. QED
      BY <2>2, <2>3, <2>4 DEF Uniformed
  <2>. QED
    BY <2>1, <2>2, <2>5
<1>. HIDE DEF P
<1>3. text \in P
  BY <1>1, <1>2, AllSequences
<1>. QED
  BY <1>3 DEF P

\* A text with one kind of line end stays as it is.
LEMMA UniformStays ==
    ASSUME NEW T, "CR" \notin T, NEW text \in Seq(T)
    PROVE  UniformLineEnds(text) = text
<1>. DEFINE P == {x \in Seq(T) : UniformLineEnds(x) = x}
<1>1. <<>> \in P
  BY UniformEmpty
<1>2. ASSUME NEW x \in Seq(T), NEW t \in T, x \in P PROVE Append(x, t) \in P
  <2>1. x \in Seq(T \cup {"LF"}) /\ t \in T \cup {"LF"}
    OBVIOUS
  <2>2. UniformLineEnds(Append(x, t)) = Uniformed(UniformLineEnds(x), LastOf(x), t)
    BY <2>1, UniformAppend
  <2>3. LastOf(x) # "CR"
    BY DEF LastOf
  <2>4. t # "CR"
    OBVIOUS
  <2>5. UniformLineEnds(x) = x
    BY <1>2
  <2>6. Uniformed(x, LastOf(x), t) = Append(x, t)
    BY <2>3, <2>4 DEF Uniformed
  <2>. QED
    BY <2>2, <2>5, <2>6
<1>. HIDE DEF P
<1>3. text \in P
  BY <1>1, <1>2, AllSequences
<1>. QED
  BY <1>3 DEF P

\* Texts can be treated one after the other, unless a CRLF is cut in two.
LEMMA UniformConcat ==
    ASSUME NEW T, "LF" \in T, NEW a \in Seq(T), NEW b \in Seq(T),
           LastOf(a) = "CR" /\ b # <<>> => b[1] # "LF"
    PROVE  UniformLineEnds(a \o b) = UniformLineEnds(a) \o UniformLineEnds(b)
<1>. DEFINE Apart(x) == LastOf(a) = "CR" /\ x # <<>> => x[1] # "LF"
            Holds(x) == UniformLineEnds(a \o x) = UniformLineEnds(a) \o UniformLineEnds(x)
            P == {x \in Seq(T) : Apart(x) => Holds(x)}
<1>0. \A x \in Seq(T) : UniformLineEnds(x) \in Seq(T)
  <2>. TAKE x \in Seq(T)
  <2>1. UniformLineEnds(x) \in Seq(T \ {"CR"})
    BY UniformTyped
  <2>. QED
    BY <2>1
<1>1. <<>> \in P
  BY UniformEmpty, ConcatEmptySeq, <1>0
<1>2. ASSUME NEW x \in Seq(T), NEW t \in T, x \in P PROVE Append(x, t) \in P
  <2>. SUFFICES ASSUME Apart(Append(x, t)) PROVE Holds(Append(x, t))
    <3>1. Append(x, t) \in Seq(T)
      OBVIOUS
    <3>. HIDE DEF Apart, Holds
    <3>. QED
      BY <3>1
  <2>. DEFINE ua == UniformLineEnds(a)
              ux == UniformLineEnds(x)
  <2>1. Apart(x)
    OBVIOUS
  <2>2. UniformLineEnds(a \o x) = ua \o ux
    BY <1>2, <2>1
  <2>3. UniformLineEnds(Append(x, t)) = Uniformed(ux, LastOf(x), t)
    BY UniformAppend
  <2>4. UniformLineEnds(a \o Append(x, t)) = Uniformed(ua \o ux, LastOf(a \o x), t)
    <3>1. a \o x \in Seq(T) /\ a \o Append(x, t) = Append(a \o x, t)
      BY ConcatAppend
    <3>2. UniformLineEnds(Append(a \o x, t)) = Uniformed(UniformLineEnds(a \o x), LastOf(a \o x), t)
      BY <3>1, UniformAppend
    <3>. QED
      BY <2>2, <3>1, <3>2
  <2>5. t = "LF" => (LastOf(a \o x) = "CR" <=> LastOf(x) = "CR")
    <3>1. CASE x = <<>>
      <4>1. a \o x = a /\ Append(x, t)[1] = t /\ Append(x, t) # <<>>
        BY <3>1
      <4>. QED
        BY <3>1, <4>1 DEF LastOf
    <3>2. CASE x # <<>>
      <4>1. (a \o x)[Len(a \o x)] = x[Len(x)] /\ a \o x # <<>>
        BY <3>2
      <4>. QED
        BY <3>2, <4>1 DEF LastOf
    <3>. QED
      BY <3>1, <3>2
  <2>6. ua \in Seq(T) /\ ux \in Seq(T)
    BY <1>0
  <2>7. Uniformed(ua \o ux, LastOf(a \o x), t) = ua \o Uniformed(ux, LastOf(x), t)
    <3>. HIDE DEF ua, ux
    <3>1. ua \o Append(ux, t) = Append(ua \o ux, t) /\ ua \o Append(ux, "LF") = Append(ua \o ux, "LF")
      BY <2>6, ConcatAppend
    <3>. QED
      BY <2>5, <3>1 DEF Uniformed
  <2>. QED
    BY <2>3, <2>4, <2>7
<1>. HIDE DEF P
<1>3. b \in P
  BY <1>1, <1>2, AllSequences
<1>. QED
  BY <1>3 DEF P

-----------------------------------------------------------------------------
(* Lines                                                                   *)

\* A token that ends no line goes to the last one.
LEMMA CutLast ==
    ASSUME NEW T, NEW before \in Seq(Seq(T)), NEW line \in Seq(T), NEW t \in T, t # "LF"
    PROVE  Cut(Append(before, line), t) = Append(before, Append(line, t))
<1>. DEFINE lines == Append(before, line)
            x == Cut(lines, t)
            y == Append(before, Append(line, t))
            n == Len(before)
<1>1. n \in Nat /\ lines \in Seq(Seq(T)) /\ Len(lines) = n + 1 /\ lines[n + 1] = line
      /\ \A i \in 1..n : lines[i] = before[i]
  OBVIOUS
<1>2. Append(line, t) \in Seq(T)
  OBVIOUS
<1>3. y \in Seq(Seq(T)) /\ Len(y) = n + 1 /\ y[n + 1] = Append(line, t)
      /\ \A i \in 1..n : y[i] = before[i]
  BY <1>2
<1>. HIDE DEF lines, n
<1>4. x = [lines EXCEPT ![n + 1] = Append(line, t)]
  BY <1>1 DEF Cut
<1>5. x \in Seq(Seq(T)) /\ Len(x) = n + 1 /\ x[n + 1] = Append(line, t)
      /\ \A i \in 1..n : x[i] = before[i]
  BY <1>1, <1>2, <1>4
<1>. HIDE DEF x, y
<1>6. ASSUME NEW i \in 1..(n + 1) PROVE x[i] = y[i]
  <2>1. i \in 1..n \/ i = n + 1
    BY <1>1
  <2>. QED
    BY <2>1, <1>3, <1>5
<1>7. x = y
  BY <1>3, <1>5, <1>6, SeqEqual
<1>. QED
  BY <1>7 DEF x, y, lines

\* A piece of text without a line feed goes to the final line.
LEMMA SplitLine ==
    ASSUME NEW T, NEW text \in Seq(T), NEW before \in Seq(Seq(T)), NEW final \in Seq(T),
           Split(text) = Append(before, final), NEW line \in Seq(T \ {"LF"})
    PROVE  Split(text \o line) = Append(before, final \o line)
<1>. DEFINE Q == T \ {"LF"}
            P == {x \in Seq(Q) : Split(text \o x) = Append(before, final \o x)}
<1>0. \A y, x \in Seq(T), t \in T : y \o Append(x, t) = Append(y \o x, t)
  BY ConcatAppend
<1>4. \A ls \in Seq(Seq(T)), y \in Seq(T), t \in T :
          t # "LF" => Cut(Append(ls, y), t) = Append(ls, Append(y, t))
  BY CutLast
<1>1. <<>> \in P
  <2>1. <<>> \in Seq(Q)
    OBVIOUS
  <2>. QED
    BY <2>1, ConcatEmptySeq
<1>2. ASSUME NEW x \in Seq(Q), NEW t \in Q, x \in P PROVE Append(x, t) \in P
  <2>1. x \in Seq(T) /\ t \in T /\ t # "LF" /\ text \o x \in Seq(T) /\ final \o x \in Seq(T)
    OBVIOUS
  <2>2. Append(x, t) \in Seq(Q)
    OBVIOUS
  <2>5. Split(text \o x) = Append(before, final \o x)
    BY <1>2
  <2>. HIDE DEF Q, P
  <2>3. text \o Append(x, t) = Append(text \o x, t)
    BY <2>1, <1>0
  <2>3a. final \o Append(x, t) = Append(final \o x, t)
    BY <2>1, <1>0
  <2>4. Split(Append(text \o x, t)) = Cut(Split(text \o x), t)
    BY <2>1, SplitAppend
  <2>6. Cut(Append(before, final \o x), t) = Append(before, Append(final \o x, t))
    BY <2>1, <1>4
  <2>. QED
    BY <2>2, <2>3, <2>3a, <2>4, <2>5, <2>6 DEF P
<1>. HIDE DEF P
<1>3. line \in P
  BY <1>1, <1>2, AllSequences
<1>. QED
  BY <1>3 DEF P

\* A line feed begins a new line.
LEMMA SplitEnd ==
    ASSUME NEW T, "LF" \in T, NEW text \in Seq(T)
    PROVE  Split(Append(text, "LF")) = Append(Split(text), <<>>)
  BY SplitAppend DEF Cut

\* A function applied to every element of a sequence.
Mapped(f, seq) == [i \in DOMAIN seq |-> f[seq[i]]]

Maps(f, S, R) == f \in [S -> R]

\* A function applied to a sequence gives one as long,
LEMMA MappedTyped ==
    ASSUME NEW S, NEW R, NEW f, Maps(f, S, R), NEW seq \in Seq(S)
    PROVE  /\ Mapped(f, seq) \in Seq(R) /\ Len(Mapped(f, seq)) = Len(seq)
           /\ \A i \in 1..Len(seq) : Mapped(f, seq)[i] = f[seq[i]]
<1>1. Len(seq) \in Nat /\ DOMAIN seq = 1..Len(seq) /\ \A i \in 1..Len(seq) : f[seq[i]] \in R
  BY DEF Maps
<1>2. Mapped(f, seq) \in [1..Len(seq) -> R]
  BY <1>1 DEF Mapped
<1>3. Mapped(f, seq) \in Seq(R)
  <2>1. Seq(R) = UNION {[1..n -> R] : n \in Nat}
    BY SeqDef
  <2>. QED
    BY <1>1, <1>2, <2>1, Zenon
<1>4. DOMAIN Mapped(f, seq) = 1..Len(Mapped(f, seq)) /\ Len(Mapped(f, seq)) \in Nat
  BY <1>3, LenProperties
<1>5. Len(Mapped(f, seq)) = Len(seq)
  BY <1>1, <1>2, <1>4
<1>. QED
  BY <1>1, <1>3, <1>5 DEF Mapped

\* and one element more gives one more.
LEMMA MappedAppend ==
    ASSUME NEW S, NEW R, NEW f, Maps(f, S, R), NEW seq \in Seq(S), NEW e \in S
    PROVE  Mapped(f, Append(seq, e)) = Append(Mapped(f, seq), f[e])
<1>2. ASSUME NEW z \in Seq(S)
      PROVE  /\ Mapped(f, z) \in Seq(R) /\ Len(Mapped(f, z)) = Len(z)
             /\ \A i \in 1..Len(z) : Mapped(f, z)[i] = f[z[i]]
  BY MappedTyped
<1>. DEFINE more == Append(seq, e)
            n == Len(seq)
            x == Mapped(f, more)
            y == Append(Mapped(f, seq), f[e])
<1>1. n \in Nat /\ more \in Seq(S) /\ Len(more) = n + 1 /\ more[n + 1] = e
      /\ \A i \in 1..n : more[i] = seq[i]
  OBVIOUS
<1>. HIDE DEF more
<1>3. x \in Seq(R) /\ Len(x) = n + 1 /\ \A i \in 1..(n + 1) : x[i] = f[more[i]]
  BY <1>1, <1>2
<1>7. /\ Mapped(f, seq) \in Seq(R) /\ Len(Mapped(f, seq)) = n /\ f[e] \in R
      /\ \A i \in 1..n : Mapped(f, seq)[i] = f[seq[i]]
  BY <1>2 DEF Maps
<1>. HIDE DEF n
<1>4. y \in Seq(R) /\ Len(y) = n + 1 /\ y[n + 1] = f[e]
      /\ \A i \in 1..n : y[i] = Mapped(f, seq)[i]
  BY <1>1, <1>7
<1>. HIDE DEF x, y
<1>5. ASSUME NEW i \in 1..(n + 1) PROVE x[i] = y[i]
  <2>1. CASE i = n + 1
    BY <1>1, <1>3, <1>4, <2>1
  <2>2. CASE i # n + 1
    <3>1. i \in 1..n
      BY <1>1, <2>2
    <3>. QED
      BY <1>1, <1>3, <1>4, <1>7, <3>1
  <2>. QED
    BY <2>1, <2>2
<1>6. x = y
  BY <1>3, <1>4, <1>5, SeqEqual
<1>. QED
  BY <1>6 DEF x, y, more

-----------------------------------------------------------------------------
(* Fields                                                                  *)

LEMMA MappedEmpty ==
    ASSUME NEW S, NEW R, NEW f, Maps(f, S, R)
    PROVE  Mapped(f, <<>>) = <<>>
<1>0. ASSUME NEW seq \in Seq(S)
      PROVE  Mapped(f, seq) \in Seq(R) /\ Len(Mapped(f, seq)) = Len(seq)
  BY MappedTyped
<1>. DEFINE none == <<>>
<1>1. none \in Seq(S) /\ Len(none) = 0
  OBVIOUS
<1>. HIDE DEF none
<1>2. Mapped(f, none) \in Seq(R) /\ Len(Mapped(f, none)) = 0
  BY <1>0, <1>1
<1>3. Mapped(f, none) = <<>>
  BY <1>2
<1>. QED
  BY <1>3 DEF none

\* The texts a function makes of the elements of a sequence, one after the other.
LEMMA FlatMapAppend ==
    ASSUME NEW S, NEW T, NEW f, Maps(f, S, Seq(T)), NEW seq \in Seq(S), NEW e \in S
    PROVE  /\ FlattenSeq(Mapped(f, seq)) \in Seq(T)
           /\ FlattenSeq(Mapped(f, Append(seq, e))) = FlattenSeq(Mapped(f, seq)) \o f[e]
<1>1. /\ Mapped(f, Append(seq, e)) = Append(Mapped(f, seq), f[e])
      /\ Mapped(f, seq) \in Seq(Seq(T))
  BY MappedAppend, MappedTyped
<1>2. f[e] \in Seq(T)
  BY DEF Maps
<1>. QED
  BY <1>1, <1>2, FlattenAppend

\* The provers do not take the string itself.
Space == " "

\* Lines with what comes before and after each.
Fed(lines) == FlattenSeq([i \in DOMAIN lines |-> <<"LF">> \o lines[i]])
Fields(lines) == FlattenSeq([i \in DOMAIN lines |-> <<"data:", Space>> \o lines[i] \o <<"LF">>])
DataLines(lines) == [i \in DOMAIN lines |-> <<"data:", Space>> \o lines[i]]

\* Lines with a line feed before each, one by one.
LEMMA FedLines ==
    ASSUME NEW T, "LF" \in T
    PROVE  /\ Fed(<<>>) = <<>>
           /\ \A lines \in Seq(Seq(T)), line \in Seq(T) :
                /\ Fed(lines) \in Seq(T)
                /\ Fed(Append(lines, line)) = Fed(lines) \o (<<"LF">> \o line)
<1>. DEFINE f == [x \in Seq(T) |-> <<"LF">> \o x]
<1>1. Maps(f, Seq(T), Seq(T))
  BY DEF Maps
<1>2. ASSUME NEW x \in Seq(Seq(T)) PROVE Fed(x) = FlattenSeq(Mapped(f, x))
  <2>1. \A i \in DOMAIN x : f[x[i]] = <<"LF">> \o x[i]
    OBVIOUS
  <2>2. Mapped(f, x) = [i \in DOMAIN x |-> <<"LF">> \o x[i]]
    BY <2>1 DEF Mapped
  <2>. QED
    BY <2>2 DEF Fed
<1>3. \A x \in Seq(T) : f[x] = <<"LF">> \o x
  OBVIOUS
<1>. HIDE DEF f
<1>4. Fed(<<>>) = <<>>
  <2>1. <<>> \in Seq(Seq(T))
    OBVIOUS
  <2>2. Fed(<<>>) = FlattenSeq(Mapped(f, <<>>))
    BY <2>1, <1>2
  <2>. QED
    BY <1>1, <2>2, MappedEmpty, FlattenEmpty
<1>5. ASSUME NEW lines \in Seq(Seq(T)), NEW line \in Seq(T)
      PROVE  /\ Fed(lines) \in Seq(T)
             /\ Fed(Append(lines, line)) = Fed(lines) \o (<<"LF">> \o line)
  <2>1. Append(lines, line) \in Seq(Seq(T))
    OBVIOUS
  <2>2. /\ FlattenSeq(Mapped(f, lines)) \in Seq(T)
        /\ FlattenSeq(Mapped(f, Append(lines, line))) = FlattenSeq(Mapped(f, lines)) \o f[line]
    BY <1>1, FlatMapAppend
  <2>3. f[line] = <<"LF">> \o line
    BY <1>3
  <2>. QED
    BY <1>2, <2>1, <2>2, <2>3, Zenon
<1>. QED
  BY <1>4, <1>5

\* Lines as fields of an event, one by one.
LEMMA FieldLines ==
    ASSUME NEW T, "LF" \in T, "data:" \in T, Space \in T
    PROVE  /\ Fields(<<>>) = <<>>
           /\ \A lines \in Seq(Seq(T)), line \in Seq(T) :
                /\ Fields(lines) \in Seq(T)
                /\ Fields(Append(lines, line))
                     = Fields(lines) \o (<<"data:", Space>> \o line \o <<"LF">>)
<1>. DEFINE f == [x \in Seq(T) |-> <<"data:", Space>> \o x \o <<"LF">>]
<1>0. \A x \in Seq(T) : <<"data:", Space>> \o x \o <<"LF">> \in Seq(T)
  <2>1. <<"data:", Space>> \in Seq(T) /\ <<"LF">> \in Seq(T)
    OBVIOUS
  <2>2. \A y, x, z \in Seq(T) : y \o x \o z \in Seq(T)
    OBVIOUS
  <2>. QED
    BY <2>1, <2>2
<1>1. Maps(f, Seq(T), Seq(T))
  BY <1>0 DEF Maps
<1>2. ASSUME NEW x \in Seq(Seq(T)) PROVE Fields(x) = FlattenSeq(Mapped(f, x))
  <2>1. \A i \in DOMAIN x : f[x[i]] = <<"data:", Space>> \o x[i] \o <<"LF">>
    OBVIOUS
  <2>2. Mapped(f, x) = [i \in DOMAIN x |-> <<"data:", Space>> \o x[i] \o <<"LF">>]
    BY <2>1, Zenon DEF Mapped
  <2>. QED
    BY <2>2, Zenon DEF Fields
<1>3. \A x \in Seq(T) : f[x] = <<"data:", Space>> \o x \o <<"LF">>
  OBVIOUS
<1>. HIDE DEF f
<1>4. Fields(<<>>) = <<>>
  <2>1. <<>> \in Seq(Seq(T))
    OBVIOUS
  <2>2. Fields(<<>>) = FlattenSeq(Mapped(f, <<>>))
    BY <2>1, <1>2
  <2>. QED
    BY <1>1, <2>2, MappedEmpty, FlattenEmpty
<1>5. ASSUME NEW lines \in Seq(Seq(T)), NEW line \in Seq(T)
      PROVE  /\ Fields(lines) \in Seq(T)
             /\ Fields(Append(lines, line))
                  = Fields(lines) \o (<<"data:", Space>> \o line \o <<"LF">>)
  <2>1. Append(lines, line) \in Seq(Seq(T))
    OBVIOUS
  <2>2. /\ FlattenSeq(Mapped(f, lines)) \in Seq(T)
        /\ FlattenSeq(Mapped(f, Append(lines, line))) = FlattenSeq(Mapped(f, lines)) \o f[line]
    BY <1>1, FlatMapAppend
  <2>3. f[line] = <<"data:", Space>> \o line \o <<"LF">>
    BY <1>3
  <2>. QED
    BY <1>2, <2>1, <2>2, <2>3, Zenon
<1>. QED
  BY <1>4, <1>5, Zenon

\* The lines of those fields, one by one.
LEMMA LinesOfData ==
    ASSUME NEW T, "data:" \in T, Space \in T
    PROVE  /\ DataLines(<<>>) = <<>>
           /\ \A lines \in Seq(Seq(T)), line \in Seq(T) :
                /\ DataLines(lines) \in Seq(Seq(T)) /\ Len(DataLines(lines)) = Len(lines)
                /\ DataLines(Append(lines, line))
                     = Append(DataLines(lines), <<"data:", Space>> \o line)
<1>. DEFINE f == [x \in Seq(T) |-> <<"data:", Space>> \o x]
<1>0. \A x \in Seq(T) : <<"data:", Space>> \o x \in Seq(T)
  <2>1. <<"data:", Space>> \in Seq(T)
    OBVIOUS
  <2>2. \A y, x \in Seq(T) : y \o x \in Seq(T)
    OBVIOUS
  <2>. QED
    BY <2>1, <2>2
<1>1. Maps(f, Seq(T), Seq(T))
  BY <1>0 DEF Maps
<1>2. ASSUME NEW x \in Seq(Seq(T)) PROVE DataLines(x) = Mapped(f, x)
  <2>1. \A i \in DOMAIN x : f[x[i]] = <<"data:", Space>> \o x[i]
    OBVIOUS
  <2>. QED
    BY <2>1, Zenon DEF DataLines, Mapped
<1>3. \A x \in Seq(T) : f[x] = <<"data:", Space>> \o x
  OBVIOUS
<1>. HIDE DEF f
<1>4. DataLines(<<>>) = <<>>
  <2>1. <<>> \in Seq(Seq(T))
    OBVIOUS
  <2>2. DataLines(<<>>) = Mapped(f, <<>>)
    BY <2>1, <1>2
  <2>. QED
    BY <1>1, <2>2, MappedEmpty
<1>5. ASSUME NEW lines \in Seq(Seq(T)), NEW line \in Seq(T)
      PROVE  /\ DataLines(lines) \in Seq(Seq(T)) /\ Len(DataLines(lines)) = Len(lines)
             /\ DataLines(Append(lines, line)) = Append(DataLines(lines), <<"data:", Space>> \o line)
  <2>1. Append(lines, line) \in Seq(Seq(T))
    OBVIOUS
  <2>2. /\ Mapped(f, Append(lines, line)) = Append(Mapped(f, lines), f[line])
        /\ Mapped(f, lines) \in Seq(Seq(T)) /\ Len(Mapped(f, lines)) = Len(lines)
    BY <1>1, MappedAppend, MappedTyped
  <2>3. f[line] = <<"data:", Space>> \o line
    BY <1>3
  <2>. QED
    BY <1>2, <2>1, <2>2, <2>3, Zenon
<1>. QED
  BY <1>4, <1>5, Zenon

-----------------------------------------------------------------------------
(* What Split makes of a text                                              *)

\* Lines have a last one.
LEMMA SomeLinesEnd ==
    ASSUME NEW T, NEW lines \in SomeLines(T)
    PROVE  \E before \in Seq(Seq(T)), final \in Seq(T) : lines = Append(before, final)
<1>1. lines \in Seq(Seq(T)) /\ lines # <<>>
  BY DEF SomeLines
<1>. QED
  BY <1>1, SequenceEmptyOrAppend

LEMMA SomeLinesAppend ==
    ASSUME NEW T, NEW before \in Seq(Seq(T)), NEW final \in Seq(T)
    PROVE  Append(before, final) \in SomeLines(T)
<1>1. Append(before, final) \in Seq(Seq(T)) /\ Len(Append(before, final)) = Len(before) + 1
  OBVIOUS
<1>2. Append(before, final) # <<>>
  <2>1. Len(before) + 1 # 0 /\ Len(<<>>) = 0
    OBVIOUS
  <2>. DEFINE lines == Append(before, final)
  <2>2. Len(lines) = Len(before) + 1
    BY <1>1
  <2>. HIDE DEF lines
  <2>3. lines # <<>>
    BY <2>1, <2>2
  <2>. QED
    BY <2>3 DEF lines
<1>. QED
  BY <1>1, <1>2 DEF SomeLines

\* Every line feed begins a line, and nothing else is lost.
LEMMA SplitParts ==
    ASSUME NEW T, "LF" \in T, NEW text \in Seq(T)
    PROVE  /\ Split(text) \in SomeLines(T \ {"LF"})
           /\ Fed(Split(text)) = <<"LF">> \o text
<1>. DEFINE Q == T \ {"LF"}
            P == {x \in Seq(T) : Split(x) \in SomeLines(Q) /\ Fed(Split(x)) = <<"LF">> \o x}
<1>0. /\ Fed(<<>>) = <<>>
      /\ \A lines \in Seq(Seq(T)), line \in Seq(T) :
           /\ Fed(lines) \in Seq(T)
           /\ Fed(Append(lines, line)) = Fed(lines) \o (<<"LF">> \o line)
  BY FedLines
<1>a. \A y, x \in Seq(T), t \in T : y \o Append(x, t) = Append(y \o x, t)
  BY ConcatAppend
<1>b. <<"LF">> \in Seq(T) /\ <<>> \in Seq(T) /\ <<>> \in Seq(Q) /\ <<>> \in Seq(Seq(T))
      /\ <<>> \in Seq(Seq(Q))
  OBVIOUS
<1>c. Seq(Q) \subseteq Seq(T) /\ Seq(Seq(Q)) \subseteq Seq(Seq(T))
  OBVIOUS
<1>d. \A y \in Seq(T) : y \o <<>> = y /\ <<>> \o y = y
  BY ConcatEmptySeq
<1>e. \A y \in Seq(Seq(Q)), l \in Seq(Q) : Append(y, l) \in SomeLines(Q)
  <2>. HIDE DEF Q, P
  <2>. QED
    BY SomeLinesAppend
<1>1. <<>> \in P
  <2>1. Split(<<>>) = Append(<<>>, <<>>)
    BY SplitEmpty
  <2>2. Append(<<>>, <<>>) \in SomeLines(Q)
    BY <1>b, <1>e
  <2>3. Fed(Append(<<>>, <<>>)) = Fed(<<>>) \o (<<"LF">> \o <<>>)
    BY <1>0, <1>b
  <2>4. Fed(Split(<<>>)) = <<"LF">> \o <<>>
    BY <1>0, <1>b, <1>d, <2>1, <2>3
  <2>. QED
    BY <1>b, <2>1, <2>2, <2>4
<1>2. ASSUME NEW x \in Seq(T), NEW t \in T, x \in P PROVE Append(x, t) \in P
  <2>1. Split(x) \in SomeLines(Q) /\ Fed(Split(x)) = <<"LF">> \o x
    BY <1>2
  <2>2. Split(Append(x, t)) = Cut(Split(x), t)
    BY SplitAppend
  <2>3. PICK before \in Seq(Seq(Q)), final \in Seq(Q) : Split(x) = Append(before, final)
    <3>. HIDE DEF Q, P
    <3>. QED
      BY <2>1, SomeLinesEnd
  <2>4. Append(x, t) \in Seq(T) /\ <<"LF">> \o Append(x, t) = Append(<<"LF">> \o x, t)
    BY <1>a, <1>b
  <2>5. CASE t = "LF"
    <3>1. Cut(Split(x), t) = Append(Split(x), <<>>)
      BY <2>5 DEF Cut
    <3>2. Split(x) \in Seq(Seq(Q)) /\ Append(Split(x), <<>>) \in SomeLines(Q)
      <4>1. Split(x) \in Seq(Seq(Q))
        BY <2>1 DEF SomeLines
      <4>. HIDE DEF Q, P
      <4>. QED
        BY <1>b, <1>e, <4>1
    <3>3. Split(x) \in Seq(Seq(T))
      BY <1>c, <3>2
    <3>4. Fed(Append(Split(x), <<>>)) = (<<"LF">> \o x) \o (<<"LF">> \o <<>>)
      BY <1>0, <1>b, <2>1, <3>3
    <3>5. (<<"LF">> \o x) \o (<<"LF">> \o <<>>) = Append(<<"LF">> \o x, t)
      <4>1. <<"LF">> \o <<>> = <<t>>
        BY <2>5
      <4>2. \A y \in Seq(T) : y \o <<t>> = Append(y, t)
        BY AppendIsConcat
      <4>3. <<"LF">> \o x \in Seq(T)
        OBVIOUS
      <4>. QED
        BY <4>1, <4>2, <4>3
    <3>. HIDE DEF Q
    <3>. QED
      BY <2>2, <2>4, <3>1, <3>2, <3>4, <3>5
  <2>6. CASE t # "LF"
    <3>1. Cut(Split(x), t) = Append(before, Append(final, t))
      <4>1. t \in Q
        BY <2>6
      <4>. HIDE DEF Q, P
      <4>. QED
        BY <2>3, <2>6, <4>1, CutLast
    <3>2. before \in Seq(Seq(T)) /\ final \in Seq(T) /\ Append(final, t) \in Seq(T)
          /\ Append(final, t) \in Seq(Q)
      BY <1>c, <2>3, <2>6
    <3>3. Append(before, Append(final, t)) \in SomeLines(Q)
      <4>. HIDE DEF Q, P
      <4>. QED
        BY <1>e, <2>3, <3>2
    <3>. DEFINE fb == Fed(before)
                fl == <<"LF">> \o final
    <3>4. fb \in Seq(T) /\ fl \in Seq(T)
      BY <1>0, <3>2, <1>b
    <3>5. Fed(Append(before, Append(final, t))) = fb \o (<<"LF">> \o Append(final, t))
      BY <1>0, <3>2
    <3>6. <<"LF">> \o Append(final, t) = Append(fl, t)
      BY <1>a, <1>b, <3>2
    <3>7. fb \o fl = <<"LF">> \o x
      <4>1. Fed(Append(before, final)) = fb \o fl
        BY <1>0, <3>2
      <4>. QED
        BY <2>1, <2>3, <4>1
    <3>. HIDE DEF fb, fl
    <3>8. fb \o Append(fl, t) = Append(fb \o fl, t)
      BY <1>a, <3>4
    <3>9. Fed(Append(before, Append(final, t))) = <<"LF">> \o Append(x, t)
      BY <2>4, <3>5, <3>6, <3>7, <3>8, Zenon
    <3>. HIDE DEF Q
    <3>. QED
      BY <2>2, <2>4, <3>1, <3>3, <3>9
  <2>. QED
    BY <2>5, <2>6
<1>. HIDE DEF P
<1>3. text \in P
  BY <1>1, <1>2, AllSequences
<1>. QED
  BY <1>3 DEF P

\* The lines of a text, joined again.
LEMMA JoinedSplit ==
    ASSUME NEW T, "LF" \in T, NEW text \in Seq(T)
    PROVE  Joined(Split(text)) = text
<1>1. Joined(Split(text)) = Tail(Fed(Split(text)))
  BY Zenon DEF Joined, Fed
<1>2. Fed(Split(text)) = <<"LF">> \o text
  BY SplitParts
<1>3. Tail(<<"LF">> \o text) = text
  <2>. DEFINE x == <<"LF">> \o text
  <2>1. x \in Seq(T) /\ Len(x) = Len(text) + 1 /\ \A i \in 1..Len(text) : x[i + 1] = text[i]
    OBVIOUS
  <2>. HIDE DEF x
  <2>2. Tail(x) \in Seq(T) /\ Len(Tail(x)) = Len(text) /\ \A i \in 1..Len(text) : Tail(x)[i] = x[i + 1]
    BY <2>1
  <2>. QED
    BY <2>1, <2>2, SeqEqual DEF x
<1>. QED
  BY <1>1, <1>2, <1>3

LEMMA ConcatTwice ==
    ASSUME NEW T, NEW a \in Seq(T), NEW b \in Seq(T), NEW c \in Seq(T)
    PROVE  a \o (b \o c) = (a \o b) \o c
  BY ConcatAssociative

\* The fields of the lines are split into the lines with their field's name.
LEMMA SplitFields ==
    ASSUME NEW T, "LF" \in T, "data:" \in T, Space \in T, Space # "LF"
    PROVE  \A head \in Seq(T), done \in Seq(Seq(T)), lines \in Seq(Seq(T \ {"LF"})) :
               Split(head) = Append(done, <<>>)
               => Split(head \o Fields(lines)) = Append(done \o DataLines(lines), <<>>)
<1>a. /\ Fields(<<>>) = <<>>
      /\ \A ls \in Seq(Seq(T)), line \in Seq(T) :
           /\ Fields(ls) \in Seq(T)
           /\ Fields(Append(ls, line)) = Fields(ls) \o (<<"data:", Space>> \o line \o <<"LF">>)
  BY FieldLines
<1>b. /\ DataLines(<<>>) = <<>>
      /\ \A ls \in Seq(Seq(T)), line \in Seq(T) :
           /\ DataLines(ls) \in Seq(Seq(T)) /\ Len(DataLines(ls)) = Len(ls)
           /\ DataLines(Append(ls, line)) = Append(DataLines(ls), <<"data:", Space>> \o line)
  BY LinesOfData
<1>d. \A y, z \in Seq(Seq(T)), l \in Seq(T) : y \o Append(z, l) = Append(y \o z, l)
  BY ConcatAppend
<1>e. \A y, z, u \in Seq(T) : y \o (z \o u) = (y \o z) \o u
  BY ConcatTwice
<1>f. ASSUME NEW y \in Seq(T), NEW z \in Seq(Seq(T)), Split(y) = Append(z, <<>>),
             NEW l \in Seq(T \ {"LF"})
      PROVE  Split(y \o l) = Append(z, <<>> \o l)
  <2>1. <<>> \in Seq(T)
    OBVIOUS
  <2>. QED
    BY <1>f, <2>1, SplitLine
<1>. TAKE head \in Seq(T), done \in Seq(Seq(T)), lines \in Seq(Seq(T \ {"LF"}))
<1>. HAVE Split(head) = Append(done, <<>>)
<1>. DEFINE Q == T \ {"LF"}
            Holds(ls) == Split(head \o Fields(ls)) = Append(done \o DataLines(ls), <<>>)
            P == {ls \in Seq(Seq(Q)) : Holds(ls)}
<1>c. Seq(Q) \subseteq Seq(T) /\ Seq(Seq(Q)) \subseteq Seq(Seq(T))
  OBVIOUS
<1>1. <<>> \in P
  <2>1. <<>> \in Seq(Seq(Q)) /\ head \o <<>> = head /\ done \o <<>> = done
    BY ConcatEmptySeq
  <2>. HIDE DEF Q
  <2>. QED
    BY <1>a, <1>b, <2>1
<1>2. ASSUME NEW ls \in Seq(Seq(Q)), NEW line \in Seq(Q), ls \in P
      PROVE  Append(ls, line) \in P
  <2>. DEFINE x == head \o Fields(ls)
              d == done \o DataLines(ls)
              named == <<"data:", Space>> \o line
  <2>1. Split(x) = Append(d, <<>>)
    BY <1>2
  <2>2. ls \in Seq(Seq(T)) /\ line \in Seq(T) /\ Append(ls, line) \in Seq(Seq(Q))
    BY <1>c
  <2>3. Fields(ls) \in Seq(T) /\ DataLines(ls) \in Seq(Seq(T))
    BY <1>a, <1>b, <2>2
  <2>4. x \in Seq(T) /\ d \in Seq(Seq(T))
    BY <2>3
  <2>5. named \in Seq(Q) /\ named \in Seq(T) /\ <<>> \o named = named /\ <<"LF">> \in Seq(T)
    <3>1. "data:" \in Q /\ Space \in Q
      OBVIOUS
    <3>2. <<"data:", Space>> \in Seq(Q)
      <4>. HIDE DEF Q, P
      <4>. QED
        BY <3>1
    <3>3. named \in Seq(Q)
      <4>. HIDE DEF Q, P
      <4>. QED
        BY <3>2
    <3>4. \A y \in Seq(T) : <<>> \o y = y
      BY ConcatEmptySeq
    <3>5. <<"LF">> \in Seq(T)
      OBVIOUS
    <3>. HIDE DEF named, Q, P
    <3>. QED
      BY <1>c, <3>3, <3>4, <3>5
  <2>6. head \o Fields(Append(ls, line)) = Append(x \o named, "LF")
    <3>1. Fields(Append(ls, line)) = Fields(ls) \o (named \o <<"LF">>)
      BY <1>a, <2>2
    <3>. HIDE DEF named, P, Q
    <3>2. /\ head \o (Fields(ls) \o (named \o <<"LF">>)) = x \o (named \o <<"LF">>)
          /\ x \o (named \o <<"LF">>) = (x \o named) \o <<"LF">>
      <4>1. named \o <<"LF">> \in Seq(T)
        BY <2>5
      <4>. HIDE DEF x
      <4>2. x \o (named \o <<"LF">>) = (x \o named) \o <<"LF">>
        BY <1>e, <2>4, <2>5
      <4>3. head \o (Fields(ls) \o (named \o <<"LF">>)) = (head \o Fields(ls)) \o (named \o <<"LF">>)
        BY <1>e, <2>3, <4>1
      <4>. QED
        BY <4>2, <4>3 DEF x
    <3>3. (x \o named) \o <<"LF">> = Append(x \o named, "LF")
      <4>1. x \o named \in Seq(T)
        BY <2>4, <2>5
      <4>. QED
        BY <4>1, AppendIsConcat
    <3>. QED
      BY <3>1, <3>2, <3>3, Zenon
  <2>7. done \o DataLines(Append(ls, line)) = Append(d, named)
    <3>1. DataLines(Append(ls, line)) = Append(DataLines(ls), named)
      BY <1>b, <2>2
    <3>. HIDE DEF named, P, Q
    <3>2. done \o Append(DataLines(ls), named) = Append(done \o DataLines(ls), named)
      BY <1>d, <2>3, <2>5
    <3>. QED
      BY <3>1, <3>2
  <2>. HIDE DEF x, d, P
  <2>8. Split(x \o named) = Append(d, named)
    <3>1. Split(x \o named) = Append(d, <<>> \o named)
      <4>. HIDE DEF named
      <4>. QED
        BY <1>f, <2>1, <2>4, <2>5 DEF Q
    <3>. HIDE DEF named
    <3>. QED
      BY <2>5, <3>1
  <2>9. Split(Append(x \o named, "LF")) = Append(Append(d, named), <<>>)
    <3>1. x \o named \in Seq(T)
      <4>. HIDE DEF named
      <4>. QED
        BY <2>4, <2>5
    <3>. HIDE DEF named
    <3>. QED
      BY <2>8, <3>1, SplitEnd
  <2>10. Holds(Append(ls, line))
    <3>. HIDE DEF named
    <3>. QED
      BY <2>6, <2>7, <2>9, Zenon
  <2>. HIDE DEF Holds
  <2>. QED
    BY <2>2, <2>10 DEF P
<1>. HIDE DEF P, Q
<1>3. lines \in P
  <2>1. lines \in Seq(Seq(Q))
    BY DEF Q
  <2>. QED
    BY <1>1, <1>2, <2>1, AllSequences
<1>. QED
  BY <1>3 DEF P

-----------------------------------------------------------------------------
(* What a client makes of lines                                            *)

\* What EventSource makes of one more line.
Taken(state, line) ==
    CASE line = <<>> ->
           [events |-> IF state.event.data = <<>> THEN state.events
                       ELSE Append(state.events, [state.event EXCEPT !.data = Joined(@)]),
            event  |-> Empty]
      [] line # <<>> /\ Head(line) = "data:" ->
           [state EXCEPT !.event.data = Append(@, Value(line))]
      [] line # <<>> /\ Head(line) = "event:" ->
           [state EXCEPT !.event.type = Value(line)]
      [] OTHER -> state

Start == [events |-> <<>>, event |-> Empty]

Reading(lines) == FoldLeft(Taken, Start, lines)

Reader(T) ==
    [events : Seq([type : Seq(T), data : Seq(T)]), event : [type : Seq(T), data : Seq(Seq(T))]]

\* The value of a field is a text.
LEMMA ValueTyped ==
    ASSUME NEW T, NEW line \in Seq(T), line # <<>>
    PROVE  Value(line) \in Seq(T)
<1>1. SubSeq(line, 3, Len(line)) \in Seq(T)
  <2>1. \A i \in 3..Len(line) : line[i] \in T
    OBVIOUS
  <2>2. \A i \in 3..Len(line) : i \in 1..Len(line)
    OBVIOUS
  <2>. QED
    BY <2>1, <2>2, SubSeqProperties
<1>2. Tail(line) \in Seq(T)
  OBVIOUS
<1>. QED
  BY <1>1, <1>2, Zenon DEF Value

\* Lines are joined to a text.
LEMMA JoinedTyped ==
    ASSUME NEW T, "LF" \in T
    PROVE  \A lines \in SomeLines(T) : Joined(lines) \in Seq(T)
<1>0. \A lines \in Seq(Seq(T)), line \in Seq(T) :
           /\ Fed(lines) \in Seq(T)
           /\ Fed(Append(lines, line)) = Fed(lines) \o (<<"LF">> \o line)
  BY FedLines
<1>. TAKE lines \in SomeLines(T)
<1>1. PICK before \in Seq(Seq(T)), final \in Seq(T) : lines = Append(before, final)
  BY SomeLinesEnd
<1>2. Fed(lines) = Fed(before) \o (<<"LF">> \o final)
  BY <1>0, <1>1
<1>. DEFINE fed == Fed(before)
<1>3. fed \in Seq(T)
  BY <1>0
<1>. HIDE DEF fed
<1>4. fed \o (<<"LF">> \o final) \in Seq(T) /\ Len(fed \o (<<"LF">> \o final)) = Len(fed) + 1 + Len(final)
  BY <1>3
<1>5. Fed(lines) \in Seq(T) /\ Fed(lines) # <<>>
  <2>1. Len(fed) + 1 + Len(final) # 0
    BY <1>3
  <2>2. Len(Fed(lines)) # 0
    BY <1>2, <1>4, <2>1 DEF fed
  <2>. QED
    BY <1>2, <1>4, <2>2 DEF fed
<1>6. Joined(lines) = Tail(Fed(lines))
  BY Zenon DEF Joined, Fed
<1>. QED
  BY <1>5, <1>6

\* A client that takes a line has texts as before.
LEMMA TakenTyped ==
    ASSUME NEW T, "LF" \in T, NEW state \in Reader(T), NEW line \in Seq(T)
    PROVE  Taken(state, line) \in Reader(T)
<1>1. CASE line = <<>>
  <2>. DEFINE event == [state.event EXCEPT !.data = Joined(@)]
              events == IF state.event.data = <<>> THEN state.events
                        ELSE Append(state.events, event)
  <2>1. Taken(state, line) = [events |-> events, event |-> Empty]
    BY <1>1, Zenon DEF Taken
  <2>2. Empty \in [type : Seq(T), data : Seq(Seq(T))]
    BY DEF Empty
  <2>3. state.event.data # <<>> => Joined(state.event.data) \in Seq(T)
    BY JoinedTyped DEF SomeLines, Reader
  <2>4. state.event.data # <<>> => event \in [type : Seq(T), data : Seq(T)]
    BY <2>3 DEF Reader
  <2>. HIDE DEF event
  <2>5. events \in Seq([type : Seq(T), data : Seq(T)])
    <3>1. state.events \in Seq([type : Seq(T), data : Seq(T)])
      BY DEF Reader
    <3>2. CASE state.event.data = <<>>
      BY <3>1, <3>2
    <3>3. CASE state.event.data # <<>>
      BY <2>4, <3>1, <3>3
    <3>. QED
      BY <3>2, <3>3
  <2>. HIDE DEF events
  <2>. QED
    BY <2>1, <2>2, <2>5 DEF Reader
<1>2. CASE line # <<>> /\ Head(line) = "data:"
  <2>1. Taken(state, line) = [state EXCEPT !.event.data = Append(@, Value(line))]
    BY <1>2, Zenon DEF Taken
  <2>2. Value(line) \in Seq(T)
    BY <1>2, ValueTyped
  <2>. DEFINE data == Append(state.event.data, Value(line))
              event == [state.event EXCEPT !.data = data]
  <2>3. data \in Seq(Seq(T))
    BY <2>2 DEF Reader
  <2>4. Taken(state, line) = [state EXCEPT !.event = event]
    BY <2>1
  <2>. HIDE DEF data
  <2>5. event \in [type : Seq(T), data : Seq(Seq(T))]
    BY <2>3 DEF Reader
  <2>. HIDE DEF event
  <2>. QED
    BY <2>4, <2>5 DEF Reader
<1>3. CASE line # <<>> /\ Head(line) # "data:" /\ Head(line) = "event:"
  <2>1. Taken(state, line) = [state EXCEPT !.event.type = Value(line)]
    BY <1>3 DEF Taken
  <2>2. Value(line) \in Seq(T)
    BY <1>3, ValueTyped
  <2>. QED
    BY <2>1, <2>2 DEF Reader
<1>4. CASE line # <<>> /\ Head(line) # "data:" /\ Head(line) # "event:"
  BY <1>4 DEF Taken
<1>. QED
  BY <1>1, <1>2, <1>3, <1>4

LEMMA StartTyped == ASSUME NEW T PROVE Start \in Reader(T)
  BY DEF Start, Empty, Reader

\* A client takes lines one by one.
LEMMA ReadTrace ==
    ASSUME NEW T, "LF" \in T, NEW lines \in Seq(Seq(T))
    PROVE  \E p \in [0..Len(lines) -> Reader(T)] :
               /\ p[0] = Start /\ p[Len(lines)] = Reading(lines)
               /\ \A i \in 1..Len(lines) : p[i] = Taken(p[i - 1], lines[i])
<1>. DEFINE n == Len(lines)
            D == Reader(T)
            Folds(it) ==
                it = [s \in SUBSET DOMAIN lines |->
                         IF s = {} THEN Start ELSE Taken(it[s \ {Max(s)}], lines[Max(s)])]
            iter == CHOOSE it : Folds(it)
            step == [x \in D \X (1..n) |-> Taken(x[1], lines[x[2]])]
<1>1. Reading(lines) = iter[DOMAIN lines]
  BY Zenon DEF Reading, FoldLeft, MapThenFoldSet
<1>2. n \in Nat /\ DOMAIN lines = 1..n /\ Start \in D
  BY StartTyped
<1>3. \A state \in D, i \in 1..n : Taken(state, lines[i]) \in D
  BY TakenTyped
<1>4. step \in [D \X (1..n) -> D]
  <2>. HIDE DEF D
  <2>. QED
    BY <1>3
<1>5. PICK g \in [SUBSET (1..n) -> D] : Computes(g, Start, step, n)
  <2>. HIDE DEF step, n, D, Folds, iter
  <2>. QED
    BY <1>2, <1>4, FoldsExist
<1>. HIDE DEF D
<1>6. Folds(g)
  <2>1. ASSUME NEW s \in SUBSET (1..n), s # {}
        PROVE  g[s] = Taken(g[s \ {Max(s)}], lines[Max(s)])
    <3>1. Max(s) \in 1..n /\ s \ {Max(s)} \in SUBSET (1..n)
      BY <2>1, GreatestOfPart
    <3>2. g[s] = step[<<g[s \ {Max(s)}], Max(s)>>]
      BY <1>5, <2>1 DEF Computes
    <3>. QED
      BY <3>1, <3>2
  <2>2. g[{}] = Start
    BY <1>5 DEF Computes
  <2>. QED
    BY <1>2, <2>1, <2>2
<1>7. Folds(iter)
  <2>. HIDE DEF Folds
  <2>. QED
    BY <1>6, Zenon
<1>8. ComputesIn(iter, D, Start, step, n)
  <2>. HIDE DEF iter
  <2>1. iter[{}] = Start
    BY <1>2, <1>7
  <2>2. ASSUME NEW s \in SUBSET (1..n), s # {}, iter[s \ {Max(s)}] \in D
        PROVE  iter[s] = step[<<iter[s \ {Max(s)}], Max(s)>>]
    <3>1. iter[s] = Taken(iter[s \ {Max(s)}], lines[Max(s)])
      BY <1>2, <1>7, <2>2
    <3>2. Max(s) \in 1..n
      BY <2>2, GreatestOfPart
    <3>. QED
      BY <2>2, <3>1, <3>2
  <2>. HIDE DEF step, Folds, n
  <2>. QED
    BY <2>1, <2>2 DEF ComputesIn
<1>9. PICK p \in [0..n -> D] : p[n] = iter[1..n] /\ IsTrace(p, Start, step, n)
  <2>. HIDE DEF step, n, iter, Folds
  <2>. QED
    BY <1>2, <1>4, <1>8, FoldTrace
<1>10. ASSUME NEW i \in 1..n PROVE p[i] = Taken(p[i - 1], lines[i])
  <2>1. p[i - 1] \in D /\ p[i] = step[<<p[i - 1], i>>]
    <3>. HIDE DEF step, n, iter, Folds
    <3>1. i - 1 \in 0..n
      BY <1>2
    <3>. QED
      BY <1>9, <3>1 DEF IsTrace
  <2>. HIDE DEF iter, Folds
  <2>. QED
    BY <2>1
<1>. HIDE DEF iter, step, Folds
<1>. QED
  BY <1>1, <1>2, <1>9, <1>10 DEF IsTrace, D

LEMMA ReadNothing == Reading(<<>>) = Start
<1>. DEFINE none == <<>>
            T == {"LF"}
<1>1. none \in Seq(Seq(T)) /\ Len(none) = 0 /\ "LF" \in T
  OBVIOUS
<1>. HIDE DEF none, T
<1>2. \E p : p[0] = Start /\ p[Len(none)] = Reading(none)
  BY <1>1, ReadTrace
<1>. QED
  BY <1>1, <1>2 DEF none

\* One line more.
LEMMA ReadAppend ==
    ASSUME NEW T, "LF" \in T, NEW lines \in Seq(Seq(T)), NEW line \in Seq(T)
    PROVE  /\ Reading(lines) \in Reader(T)
           /\ Reading(Append(lines, line)) = Taken(Reading(lines), line)
<1>. DEFINE n == Len(lines)
            more == Append(lines, line)
<1>1. n \in Nat /\ more \in Seq(Seq(T)) /\ Len(more) = n + 1 /\ more[n + 1] = line
      /\ \A i \in 1..n : more[i] = lines[i]
  OBVIOUS
<1>2. PICK p \in [0..n -> Reader(T)] :
          p[0] = Start /\ p[n] = Reading(lines) /\ \A i \in 1..n : p[i] = Taken(p[i - 1], lines[i])
  BY ReadTrace
<1>. HIDE DEF more, n
<1>3. PICK q \in [0..(n + 1) -> Reader(T)] :
          /\ q[0] = Start /\ q[n + 1] = Reading(more)
          /\ \A i \in 1..(n + 1) : q[i] = Taken(q[i - 1], more[i])
  <2>1. \E q \in [0..Len(more) -> Reader(T)] :
            /\ q[0] = Start /\ q[Len(more)] = Reading(more)
            /\ \A i \in 1..Len(more) : q[i] = Taken(q[i - 1], more[i])
    BY <1>1, ReadTrace
  <2>. QED
    BY <1>1, <2>1
<1>4. p[n] = q[n]
  <2>1. \A i \in 1..n : i \in 1..(n + 1)
    BY <1>1
  <2>2. p[0] = q[0] /\ \A i \in 1..n : p[i - 1] = q[i - 1] => p[i] = q[i]
    BY <1>1, <1>2, <1>3, <2>1
  <2>. QED
    BY <1>1, <2>2, TracesAgree
<1>5. n + 1 \in 1..(n + 1) /\ (n + 1) - 1 = n /\ n \in 0..n
  BY <1>1
<1>6. q[n + 1] = Taken(q[n], line)
  BY <1>1, <1>3, <1>5
<1>. QED
  BY <1>1, <1>2, <1>3, <1>4, <1>5, <1>6 DEF more

\* This is what EventSource does.
LEMMA EventSourceReads ==
    \A wire : EventSource(wire) = Reading(Front(Split(UniformLineEnds(wire)))).events
  BY Zenon DEF EventSource, Reading, Taken, Start, FoldLeft

\* A field with a space after its name.
LEMMA FieldValue ==
    ASSUME NEW T, Space \in T, NEW name \in T, NEW value \in Seq(T)
    PROVE  LET line == <<name, Space>> \o value IN
           /\ line \in Seq(T) /\ line # <<>> /\ Head(line) = name /\ Value(line) = value
<1>. DEFINE line == <<name, Space>> \o value
<1>1. <<name, Space>> \in Seq(T) /\ Len(<<name, Space>>) = 2
  OBVIOUS
<1>2. line \in Seq(T) /\ Len(line) = Len(value) + 2 /\ line[1] = name /\ line[2] = Space
      /\ \A i \in 1..Len(value) : line[i + 2] = value[i]
  BY <1>1
<1>. HIDE DEF line
<1>3. Len(line) > 1 /\ line # <<>> /\ Head(line) = name
  BY <1>2
<1>4. Value(line) = SubSeq(line, 3, Len(line))
  <2>1. Len(line) > 1 /\ line[2] = Space
    BY <1>2, <1>3
  <2>. QED
    BY <2>1, Zenon DEF Value, Space
<1>5. SubSeq(line, 3, Len(line)) = value
  <2>1. \A i \in 3..Len(line) : line[i] \in T
    BY <1>2
  <2>2. 3 \in Int /\ Len(line) \in Int /\ Len(line) - 3 + 1 = Len(value)
        /\ (3 <= Len(line) <=> Len(value) # 0)
    BY <1>2
  <2>. DEFINE x == SubSeq(line, 3, Len(line))
  <2>3. /\ x \in Seq(T)
        /\ Len(x) = IF 3 <= Len(line) THEN Len(line) - 3 + 1 ELSE 0
        /\ \A i \in 1..(Len(line) - 3 + 1) : x[i] = line[3 + i - 1]
    BY <2>1, <2>2, SubSeqProperties
  <2>. HIDE DEF x
  <2>4. Len(x) = Len(value)
    BY <2>2, <2>3
  <2>5. \A i \in 1..Len(value) : 3 + i - 1 = i + 2
    OBVIOUS
  <2>6. \A i \in 1..Len(value) : x[i] = value[i]
    BY <1>2, <2>2, <2>3, <2>5
  <2>7. x = value
    BY <2>3, <2>4, <2>6, SeqEqual
  <2>. QED
    BY <2>7 DEF x
<1>6. /\ line \in Seq(T) /\ line # <<>> /\ Head(line) = name /\ Value(line) = value
  BY <1>2, <1>3, <1>4, <1>5
<1>. QED
  BY <1>6 DEF line

\* What is read of the event's name and of its data, before it ends.
LEMMA ReadFields ==
    ASSUME NEW T, "LF" \in T, "data:" \in T, "event:" \in T, Space \in T, NEW e \in T
    PROVE  \A lines \in Seq(Seq(T)) :
               Reading(<< <<"event:", Space, e>> >> \o DataLines(lines))
                 = [events |-> <<>>, event |-> [type |-> <<e>>, data |-> lines]]
<1>. DEFINE head == <<"event:", Space, e>>
            Read(lines) == [events |-> <<>>, event |-> [type |-> <<e>>, data |-> lines]]
            P == {ls \in Seq(Seq(T)) : Reading(<<head>> \o DataLines(ls)) = Read(ls)}
<1>a. \A name \in T, value \in Seq(T) :
          LET line == <<name, Space>> \o value IN
          line \in Seq(T) /\ line # <<>> /\ Head(line) = name /\ Value(line) = value
  BY FieldValue
<1>b. /\ DataLines(<<>>) = <<>>
      /\ \A ls \in Seq(Seq(T)), line \in Seq(T) :
           /\ DataLines(ls) \in Seq(Seq(T))
           /\ DataLines(Append(ls, line)) = Append(DataLines(ls), <<"data:", Space>> \o line)
  BY LinesOfData
<1>c. \A ls \in Seq(Seq(T)), line \in Seq(T) : Reading(Append(ls, line)) = Taken(Reading(ls), line)
  BY ReadAppend
<1>d. \A y, z \in Seq(Seq(T)), l \in Seq(T) : y \o Append(z, l) = Append(y \o z, l)
  BY ConcatAppend
<1>e. head = <<"event:", Space>> \o <<e>> /\ <<e>> \in Seq(T)
  OBVIOUS
<1>f. head \in Seq(T) /\ head # <<>> /\ Head(head) = "event:" /\ Value(head) = <<e>>
  <2>1. LET line == <<"event:", Space>> \o <<e>> IN
        line \in Seq(T) /\ line # <<>> /\ Head(line) = "event:" /\ Value(line) = <<e>>
    <3>. HIDE DEF head
    <3>. QED
      BY <1>a, <1>e, Zenon
  <2>. HIDE DEF head
  <2>. QED
    BY <1>e, <2>1
<1>. HIDE DEF head, P
<1>g. <<head>> \in Seq(Seq(T)) /\ <<>> \in Seq(Seq(T)) /\ <<head>> \o <<>> = <<head>>
      /\ Append(<<>>, head) = <<head>>
  BY <1>f
<1>1. <<>> \in P
  <2>1. Reading(<<head>>) = Taken(Reading(<<>>), head)
    BY <1>c, <1>f, <1>g
  <2>2. Reading(<<head>>) = Taken(Start, head)
    BY <2>1, ReadNothing
  <2>3. Taken(Start, head) = [Start EXCEPT !.event.type = Value(head)]
    BY <1>f DEF Taken
  <2>4. [Start EXCEPT !.event.type = <<e>>] = Read(<<>>)
    BY DEF Start, Empty
  <2>5. Reading(<<head>>) = Read(<<>>)
    <3>. HIDE DEF Read
    <3>. QED
      BY <1>f, <2>2, <2>3, <2>4
  <2>. HIDE DEF Read
  <2>. QED
    BY <1>b, <1>g, <2>5 DEF P
<1>2. ASSUME NEW ls \in Seq(Seq(T)), NEW line \in Seq(T), ls \in P
      PROVE  Append(ls, line) \in P
  <2>. DEFINE named == <<"data:", Space>> \o line
  <2>1. named \in Seq(T) /\ named # <<>> /\ Head(named) = "data:" /\ Value(named) = line
    BY <1>a, Zenon
  <2>2. DataLines(ls) \in Seq(Seq(T)) /\ DataLines(Append(ls, line)) = Append(DataLines(ls), named)
    BY <1>b
  <2>. HIDE DEF named
  <2>3. <<head>> \o DataLines(Append(ls, line)) = Append(<<head>> \o DataLines(ls), named)
    <3>. DEFINE first == <<head>>
    <3>1. first \in Seq(Seq(T))
      BY <1>g
    <3>. HIDE DEF first, Read
    <3>2. first \o Append(DataLines(ls), named) = Append(first \o DataLines(ls), named)
      BY <1>d, <2>1, <2>2, <3>1
    <3>. QED
      BY <2>2, <3>2 DEF first
  <2>4. <<head>> \o DataLines(ls) \in Seq(Seq(T))
    BY <1>g, <2>2
  <2>5. Reading(<<head>> \o DataLines(Append(ls, line))) = Taken(Read(ls), named)
    <3>1. Reading(Append(<<head>> \o DataLines(ls), named)) = Taken(Reading(<<head>> \o DataLines(ls)), named)
      BY <1>c, <2>1, <2>4
    <3>2. Reading(<<head>> \o DataLines(ls)) = Read(ls)
      BY <1>2 DEF P
    <3>. HIDE DEF Read
    <3>. QED
      BY <2>3, <3>1, <3>2
  <2>6. Taken(Read(ls), named) = [Read(ls) EXCEPT !.event.data = Append(@, Value(named))]
    <3>. HIDE DEF Read
    <3>. QED
      BY <2>1, Zenon DEF Taken
  <2>7. [Read(ls) EXCEPT !.event.data = Append(@, line)] = Read(Append(ls, line))
    <3>. DEFINE event == [type |-> <<e>>, data |-> ls]
                more == Append(ls, line)
    <3>1. [event EXCEPT !.data = more] = [type |-> <<e>>, data |-> more]
      <4>. HIDE DEF more
      <4>. QED
        OBVIOUS
    <3>2. event.data = ls /\ Read(ls).event = event
      OBVIOUS
    <3>3. [Read(ls) EXCEPT !.event.data = Append(@, line)]
            = [Read(ls) EXCEPT !.event = [event EXCEPT !.data = more]]
      BY <3>2
    <3>. HIDE DEF more
    <3>4. [Read(ls) EXCEPT !.event = [type |-> <<e>>, data |-> more]] = Read(more)
      OBVIOUS
    <3>. HIDE DEF Read, event
    <3>. QED
      BY <3>1, <3>3, <3>4 DEF more
  <2>8. Append(ls, line) \in Seq(Seq(T))
    OBVIOUS
  <2>9. Reading(<<head>> \o DataLines(Append(ls, line))) = Read(Append(ls, line))
    <3>. HIDE DEF Read
    <3>. QED
      BY <2>1, <2>5, <2>6, <2>7
  <2>. HIDE DEF Read
  <2>. QED
    BY <2>8, <2>9 DEF P
<1>3. Seq(Seq(T)) \subseteq P
  <2>. HIDE DEF Read
  <2>. QED
    BY <1>1, <1>2, AllSequences
<1>. QED
  BY <1>3 DEF P, head

-----------------------------------------------------------------------------
(* What the stream delivers                                                *)

LEMMA SpaceIsText == Space # "LF" /\ Space # "CR"
  BY Zenon DEF Space

\* The lines of what writeSSE writes.
LEMMA LinesOfEvent ==
    ASSUME NEW T, "LF" \in T, "data:" \in T, "event:" \in T, Space \in T, NEW e \in T, e # "LF"
    PROVE  \A lines \in Seq(Seq(T \ {"LF"})) :
               LET wire == (<<"event:", Space, e, "LF">> \o Fields(lines)) \o <<"LF">> IN
               /\ wire \in Seq(T)
               /\ Front(Split(wire)) = Append(<< <<"event:", Space, e>> >> \o DataLines(lines), <<>>)
<1>. DEFINE head == <<"event:", Space, e>>
            full == <<"event:", Space, e, "LF">>
<1>a. \A ls \in Seq(Seq(T)) : Fields(ls) \in Seq(T) /\ DataLines(ls) \in Seq(Seq(T))
  <2>1. <<>> \in Seq(T)
    OBVIOUS
  <2>2. \A ls \in Seq(Seq(T)), line \in Seq(T) : Fields(ls) \in Seq(T)
    BY FieldLines
  <2>3. \A ls \in Seq(Seq(T)), line \in Seq(T) : DataLines(ls) \in Seq(Seq(T))
    BY LinesOfData
  <2>. QED
    BY <2>1, <2>2, <2>3
<1>b. ASSUME NEW text \in Seq(T)
      PROVE  /\ Split(Append(text, "LF")) = Append(Split(text), <<>>)
             /\ text \o <<"LF">> = Append(text, "LF")
  BY SplitEnd, AppendIsConcat
<1>c. \A before \in Seq(Seq(T)), final \in Seq(T), line \in Seq(T \ {"LF"}) :
          Split(<<>>) = Append(before, final) => Split(<<>> \o line) = Append(before, final \o line)
  <2>1. <<>> \in Seq(T)
    OBVIOUS
  <2>. QED
    BY <2>1, SplitLine
<1>d. \A begin \in Seq(T), done \in Seq(Seq(T)), lines \in Seq(Seq(T \ {"LF"})) :
          Split(begin) = Append(done, <<>>)
          => Split(begin \o Fields(lines)) = Append(done \o DataLines(lines), <<>>)
  BY SpaceIsText, SplitFields
<1>1. Split(head) = <<head>>
  <2>1. head \in Seq(T \ {"LF"})
    <3>1. "event:" \in T \ {"LF"} /\ Space \in T \ {"LF"} /\ e \in T \ {"LF"}
      BY SpaceIsText
    <3>. DEFINE Q == T \ {"LF"}
    <3>. HIDE DEF Q
    <3>2. "event:" \in Q /\ Space \in Q /\ e \in Q
      BY <3>1 DEF Q
    <3>3. head \in Seq(Q)
      BY <3>2
    <3>. QED
      BY <3>3 DEF Q
  <2>2. <<>> \in Seq(T) /\ <<>> \in Seq(Seq(T)) /\ Split(<<>>) = Append(<<>>, <<>>)
    BY SplitEmpty
  <2>3. <<>> \o head = head /\ Append(<<>>, head) = <<head>>
    BY <2>1
  <2>. HIDE DEF head
  <2>4. Split(<<>> \o head) = Append(<<>>, <<>> \o head)
    BY <1>c, <2>1, <2>2
  <2>. QED
    BY <2>3, <2>4
<1>2. head \in Seq(T) /\ <<head>> \in Seq(Seq(T)) /\ full \in Seq(T) /\ full = Append(head, "LF")
  OBVIOUS
<1>. HIDE DEF head, full
<1>3. Split(full) = Append(<<head>>, <<>>)
  BY <1>1, <1>2, <1>b
<1>. SUFFICES ASSUME NEW lines \in Seq(Seq(T \ {"LF"}))
              PROVE  LET wire == (full \o Fields(lines)) \o <<"LF">> IN
                     /\ wire \in Seq(T)
                     /\ Front(Split(wire)) = Append(<<head>> \o DataLines(lines), <<>>)
  BY DEF full, head
<1>4. lines \in Seq(Seq(T))
  OBVIOUS
<1>. DEFINE x == full \o Fields(lines)
            first == <<head>>
            d == first \o DataLines(lines)
            wire == x \o <<"LF">>
            all == Append(d, <<>>)
<1>5. first \in Seq(Seq(T)) /\ Split(full) = Append(first, <<>>)
  BY <1>2, <1>3
<1>. HIDE DEF first
<1>6. Split(x) = all
  BY <1>2, <1>5, <1>d
<1>7. x \in Seq(T) /\ d \in Seq(Seq(T))
  BY <1>2, <1>5, <1>4, <1>a
<1>. HIDE DEF x, d
<1>8. wire = Append(x, "LF") /\ wire \in Seq(T) /\ Split(wire) = Append(all, <<>>)
  <2>. HIDE DEF all
  <2>1. wire = Append(x, "LF") /\ Split(Append(x, "LF")) = Append(all, <<>>)
    BY <1>6, <1>7, <1>b, Zenon
  <2>2. wire \in Seq(T)
    BY <1>7
  <2>. HIDE DEF wire
  <2>. QED
    BY <2>1, <2>2
<1>9. all \in Seq(Seq(T)) /\ <<>> \in Seq(T)
  BY <1>7
<1>. HIDE DEF all, wire
<1>10. Front(Append(all, <<>>)) = all
  <2>. DEFINE more == Append(all, <<>>)
  <2>1. more \in Seq(Seq(T)) /\ Len(more) = Len(all) + 1 /\ \A i \in 1..Len(all) : more[i] = all[i]
    BY <1>9
  <2>. HIDE DEF more
  <2>2. Front(more) = SubSeq(more, 1, Len(all))
    BY <1>9, <2>1 DEF Front
  <2>3. SubSeq(more, 1, Len(all)) = all
    BY <1>9, <2>1
  <2>. QED
    BY <2>2, <2>3 DEF more
<1>11. wire \in Seq(T) /\ Front(Split(wire)) = all
  BY <1>8, <1>10
<1>. QED
  BY <1>11 DEF wire, x, all, d, first

\* Whatever text writeSSE is given, with whatever line ends, spaces at their begin and
\* pieces that look like fields: the client reads one event, and its data is that text
\* with one kind of line end (app.go:460-473).
THEOREM EventIsWhole ==
    ASSUME NEW T, "LF" \in T, "data:" \in T, "event:" \in T, Space \in T,
           NEW e \in T, e \notin {"CR", "LF"}, NEW data \in Seq(T)
    PROVE  EventSource(writeSSE(e, data)) = << [type |-> <<e>>, data |-> UniformLineEnds(data)] >>
<1>. DEFINE N == T \ {"CR"}
            d == UniformLineEnds(data)
            lines == Split(d)
            full == <<"event:", Space, e, "LF">>
            head == <<"event:", Space, e>>
            wire == (full \o Fields(lines)) \o <<"LF">>
            read == << head >> \o DataLines(lines)
            before == [events |-> <<>>, event |-> [type |-> <<e>>, data |-> lines]]
<1>1. writeSSE(e, data) = wire
  BY Zenon DEF writeSSE, Fields, Space, normalized
<1>2. "LF" \in N /\ "data:" \in N /\ "event:" \in N /\ Space \in N /\ e \in N /\ e # "LF" /\ "CR" \notin N
  BY SpaceIsText
<1>3. d \in Seq(N)
  BY UniformTyped
<1>. HIDE DEF N, d
<1>4. lines \in SomeLines(N \ {"LF"}) /\ Joined(lines) = d
  BY <1>2, <1>3, SplitParts, JoinedSplit
<1>5. lines \in Seq(Seq(N \ {"LF"})) /\ lines # <<>> /\ lines \in Seq(Seq(N))
  BY <1>4 DEF SomeLines
<1>. HIDE DEF lines
<1>6. wire \in Seq(N) /\ Front(Split(wire)) = Append(read, <<>>)
  BY <1>2, <1>5, LinesOfEvent
<1>7. Reading(read) = before
  BY <1>2, <1>5, ReadFields
<1>8. read \in Seq(Seq(N)) /\ <<>> \in Seq(N)
  <2>1. \A ls \in Seq(Seq(N)), line \in Seq(N) : DataLines(ls) \in Seq(Seq(N))
    <3>. HIDE DEF wire, read, before, head, full
    <3>. QED
      BY <1>2, LinesOfData
  <2>2. <<>> \in Seq(N) /\ head \in Seq(N)
    BY <1>2
  <2>3. DataLines(lines) \in Seq(Seq(N)) /\ <<head>> \in Seq(Seq(N))
    <3>. HIDE DEF head
    <3>. QED
      BY <1>5, <2>1, <2>2
  <2>. DEFINE first == <<head>>
  <2>. HIDE DEF first
  <2>4. first \o DataLines(lines) \in Seq(Seq(N))
    BY <2>3 DEF first
  <2>. QED
    BY <2>2, <2>4 DEF first
<1>. HIDE DEF wire, read
<1>9. UniformLineEnds(wire) = wire
  BY <1>2, <1>6, UniformStays
<1>10. Reading(Append(read, <<>>)) = Taken(before, <<>>)
  <2>. HIDE DEF before
  <2>. QED
    BY <1>2, <1>7, <1>8, ReadAppend
<1>11. Taken(before, <<>>).events = << [type |-> <<e>>, data |-> d] >>
  <2>1. before.event.data = lines /\ before.events = <<>>
        /\ before.event = [type |-> <<e>>, data |-> lines]
    OBVIOUS
  <2>2. [before.event EXCEPT !.data = Joined(@)] = [type |-> <<e>>, data |-> d]
    BY <1>4
  <2>. HIDE DEF before
  <2>3. Taken(before, <<>>).events
          = Append(before.events, [before.event EXCEPT !.data = Joined(@)])
    BY <1>5, <2>1 DEF Taken
  <2>4. \A y : Append(<<>>, y) = <<y>>
    OBVIOUS
  <2>. QED
    BY <2>1, <2>2, <2>3, <2>4
<1>12. EventSource(wire) = Reading(Front(Split(UniformLineEnds(wire)))).events
  BY EventSourceReads
<1>. HIDE DEF before
<1>. QED
  BY <1>1, <1>6, <1>9, <1>10, <1>11, <1>12 DEF d

-----------------------------------------------------------------------------
(* What the rows of the todos tell                                         *)

LEMMA BeginsAlike ==
    ASSUME NEW T, NEW a \in Seq(T), NEW b \in Seq(T), Len(a) > 0
    PROVE  a \o b \in Seq(T) /\ (a \o b)[1] = a[1]
  OBVIOUS

\* Every element of a finite set is in its sequence.
LEMMA SequenceOfSet ==
    ASSUME NEW S, IsFiniteSet(S)
    PROVE  SetToSeq(S) \in Seq(S) /\ \A x \in S : \E i \in 1..Len(SetToSeq(S)) : SetToSeq(S)[i] = x
<1>. DEFINE n == Cardinality(S)
            f == SetToSeq(S)
<1>1. n \in Nat /\ ExistsBijection(1..n, S)
  BY FS_CardinalityType
<1>2. PICK g : g \in Bijection(1..n, S)
  BY <1>1, Fun_ExistsBij
<1>3. g \in [1..n -> S] /\ \A a, b \in 1..n : g[a] = g[b] => a = b
  BY <1>2, Fun_BijectionProperties
<1>4. IsInjective(g)
  BY <1>3 DEF IsInjective
<1>5. f \in [1..n -> S] /\ IsInjective(f)
  BY <1>3, <1>4, Zenon DEF SetToSeq
<1>. HIDE DEF f, n
<1>6. \A a, b \in 1..n : f[a] = f[b] => a = b
  BY <1>5 DEF IsInjective
<1>7. f \in Injection(1..n, S)
  BY <1>5, <1>6, Fun_IsInj
<1>8. IsFiniteSet(1..n) /\ Cardinality(1..n) = n
  BY <1>1, FS_Interval
<1>9. f \in Surjection(1..n, S)
  BY <1>7, <1>8, FS_Injection DEF n
<1>10. \A x \in S : \E i \in 1..n : f[i] = x
  BY <1>9 DEF Surjection
<1>11. f \in Seq(S) /\ Len(f) = n
  BY <1>1, <1>5
<1>. QED
  BY <1>10, <1>11 DEF f

-----------------------------------------------------------------------------
(* The texts of todos                                                      *)

RowTokens == Rows \cup States \cup (UNION {ToSet(Body[row]) : row \in Rows}) \cup {"LF"}

\* A text tells of every row that is shown what is read of it.
Tells(html, read, shown) ==
    /\ html \in Seq(RowTokens \ {"CR"})
    /\ \A i \in 1..Len(html) : html[i] \in Rows =>
           html[i] \in shown /\ i + 1 \in 1..Len(html) /\ html[i + 1] = read[html[i]]
    /\ \A row \in shown : \E i \in 1..Len(html) : html[i] = row

\* What the tokens of rows are, and are not.
LEMMA TokensDiffer ==
    /\ RowTokens \cap Panels = {}
    /\ \A row \in Rows : row \notin States \cup {"CR", "LF"}
    /\ \A row \in Rows : Body[row] \in Seq(RowTokens \ Rows)
    /\ \A state \in States : state \in RowTokens /\ state \notin {"CR", "LF"}
    /\ Rows \subseteq RowTokens /\ "LF" \in RowTokens /\ "LF" \notin Rows
<1>1. Rows \cap Panels = {} /\ \A row \in Rows : row \notin States \cup {"CR", "LF"}
  BY TokenAssumption
<1>2. \A row \in Rows : ToSet(Body[row]) \cap (Rows \cup Panels) = {}
  BY PageAssumption
<1>3. States \cap (Panels \cup {"CR", "LF"}) = {} /\ "LF" \notin Panels
  BY DEF States, Panels
<1>4. RowTokens \cap Panels = {}
  <2>. DEFINE Bodies == UNION {ToSet(Body[row]) : row \in Rows}
  <2>1. Bodies \cap Panels = {}
    BY <1>2, Zenon
  <2>2. RowTokens = Rows \cup States \cup Bodies \cup {"LF"}
    BY Zenon DEF RowTokens
  <2>. HIDE DEF Bodies
  <2>. QED
    BY <1>1, <1>3, <2>1, <2>2
<1>5. ASSUME NEW row \in Rows PROVE Body[row] \in Seq(RowTokens \ Rows)
  <2>1. Body[row] \in Seq(ToSet(Body[row]))
    BY TokenAssumption
  <2>2. ToSet(Body[row]) \subseteq RowTokens \ Rows
    <3>1. ToSet(Body[row]) \subseteq RowTokens
      BY Zenon DEF RowTokens
    <3>. QED
      BY <1>2, <3>1
  <2>. DEFINE A == ToSet(Body[row])
              B == RowTokens \ Rows
  <2>. HIDE DEF A, B
  <2>3. A \subseteq B => Seq(A) \subseteq Seq(B)
    OBVIOUS
  <2>. QED
    BY <2>1, <2>2, <2>3 DEF A, B
<1>6. \A state \in States : state \in RowTokens /\ state \notin {"CR", "LF"}
  BY <1>3, Zenon DEF RowTokens
<1>7. Rows \subseteq RowTokens /\ "LF" \in RowTokens
  BY Zenon DEF RowTokens
<1>. QED
  BY <1>1, <1>4, <1>5, <1>6, <1>7

\* The text of one row.
LEMMA RowTold ==
    ASSUME NEW row \in Rows, NEW state \in States
    PROVE  /\ TodoRow(row, state) \in Seq(RowTokens) /\ TodoRow(row, state)[1] = row
           /\ \E body \in Seq(RowTokens \ {"CR"}) :
                /\ \A i \in 1..Len(body) : body[i] \notin Rows
                /\ UniformLineEnds(TodoRow(row, state)) = <<row, state>> \o body
<1>. DEFINE head == <<row, state>>
            T == RowTokens
            B == RowTokens \ Rows
            N == UniformLineEnds(Body[row])
<1>1. row \in T /\ state \in T /\ "LF" \in T /\ "LF" \in B /\ row \notin {"CR", "LF"}
      /\ state \notin {"CR", "LF"} /\ "LF" \notin Rows
  BY TokensDiffer
<1>2. Body[row] \in Seq(B)
  BY TokensDiffer
<1>3. B \subseteq T /\ \A t \in B : t \notin Rows
  BY <1>1
<1>. HIDE DEF T, B
<1>4. Body[row] \in Seq(T)
  BY <1>2, <1>3
<1>5. head \in Seq(T) /\ head \in Seq(T \ {"CR"}) /\ Len(head) = 2 /\ head[1] = row /\ head[2] = state
  BY <1>1
<1>6. N \in Seq(B \ {"CR"})
  BY <1>1, <1>2, UniformTyped
<1>7. UniformLineEnds(head) = head
  <2>. DEFINE Q == T \ {"CR"}
  <2>1. "CR" \notin Q /\ head \in Seq(Q)
    BY <1>5
  <2>. HIDE DEF Q, head
  <2>. QED
    BY <2>1, UniformStays
<1>8. LastOf(head) # "CR"
  BY <1>1, <1>5 DEF LastOf
<1>9. TodoRow(row, state) = head \o Body[row]
  BY Zenon DEF TodoRow
<1>. HIDE DEF head, N
<1>10. UniformLineEnds(head \o Body[row]) = head \o N
  <2>1. UniformLineEnds(head \o Body[row]) = UniformLineEnds(head) \o UniformLineEnds(Body[row])
    BY <1>1, <1>4, <1>5, <1>8, UniformConcat
  <2>. QED
    BY <1>7, <2>1 DEF N
<1>11. head \o Body[row] \in Seq(T) /\ (head \o Body[row])[1] = row
  <2>1. Len(head) > 0
    BY <1>5
  <2>. QED
    BY <1>4, <1>5, <2>1, BeginsAlike
<1>12. N \in Seq(T \ {"CR"}) /\ \A i \in 1..Len(N) : N[i] \notin Rows
  <2>1. \A i \in 1..Len(N) : N[i] \in B
    BY <1>6
  <2>2. N \in Seq(T \ {"CR"})
    BY <1>3, <1>6
  <2>. QED
    BY <1>3, <2>1, <2>2
<1>. QED
  BY <1>9, <1>10, <1>11, <1>12 DEF T, head

RowsText(read, list) == FlattenSeq([i \in DOMAIN list |-> TodoRow(list[i], read[list[i]])])

LEMMA ConcatElements ==
    ASSUME NEW T, NEW a \in Seq(T), NEW b \in Seq(T)
    PROVE  /\ a \o b \in Seq(T) /\ Len(a \o b) = Len(a) + Len(b)
           /\ \A i \in 1..Len(a) : (a \o b)[i] = a[i]
           /\ \A i \in 1..Len(b) : (a \o b)[Len(a) + i] = b[i]
  OBVIOUS

\* Where the tokens are when a row is put behind a text.
LEMMA JoinedRow ==
    ASSUME NEW T, NEW html \in Seq(T), NEW row \in T, NEW state \in T, NEW body \in Seq(T)
    PROVE  LET all == html \o (<<row, state>> \o body) IN
           /\ all \in Seq(T) /\ Len(all) = Len(html) + Len(body) + 2
           /\ \A i \in 1..Len(html) : all[i] = html[i]
           /\ all[Len(html) + 1] = row /\ all[Len(html) + 2] = state
           /\ \A i \in 1..Len(body) : all[Len(html) + (i + 2)] = body[i]
<1>0. ASSUME NEW a \in Seq(T), NEW b \in Seq(T)
      PROVE  /\ a \o b \in Seq(T) /\ Len(a \o b) = Len(a) + Len(b) /\ Len(a) \in Nat
             /\ \A i \in 1..Len(a) : (a \o b)[i] = a[i]
             /\ \A i \in 1..Len(b) : (a \o b)[Len(a) + i] = b[i]
  BY ConcatElements
<1>. DEFINE head == <<row, state>>
            more == head \o body
            all == html \o more
            n == Len(html)
            m == Len(body)
<1>1. head \in Seq(T) /\ Len(head) = 2 /\ head[1] = row /\ head[2] = state
  OBVIOUS
<1>. HIDE DEF head
<1>2. /\ more \in Seq(T) /\ Len(more) = 2 + m
      /\ \A i \in 1..2 : more[i] = head[i]
      /\ \A i \in 1..m : more[2 + i] = body[i]
  <2>1. /\ more \in Seq(T) /\ Len(more) = Len(head) + m
        /\ \A i \in 1..Len(head) : more[i] = head[i]
        /\ \A i \in 1..m : more[Len(head) + i] = body[i]
    BY <1>0, <1>1
  <2>. HIDE DEF more, m
  <2>. QED
    BY <1>1, <2>1
<1>2a. m \in Nat
  OBVIOUS
<1>. HIDE DEF more
<1>3. /\ all \in Seq(T) /\ Len(all) = n + Len(more) /\ n \in Nat
      /\ \A i \in 1..n : all[i] = html[i]
      /\ \A i \in 1..Len(more) : all[n + i] = more[i]
  BY <1>0, <1>2
<1>. HIDE DEF all, n, m
<1>4. all[n + 1] = row /\ all[n + 2] = state
  <2>1. 1 \in 1..Len(more) /\ 2 \in 1..Len(more) /\ more[1] = row /\ more[2] = state
    BY <1>1, <1>2, <1>2a
  <2>. QED
    BY <1>3, <2>1
<1>5. ASSUME NEW i \in 1..m PROVE all[n + (i + 2)] = body[i]
  <2>1. i + 2 \in 1..Len(more) /\ 2 + i = i + 2
    BY <1>2, <1>2a
  <2>. QED
    BY <1>2, <1>3, <2>1
<1>6. Len(all) = n + m + 2
  BY <1>2, <1>2a, <1>3
<1>. QED
  BY <1>3, <1>4, <1>5, <1>6 DEF all, more, head, n, m

\* A body with no row in it.
IsBody(body) == body \in Seq(RowTokens \ {"CR"}) /\ \A i \in 1..Len(body) : body[i] \notin Rows

\* One more row.
LEMMA TellsMore ==
    ASSUME NEW read, NEW shown \in SUBSET Rows, NEW html, Tells(html, read, shown),
           NEW row \in Rows, read[row] \in States, NEW body, IsBody(body)
    PROVE  Tells(html \o (<<row, read[row]>> \o body), read, shown \cup {row})
<1>. DEFINE T == RowTokens \ {"CR"}
            state == read[row]
            all == html \o (<<row, state>> \o body)
            n == Len(html)
            m == Len(body)
<1>1. row \in T /\ state \in T /\ state \notin Rows
  BY TokensDiffer
<1>2. html \in Seq(T) /\ body \in Seq(T) /\ \A i \in 1..m : body[i] \notin Rows
  BY DEF Tells, IsBody
<1>. HIDE DEF T, state
<1>3. /\ all \in Seq(T) /\ Len(all) = n + m + 2 /\ n \in Nat /\ m \in Nat
      /\ \A i \in 1..n : all[i] = html[i]
      /\ all[n + 1] = row /\ all[n + 2] = state
      /\ \A i \in 1..m : all[n + (i + 2)] = body[i]
  BY <1>1, <1>2, JoinedRow
<1>4. /\ \A i \in 1..n : html[i] \in Rows =>
            html[i] \in shown /\ i + 1 \in 1..n /\ html[i + 1] = read[html[i]]
      /\ \A r \in shown : \E i \in 1..n : html[i] = r
  BY DEF Tells
<1>. HIDE DEF n, m
<1>5. n \in Nat /\ m \in Nat /\ Len(all) = n + m + 2
  BY <1>3
<1>. HIDE DEF all, state
<1>8. ASSUME NEW i \in 1..Len(all), all[i] \in Rows
      PROVE  all[i] \in shown \cup {row} /\ i + 1 \in 1..Len(all) /\ all[i + 1] = read[all[i]]
  <2>1. CASE i \in 1..n
    <3>1. html[i] \in shown /\ i + 1 \in 1..n /\ html[i + 1] = read[html[i]]
      BY <1>3, <1>4, <1>8, <2>1
    <3>2. i + 1 \in 1..Len(all)
      BY <1>5, <3>1
    <3>. QED
      BY <1>3, <2>1, <3>1, <3>2
  <2>2. CASE i = n + 1
    <3>1. i + 1 = n + 2 /\ i + 1 \in 1..Len(all)
      BY <1>5, <2>2
    <3>. QED
      BY <1>3, <2>2, <3>1 DEF state
  <2>3. CASE i = n + 2
    BY <1>1, <1>3, <1>8, <2>3
  <2>4. CASE i > n + 2
    <3>1. i - n - 2 \in 1..m /\ n + ((i - n - 2) + 2) = i
      BY <1>5, <2>4
    <3>2. all[i] = body[i - n - 2]
      BY <1>3, <3>1
    <3>. QED
      BY <1>2, <1>8, <3>1, <3>2
  <2>5. i \in 1..n \/ i = n + 1 \/ i = n + 2 \/ i > n + 2
    BY <1>5
  <2>. QED
    BY <2>1, <2>2, <2>3, <2>4, <2>5
<1>9. ASSUME NEW r \in shown \cup {row} PROVE \E i \in 1..Len(all) : all[i] = r
  <2>1. CASE r \in shown
    <3>1. PICK i \in 1..n : html[i] = r
      BY <1>4, <2>1
    <3>2. i \in 1..Len(all) /\ all[i] = r
      BY <1>3, <1>5, <3>1
    <3>. QED
      BY <3>2
  <2>2. CASE r = row
    <3>1. n + 1 \in 1..Len(all)
      BY <1>5
    <3>. QED
      BY <1>3, <2>2, <3>1
  <2>. QED
    BY <2>1, <2>2
<1>10. Tells(all, read, shown \cup {row})
  <2>. HIDE DEF all
  <2>1. all \in Seq(RowTokens \ {"CR"})
    BY <1>3 DEF T
  <2>. QED
    BY <1>8, <1>9, <2>1, Zenon DEF Tells
<1>. QED
  BY <1>10 DEF all, state

\* The rows of a list are told whatever their bodies are.
LEMMA RowsTold ==
    ASSUME NEW read \in Reads
    PROVE  \A list \in Seq(Rows) :
               /\ RowsText(read, list) \in Seq(RowTokens)
               /\ Tells(UniformLineEnds(RowsText(read, list)), read, ToSet(list))
<1>. DEFINE T == RowTokens
            f == [row \in Rows |-> TodoRow(row, read[row])]
            Told(list) == Tells(UniformLineEnds(RowsText(read, list)), read, ToSet(list))
            P == {list \in Seq(Rows) : RowsText(read, list) \in Seq(T) /\ Told(list)}
<1>0. \A row \in Rows : read[row] \in States
  BY DEF Reads
<1>1. \A row \in Rows, state \in States :
          /\ TodoRow(row, state) \in Seq(T) /\ TodoRow(row, state)[1] = row
          /\ \E body \in Seq(T \ {"CR"}) :
               /\ \A i \in 1..Len(body) : body[i] \notin Rows
               /\ UniformLineEnds(TodoRow(row, state)) = <<row, state>> \o body
  BY RowTold
<1>2. Maps(f, Rows, Seq(T))
  <2>. HIDE DEF T
  <2>. QED
    BY <1>0, <1>1 DEF Maps
<1>3. ASSUME NEW list \in Seq(Rows) PROVE RowsText(read, list) = FlattenSeq(Mapped(f, list))
  <2>1. \A i \in DOMAIN list : f[list[i]] = TodoRow(list[i], read[list[i]])
    OBVIOUS
  <2>2. Mapped(f, list) = [i \in DOMAIN list |-> TodoRow(list[i], read[list[i]])]
    BY <2>1, Zenon DEF Mapped
  <2>. QED
    BY <2>2, Zenon DEF RowsText
<1>4. \A row \in Rows : f[row] = TodoRow(row, read[row])
  OBVIOUS
<1>. HIDE DEF T, f, Told, P
<1>5. ASSUME NEW list \in Seq(Rows), NEW row \in Rows
      PROVE  /\ RowsText(read, list) \in Seq(T)
             /\ RowsText(read, Append(list, row)) = RowsText(read, list) \o TodoRow(row, read[row])
  <2>1. Append(list, row) \in Seq(Rows)
    OBVIOUS
  <2>2. /\ FlattenSeq(Mapped(f, list)) \in Seq(T)
        /\ FlattenSeq(Mapped(f, Append(list, row))) = FlattenSeq(Mapped(f, list)) \o f[row]
    BY <1>2, FlatMapAppend
  <2>. QED
    BY <1>3, <1>4, <2>1, <2>2, Zenon
<1>6. <<>> \in P
  <2>1. RowsText(read, <<>>) = <<>>
    <3>1. <<>> \in Seq(Rows) /\ Mapped(f, <<>>) = <<>>
      BY <1>2, MappedEmpty
    <3>. QED
      BY <1>3, <3>1, FlattenEmpty
  <2>2. <<>> \in Seq(Rows) /\ <<>> \in Seq(T) /\ <<>> \in Seq(RowTokens \ {"CR"})
    OBVIOUS
  <2>3. ToSet(<<>>) = {}
    BY DEF ToSet
  <2>4. Told(<<>>)
    <3>1. Tells(<<>>, read, {})
      BY <2>2 DEF Tells
    <3>. QED
      BY <2>1, <2>3, <3>1, UniformEmpty DEF Told
  <2>. QED
    BY <2>1, <2>2, <2>4 DEF P
<1>7. ASSUME NEW list \in Seq(Rows), NEW row \in Rows, list \in P PROVE Append(list, row) \in P
  <2>. DEFINE x == RowsText(read, list)
              y == TodoRow(row, read[row])
              ux == UniformLineEnds(x)
              uy == UniformLineEnds(y)
  <2>1. x \in Seq(T) /\ Tells(ux, read, ToSet(list))
    BY <1>7 DEF P, Told
  <2>2. read[row] \in States
    BY <1>0
  <2>3. y \in Seq(T) /\ y[1] = row
    BY <1>1, <2>2
  <2>4. PICK body : IsBody(body) /\ uy = <<row, read[row]>> \o body
    BY <1>1, <2>2 DEF T, IsBody
  <2>5. RowsText(read, Append(list, row)) = x \o y
    BY <1>5
  <2>6. UniformLineEnds(x \o y) = ux \o uy
    <3>1. "LF" \in T /\ row # "LF"
      BY TokensDiffer DEF T
    <3>. HIDE DEF x, y
    <3>2. UniformLineEnds(x \o y) = UniformLineEnds(x) \o UniformLineEnds(y)
      BY <2>1, <2>3, <3>1, UniformConcat
    <3>. QED
      BY <3>2
  <2>7. ToSet(Append(list, row)) = ToSet(list) \cup {row} /\ ToSet(list) \in SUBSET Rows
    <3>. DEFINE more == Append(list, row)
    <3>1. /\ Len(more) = Len(list) + 1 /\ more[Len(list) + 1] = row
          /\ \A i \in 1..Len(list) : more[i] = list[i]
          /\ DOMAIN more = 1..Len(more) /\ DOMAIN list = 1..Len(list)
      OBVIOUS
    <3>2. ASSUME NEW r PROVE r \in ToSet(more) <=> r \in ToSet(list) \cup {row}
      <4>. HIDE DEF more
      <4>1. r \in ToSet(more) <=> \E i \in 1..Len(more) : more[i] = r
        BY <3>1 DEF ToSet
      <4>2. r \in ToSet(list) <=> \E i \in 1..Len(list) : list[i] = r
        BY <3>1 DEF ToSet
      <4>3. \A i \in 1..Len(more) : i \in 1..Len(list) \/ i = Len(list) + 1
        BY <3>1
      <4>4. Len(list) + 1 \in 1..Len(more) /\ \A i \in 1..Len(list) : i \in 1..Len(more)
        BY <3>1
      <4>. QED
        BY <3>1, <4>1, <4>2, <4>3, <4>4
    <3>. HIDE DEF more
    <3>3. ToSet(list) \in SUBSET Rows
      BY <3>1 DEF ToSet
    <3>4. ToSet(more) = ToSet(list) \cup {row}
      BY <3>2
    <3>. QED
      BY <3>3, <3>4 DEF more
  <2>8. Tells(ux \o (<<row, read[row]>> \o body), read, ToSet(list) \cup {row})
    <3>. HIDE DEF ux, uy, x, y
    <3>. QED
      BY <2>1, <2>2, <2>4, <2>7, TellsMore DEF T
  <2>9. Append(list, row) \in Seq(Rows) /\ x \o y \in Seq(T)
    <3>. HIDE DEF x, y
    <3>. QED
      BY <2>1, <2>3
  <2>10. Told(Append(list, row))
    <3>. HIDE DEF x, y, ux, uy
    <3>. QED
      BY <2>4, <2>5, <2>6, <2>7, <2>8, Zenon DEF Told
  <2>. HIDE DEF x, y
  <2>. QED
    BY <2>5, <2>9, <2>10 DEF P
<1>8. Seq(Rows) \subseteq P
  BY <1>6, <1>7, AllSequences
<1>. QED
  BY <1>8 DEF P, Told, T

-----------------------------------------------------------------------------
(* The panels of the todos and of the numbers                              *)

\* The rows there are, and how many they can be.
LEMMA ExistingRows ==
    ASSUME NEW read \in Reads
    PROVE  /\ Existing(read) \in SUBSET Rows /\ IsFiniteSet(Existing(read))
           /\ \A S \in SUBSET Rows : Cardinality(S) \in 0..Cardinality(Rows)
<1>1. IsFiniteSet(Rows)
  BY PageAssumption
<1>2. ASSUME NEW S \in SUBSET Rows
      PROVE  IsFiniteSet(S) /\ Cardinality(S) \in 0..Cardinality(Rows)
  <2>1. IsFiniteSet(S) /\ Cardinality(S) <= Cardinality(Rows)
    BY <1>1, FS_Subset
  <2>2. Cardinality(S) \in Nat /\ Cardinality(Rows) \in Nat
    BY <1>1, <2>1, FS_CardinalityType
  <2>. QED
    BY <2>1, <2>2
<1>3. Existing(read) \in SUBSET Rows
  BY DEF Existing
<1>. QED
  BY <1>2, <1>3

PanelTokens == RowTokens \cup {"todos"}

\* The panel with the todos tells what is read of each.
LEMMA TodosTold ==
    ASSUME NEW read \in Reads
    PROVE  /\ TodosPanel(read) \in Seq(PanelTokens) /\ TodosPanel(read)[1] = "todos"
           /\ \E h : /\ h \in Seq(RowTokens \ {"CR"}) /\ Tells(h, read, Existing(read))
                     /\ UniformLineEnds(TodosPanel(read)) = <<"todos">> \o h
<1>. DEFINE list == SetToSeq(Existing(read))
            text == RowsText(read, list)
            h == UniformLineEnds(text)
            head == <<"todos">>
            T == PanelTokens
<1>1. TodosPanel(read) = head \o text
  BY Zenon DEF TodosPanel, RowsText
<1>2. list \in Seq(Existing(read)) /\ \A x \in Existing(read) : \E i \in 1..Len(list) : list[i] = x
  BY ExistingRows, SequenceOfSet
<1>3. Existing(read) \subseteq Rows
  BY ExistingRows
<1>. HIDE DEF list
<1>4. list \in Seq(Rows) /\ ToSet(list) = Existing(read)
  <2>1. list \in Seq(Rows) /\ DOMAIN list = 1..Len(list) /\ \A i \in 1..Len(list) : list[i] \in Existing(read)
    BY <1>2, <1>3
  <2>. QED
    BY <1>2, <2>1 DEF ToSet
<1>5. text \in Seq(RowTokens) /\ Tells(h, read, Existing(read))
  BY <1>4, RowsTold
<1>6. RowTokens \subseteq T /\ head \in Seq(T) /\ "LF" \in T /\ Len(head) = 1 /\ head[1] = "todos"
  <2>1. RowTokens \subseteq T /\ "todos" \in T /\ "LF" \in T
    BY TokensDiffer DEF PanelTokens
  <2>. HIDE DEF T
  <2>. QED
    BY <2>1
<1>. HIDE DEF T, text
<1>7. text \in Seq(T)
  BY <1>5, <1>6
<1>8. UniformLineEnds(head) = head
  <2>. DEFINE Q == {"todos"}
  <2>1. "CR" \notin Q /\ head \in Seq(Q)
    OBVIOUS
  <2>. HIDE DEF Q, head
  <2>. QED
    BY <2>1, UniformStays
<1>9. LastOf(head) # "CR"
  BY DEF LastOf
<1>. HIDE DEF head
<1>10. UniformLineEnds(head \o text) = head \o h
  <2>1. UniformLineEnds(head \o text) = UniformLineEnds(head) \o UniformLineEnds(text)
    BY <1>6, <1>7, <1>9, UniformConcat
  <2>. QED
    BY <1>8, <2>1
<1>11. head \o text \in Seq(T) /\ (head \o text)[1] = "todos"
  <2>1. Len(head) > 0
    BY <1>6
  <2>. QED
    BY <1>6, <1>7, <2>1, BeginsAlike
<1>12. h \in Seq(RowTokens \ {"CR"})
  BY <1>5 DEF Tells
<1>. QED
  BY <1>1, <1>5, <1>10, <1>11, <1>12 DEF T, head

\* Texts that are the same have the same numbers.
LEMMA TellingCounts ==
    ASSUME NEW html, NEW one \in Reads, NEW other \in Reads,
           Tells(html, one, Existing(one)), Tells(html, other, Existing(other))
    PROVE  StatsPanel(one) = StatsPanel(other)
<1>0. Existing(one) \subseteq Rows /\ Existing(other) \subseteq Rows
  BY DEF Existing
<1>1. ASSUME NEW a \in Reads, NEW b \in Reads,
             Tells(html, a, Existing(a)), Tells(html, b, Existing(b)), NEW row \in Existing(a)
      PROVE  row \in Existing(b) /\ a[row] = b[row]
  <2>1. PICK i \in 1..Len(html) : html[i] = row
    BY <1>1 DEF Tells
  <2>2. row \in Rows
    BY DEF Existing
  <2>. QED
    BY <1>1, <2>1, <2>2 DEF Tells
<1>2. Existing(one) = Existing(other) /\ \A row \in Existing(one) : one[row] = other[row]
  BY <1>1
<1>3. {row \in Rows : one[row] = "done"} = {row \in Rows : other[row] = "done"}
  <2>1. \A row \in Rows : one[row] = "done" => row \in Existing(one)
    BY DEF Existing
  <2>2. \A row \in Rows : other[row] = "done" => row \in Existing(other)
    BY DEF Existing
  <2>. QED
    BY <1>2, <2>1, <2>2
<1>. QED
  BY <1>2, <1>3, Zenon DEF StatsPanel

NumberTokens == {ToString(n) : n \in 0..Cardinality(Rows)}

\* The numbers' panel has a name and three numbers.
LEMMA StatsTyped ==
    ASSUME NEW read \in Reads
    PROVE  \E a, b, c \in NumberTokens : StatsPanel(read) = <<"stats", a, b, c>>
<1>. DEFINE done == {row \in Rows : read[row] = "done"}
<1>1. \A S \in SUBSET Rows : Count(S) \in NumberTokens
  BY ExistingRows, Zenon DEF Count, NumberTokens
<1>2. Existing(read) \in SUBSET Rows /\ Existing(read) \ done \in SUBSET Rows /\ done \in SUBSET Rows
  BY ExistingRows
<1>3. StatsPanel(read) = <<"stats", Count(Existing(read)), Count(Existing(read) \ done), Count(done)>>
  BY Zenon DEF StatsPanel
<1>. HIDE DEF done
<1>. QED
  BY <1>1, <1>2, <1>3

\* A number begins no panel and ends no line.
LEMMA NumbersDiffer == NumberTokens \cap (Panels \cup {"CR", "LF"}) = {}
  BY TokenAssumption, Zenon DEF NumberTokens

\* A panel reaches from its only beginning to the next panel, or to the end.
LEMMA SectionBetween ==
    ASSUME NEW text, NEW T, NEW panel \in Panels, UniformLineEnds(text) \in Seq(T),
           NEW from \in 1..Len(UniformLineEnds(text)), NEW to \in from..Len(UniformLineEnds(text)),
           UniformLineEnds(text)[from] = panel,
           \A i \in 1..Len(UniformLineEnds(text)) : UniformLineEnds(text)[i] = panel => i = from,
           \A i \in (from + 1)..to : UniformLineEnds(text)[i] \notin Panels,
           to # Len(UniformLineEnds(text)) => UniformLineEnds(text)[to + 1] \in Panels
    PROVE  Section(text, panel) = SubSeq(UniformLineEnds(text), from, to)
<1>. DEFINE html == UniformLineEnds(text)
            starts == {i \in DOMAIN html : html[i] \in Panels}
            first == {i \in starts : html[i] = panel}
            start == CHOOSE i \in first : TRUE
            after == {i \in starts : i > start}
            next == CHOOSE i \in after : \A j \in after : i <= j
            end == IF after = {} THEN Len(html) ELSE next - 1
<1>1. Section(text, panel) = IF first = {} THEN <<>> ELSE SubSeq(html, start, end)
  BY Zenon DEF Section
<1>0. /\ html[from] = panel
      /\ \A i \in 1..Len(html) : html[i] = panel => i = from
      /\ \A i \in (from + 1)..to : html[i] \notin Panels
      /\ to # Len(html) => html[to + 1] \in Panels
      /\ html \in Seq(T) /\ from \in 1..Len(html) /\ to \in from..Len(html)
  OBVIOUS
<1>. HIDE DEF html
<1>2. DOMAIN html = 1..Len(html) /\ Len(html) \in Nat
  BY <1>0
<1>3. first = {from} /\ from \in starts
  BY <1>0, <1>2
<1>4. start = from
  <2>. HIDE DEF starts, first
  <2>. QED
    BY <1>3
<1>. HIDE DEF start
<1>5. CASE to = Len(html)
  <2>1. after = {}
    BY <1>0, <1>2, <1>4, <1>5
  <2>. QED
    BY <1>1, <1>3, <1>4, <1>5, <2>1 DEF html
<1>6. CASE to # Len(html)
  <2>0. to + 1 \in 1..Len(html) /\ to + 1 > from /\ html[to + 1] \in Panels
    <3>1. html[to + 1] \in Panels
      BY <1>0, <1>6
    <3>. DEFINE n == Len(html)
    <3>2. from \in 1..n /\ to \in from..n /\ to # n /\ n \in Nat
      BY <1>0, <1>2, <1>6
    <3>. HIDE DEF n
    <3>3. to + 1 \in 1..n /\ to + 1 > from
      BY <3>2
    <3>. QED
      BY <3>1, <3>3 DEF n
  <2>1. to + 1 \in after
    BY <1>2, <1>4, <2>0
  <2>2. \A i \in after : i >= to + 1 /\ i \in Nat
    <3>. SUFFICES ASSUME NEW i \in after PROVE i >= to + 1 /\ i \in Nat
      OBVIOUS
    <3>1. i \in 1..Len(html) /\ html[i] \in Panels /\ i > from
      BY <1>2, <1>4
    <3>2. i \notin (from + 1)..to
      BY <1>0, <3>1
    <3>. QED
      BY <1>0, <3>1, <3>2
  <2>. HIDE DEF after
  <2>3. next = to + 1
    <3>1. \A j \in after : to + 1 <= j
      BY <1>0, <2>2
    <3>2. next \in after /\ \A j \in after : next <= j
      BY <2>1, <3>1
    <3>. HIDE DEF next
    <3>. QED
      BY <1>0, <2>1, <2>2, <3>1, <3>2
  <2>. HIDE DEF next, first
  <2>4. first # {} /\ after # {} /\ next - 1 = to
    BY <1>0, <1>3, <2>1, <2>3
  <2>. QED
    BY <1>1, <1>4, <2>4 DEF html
<1>. QED
  BY <1>5, <1>6

-----------------------------------------------------------------------------
(* The panels of a snapshot                                                *)

\* A part of a text, token by token.
LEMMA PartOf ==
    ASSUME NEW T, NEW html \in Seq(T), NEW from \in 1..Len(html), NEW to \in from..Len(html),
           NEW part \in Seq(T), Len(part) = to - from + 1,
           \A i \in 1..Len(part) : part[i] = html[i + from - 1]
    PROVE  SubSeq(html, from, to) = part
<1>. DEFINE x == SubSeq(html, from, to)
<1>1. x \in Seq(T) /\ Len(x) = to - from + 1 /\ \A i \in 1..(to - from + 1) : x[i] = html[from + i - 1]
  <2>1. \A i \in from..to : html[i] \in T
    OBVIOUS
  <2>2. from \in Int /\ to \in Int /\ from <= to
    OBVIOUS
  <2>3. /\ x \in Seq(T) /\ Len(x) = IF from <= to THEN to - from + 1 ELSE 0
        /\ \A i \in 1..(to - from + 1) : x[i] = html[from + i - 1]
    BY <2>1, <2>2, SubSeqProperties
  <2>. QED
    BY <2>2, <2>3
<1>. HIDE DEF x
<1>2. ASSUME NEW i \in 1..Len(x) PROVE x[i] = part[i]
  <2>1. from + i - 1 = i + from - 1 /\ i \in 1..Len(part) /\ i \in 1..(to - from + 1)
    BY <1>1
  <2>. QED
    BY <1>1, <2>1
<1>3. x = part
  BY <1>1, <1>2, SeqEqual
<1>. QED
  BY <1>3 DEF x

\* Where the tokens of a snapshot are.
Laid(html, stats, h) ==
    /\ Len(html) = Len(h) + 6
    /\ \A i \in 1..4 : html[i] = stats[i]
    /\ html[5] = "todos" /\ html[Len(h) + 6] = "events"
    /\ \A i \in 1..Len(h) : html[i + 5] = h[i]

LEMMA SnapshotElements ==
    ASSUME NEW T, NEW stats \in Seq(T), Len(stats) = 4, NEW h \in Seq(T), "todos" \in T, "events" \in T
    PROVE  /\ (stats \o (<<"todos">> \o h)) \o <<"events">> \in Seq(T)
           /\ Laid((stats \o (<<"todos">> \o h)) \o <<"events">>, stats, h)
<1>0. ASSUME NEW a \in Seq(T), NEW b \in Seq(T)
      PROVE  /\ a \o b \in Seq(T) /\ Len(a \o b) = Len(a) + Len(b)
             /\ \A i \in 1..Len(a) : (a \o b)[i] = a[i]
             /\ \A i \in 1..Len(b) : (a \o b)[Len(a) + i] = b[i]
  BY ConcatElements
<1>. DEFINE k == Len(h)
            head == <<"todos">>
            todos == head \o h
            both == stats \o todos
            last_ == <<"events">>
            html == both \o last_
<1>1. /\ head \in Seq(T) /\ Len(head) = 1 /\ head[1] = "todos"
      /\ last_ \in Seq(T) /\ Len(last_) = 1 /\ last_[1] = "events" /\ k \in Nat
  OBVIOUS
<1>. HIDE DEF head, last_
<1>2. /\ todos \in Seq(T) /\ Len(todos) = 1 + k /\ todos[1] = "todos"
      /\ \A i \in 1..k : todos[1 + i] = h[i]
  <2>1. /\ todos \in Seq(T) /\ Len(todos) = Len(head) + k
        /\ \A i \in 1..Len(head) : todos[i] = head[i]
        /\ \A i \in 1..k : todos[Len(head) + i] = h[i]
    BY <1>0, <1>1
  <2>. HIDE DEF todos, k
  <2>. QED
    BY <1>1, <2>1
<1>. HIDE DEF todos
<1>3. /\ both \in Seq(T) /\ Len(both) = 4 + Len(todos)
      /\ \A i \in 1..4 : both[i] = stats[i]
      /\ \A i \in 1..Len(todos) : both[4 + i] = todos[i]
  <2>1. /\ both \in Seq(T) /\ Len(both) = Len(stats) + Len(todos)
        /\ \A i \in 1..Len(stats) : both[i] = stats[i]
        /\ \A i \in 1..Len(todos) : both[Len(stats) + i] = todos[i]
    BY <1>0, <1>2
  <2>. HIDE DEF both, k
  <2>. QED
    BY <2>1
<1>. HIDE DEF both
<1>4. /\ html \in Seq(T) /\ Len(html) = Len(both) + 1
      /\ \A i \in 1..Len(both) : html[i] = both[i]
      /\ html[Len(both) + 1] = "events"
  <2>1. /\ html \in Seq(T) /\ Len(html) = Len(both) + Len(last_)
        /\ \A i \in 1..Len(both) : html[i] = both[i]
        /\ \A i \in 1..Len(last_) : html[Len(both) + i] = last_[i]
    BY <1>0, <1>1, <1>3
  <2>. HIDE DEF html, k
  <2>. QED
    BY <1>1, <2>1
<1>. HIDE DEF html, k
<1>5. Len(both) = k + 5 /\ Len(both) + 1 = k + 6
  BY <1>1, <1>2, <1>3
<1>6. \A i \in 1..4 : html[i] = stats[i]
  <2>1. \A i \in 1..4 : i \in 1..Len(both)
    BY <1>1, <1>5
  <2>. QED
    BY <1>3, <1>4, <2>1
<1>7. html[5] = "todos"
  <2>1. 5 \in 1..Len(both) /\ 1 \in 1..Len(todos) /\ 4 + 1 = 5
    BY <1>1, <1>2, <1>5
  <2>2. both[4 + 1] = todos[1]
    BY <1>3, <2>1
  <2>. QED
    BY <1>2, <1>4, <2>1, <2>2
<1>8. ASSUME NEW i \in 1..k PROVE html[i + 5] = h[i]
  <2>1. i + 5 \in 1..Len(both) /\ 1 + i \in 1..Len(todos) /\ 4 + (1 + i) = i + 5
    BY <1>1, <1>2, <1>5
  <2>2. both[4 + (1 + i)] = todos[1 + i]
    BY <1>3, <2>1
  <2>. QED
    BY <1>2, <1>4, <2>1, <2>2
<1>9. /\ html \in Seq(T) /\ Len(html) = k + 6
      /\ \A i \in 1..4 : html[i] = stats[i]
      /\ html[5] = "todos" /\ html[k + 6] = "events"
      /\ \A i \in 1..k : html[i + 5] = h[i]
  BY <1>4, <1>5, <1>6, <1>7, <1>8
<1>10. html \in Seq(T) /\ Laid(html, stats, h)
  BY <1>9 DEF Laid, k
<1>. QED
  BY <1>10 DEF html, both, todos, head, last_

AllTokens == PanelTokens \cup NumberTokens \cup Panels

\* What the panels of a snapshot show.
Shown(read) ==
    [panel \in Panels |-> CASE panel = "stats" -> StatsPanel(read)
                            [] panel = "todos" -> UniformLineEnds(TodosPanel(read))
                            [] OTHER -> EventsPanel]

\* The panels of any text that becomes a snapshot's.
LEMMA SnapshotSections ==
    ASSUME NEW read \in Reads, NEW text,
           UniformLineEnds(text)
             = (StatsPanel(read) \o UniformLineEnds(TodosPanel(read))) \o EventsPanel
    PROVE  PanelsOf(text) = Shown(read)
<1>a. ASSUME NEW U, NEW s \in Seq(U), Len(s) = 4, NEW g \in Seq(U), "todos" \in U, "events" \in U
      PROVE  /\ (s \o (<<"todos">> \o g)) \o <<"events">> \in Seq(U)
             /\ Laid((s \o (<<"todos">> \o g)) \o <<"events">>, s, g)
  BY <1>a, SnapshotElements
<1>b. ASSUME NEW U, NEW a \in Seq(U), NEW b \in Seq(U)
      PROVE  /\ a \o b \in Seq(U) /\ Len(a \o b) = Len(a) + Len(b)
             /\ \A i \in 1..Len(a) : (a \o b)[i] = a[i]
             /\ \A i \in 1..Len(b) : (a \o b)[Len(a) + i] = b[i]
  BY ConcatElements
<1>. DEFINE T == AllTokens
            html == UniformLineEnds(text)
            stats == StatsPanel(read)
            todos == UniformLineEnds(TodosPanel(read))
<1>1. PICK h : h \in Seq(RowTokens \ {"CR"}) /\ todos = <<"todos">> \o h
  BY TodosTold
<1>2. PICK a, b, c \in NumberTokens : stats = <<"stats", a, b, c>>
  BY StatsTyped
<1>3. RowTokens \subseteq T /\ NumberTokens \subseteq T /\ "stats" \in T /\ "todos" \in T /\ "events" \in T
  BY DEF AllTokens, PanelTokens, Panels
<1>4. h \in Seq(T) /\ \A i \in 1..Len(h) : h[i] \notin Panels
  <2>1. \A i \in 1..Len(h) : h[i] \in RowTokens
    BY <1>1
  <2>2. h \in Seq(T)
    <3>. HIDE DEF T
    <3>. QED
      BY <1>1, <1>3
  <2>. QED
    BY <2>1, <2>2, TokensDiffer
<1>5. stats \in Seq(T) /\ Len(stats) = 4 /\ stats[1] = "stats" /\ \A i \in 2..4 : stats[i] \notin Panels
  <2>1. a \notin Panels /\ b \notin Panels /\ c \notin Panels
    BY NumbersDiffer
  <2>2. a \in T /\ b \in T /\ c \in T /\ "stats" \in T
    BY <1>3
  <2>. HIDE DEF T, stats
  <2>3. stats \in Seq(T) /\ Len(stats) = 4 /\ stats[1] = "stats"
        /\ stats[2] = a /\ stats[3] = b /\ stats[4] = c
    BY <1>2, <2>2
  <2>4. \A i \in 2..4 : i = 2 \/ i = 3 \/ i = 4
    OBVIOUS
  <2>. QED
    BY <2>1, <2>3, <2>4
<1>. DEFINE k == Len(h)
<1>. HIDE DEF T, stats, todos
<1>6. html = (stats \o (<<"todos">> \o h)) \o <<"events">>
  BY <1>1 DEF EventsPanel, stats, todos
<1>7. k \in Nat
  BY <1>4
<1>8. /\ html \in Seq(T) /\ Len(html) = k + 6
      /\ \A i \in 1..4 : html[i] = stats[i]
      /\ html[5] = "todos" /\ html[k + 6] = "events"
      /\ \A i \in 1..k : html[i + 5] = h[i]
  <2>. DEFINE whole == (stats \o (<<"todos">> \o h)) \o <<"events">>
  <2>1. whole \in Seq(T) /\ Laid(whole, stats, h)
    BY <1>a, <1>3, <1>4, <1>5
  <2>2. html = whole
    BY <1>6
  <2>. HIDE DEF html, whole
  <2>3. html \in Seq(T) /\ Laid(html, stats, h)
    BY <2>1, <2>2
  <2>. QED
    BY <2>3 DEF Laid
<1>. HIDE DEF k
<1>9. /\ html[1] = "stats" /\ html[5] = "todos" /\ html[k + 6] = "events"
      /\ \A i \in 1..Len(html) : html[i] \in Panels => i = 1 \/ i = 5 \/ i = k + 6
  <2>. HIDE DEF html
  <2>1. html[1] = "stats"
    BY <1>5, <1>8
  <2>2. ASSUME NEW i \in 1..Len(html), html[i] \in Panels PROVE i = 1 \/ i = 5 \/ i = k + 6
    <3>1. CASE i \in 2..4
      <4>1. i \in 1..4
        BY <3>1
      <4>. QED
        BY <1>5, <1>8, <2>2, <3>1, <4>1
    <3>2. CASE i > 5 /\ i < k + 6
      <4>1. i - 5 \in 1..k /\ (i - 5) + 5 = i
        BY <1>7, <3>2
      <4>2. html[i] = h[i - 5]
        BY <1>8, <4>1
      <4>. QED
        BY <1>4, <2>2, <4>1, <4>2 DEF k
    <3>3. i = 1 \/ i \in 2..4 \/ i = 5 \/ (i > 5 /\ i < k + 6) \/ i = k + 6
      BY <1>7, <1>8
    <3>. QED
      BY <3>1, <3>2, <3>3
  <2>. QED
    BY <1>8, <2>1, <2>2
<1>10. ASSUME NEW panel \in Panels, NEW from \in 1..Len(html), NEW to \in from..Len(html),
              NEW part \in Seq(T), Len(part) = to - from + 1,
              \A i \in 1..Len(part) : part[i] = html[i + from - 1],
              html[from] = panel,
              \A i \in 1..Len(html) : html[i] = panel => i = from,
              \A i \in (from + 1)..to : html[i] \notin Panels,
              to # Len(html) => html[to + 1] \in Panels
       PROVE  Section(text, panel) = part
  <2>1. Section(text, panel) = SubSeq(html, from, to)
    BY <1>8, <1>10, SectionBetween
  <2>. HIDE DEF html
  <2>2. SubSeq(html, from, to) = part
    BY <1>8, <1>10, PartOf
  <2>. QED
    BY <2>1, <2>2
<1>11. Section(text, "stats") = stats
  <2>. HIDE DEF html
  <2>1. "stats" \in Panels /\ "todos" \in Panels
    BY DEF Panels
  <2>2. 1 \in 1..Len(html) /\ 4 \in 1..Len(html) /\ Len(stats) = 4 - 1 + 1
    BY <1>5, <1>7, <1>8
  <2>3. \A i \in 1..Len(stats) : stats[i] = html[i + 1 - 1]
    <3>1. \A i \in 1..4 : i + 1 - 1 = i
      OBVIOUS
    <3>. QED
      BY <1>5, <1>8, <3>1
  <2>4. \A i \in 1..Len(html) : html[i] = "stats" => i = 1
    BY <1>9, <2>1
  <2>5. \A i \in (1 + 1)..4 : html[i] \notin Panels
    <3>1. \A i \in 2..4 : i \in 1..4
      OBVIOUS
    <3>. QED
      BY <1>5, <1>8, <3>1
  <2>6. html[4 + 1] \in Panels
    BY <1>9, <2>1
  <2>. QED
    BY <1>5, <1>9, <1>10, <2>1, <2>2, <2>3, <2>4, <2>5, <2>6
<1>12. Section(text, "todos") = todos
  <2>. HIDE DEF html
  <2>1. "todos" \in Panels /\ "events" \in Panels
    BY DEF Panels
  <2>2. 5 \in 1..Len(html) /\ k + 5 \in 5..Len(html)
    BY <1>7, <1>8
  <2>3. todos \in Seq(T) /\ Len(todos) = k + 1 /\ todos[1] = "todos"
        /\ \A i \in 1..k : todos[i + 1] = h[i]
    <3>. DEFINE head == <<"todos">>
    <3>1. head \in Seq(T) /\ Len(head) = 1 /\ head[1] = "todos"
      BY <1>3
    <3>2. todos = head \o h
      BY <1>1
    <3>. HIDE DEF head
    <3>3. /\ todos \in Seq(T) /\ Len(todos) = 1 + k
          /\ \A i \in 1..1 : todos[i] = head[i]
          /\ \A i \in 1..k : todos[1 + i] = h[i]
      <4>. DEFINE joined == head \o h
      <4>1. /\ joined \in Seq(T) /\ Len(joined) = Len(head) + Len(h)
            /\ \A i \in 1..Len(head) : joined[i] = head[i]
            /\ \A i \in 1..Len(h) : joined[Len(head) + i] = h[i]
        <5>1. head \in Seq(T) /\ h \in Seq(T)
          BY <1>4, <3>1
        <5>. HIDE DEF k
        <5>. QED
          BY <5>1
      <4>2. todos = joined
        BY <3>2
      <4>. HIDE DEF joined
      <4>. QED
        BY <3>1, <4>1, <4>2 DEF k
    <3>4. todos[1] = head[1]
      BY <3>3
    <3>5. \A i \in 1..k : 1 + i = i + 1
      BY <1>7
    <3>. QED
      BY <1>7, <3>1, <3>3, <3>4, <3>5
  <2>4. ASSUME NEW i \in 1..Len(todos) PROVE todos[i] = html[i + 5 - 1]
    <3>1. CASE i = 1
      <4>1. i + 5 - 1 = 5
        BY <3>1
      <4>. QED
        BY <1>9, <2>3, <3>1, <4>1
    <3>2. CASE i # 1
      <4>1. i - 1 \in 1..k /\ (i - 1) + 1 = i /\ (i - 1) + 5 = i + 5 - 1
        BY <1>7, <2>3, <3>2
      <4>. QED
        BY <1>8, <2>3, <4>1
    <3>. QED
      BY <3>1, <3>2
  <2>5. \A i \in 1..Len(html) : html[i] = "todos" => i = 5
    BY <1>9, <2>1
  <2>6. ASSUME NEW i \in (5 + 1)..(k + 5) PROVE html[i] \notin Panels
    <3>1. i \in 1..Len(html) /\ i # 1 /\ i # 5 /\ i # k + 6
      BY <1>7, <1>8
    <3>. QED
      BY <1>9, <3>1
  <2>7. html[(k + 5) + 1] \in Panels
    <3>1. (k + 5) + 1 = k + 6
      BY <1>7
    <3>. QED
      BY <1>9, <2>1, <3>1
  <2>8. Len(todos) = (k + 5) - 5 + 1
    BY <1>7, <2>3
  <2>. QED
    BY <1>9, <1>10, <2>1, <2>2, <2>3, <2>4, <2>5, <2>6, <2>7, <2>8
<1>13. Section(text, "events") = <<"events">>
  <2>. HIDE DEF html
  <2>. DEFINE part == <<"events">>
  <2>1. "events" \in Panels
    BY DEF Panels
  <2>2. k + 6 \in 1..Len(html) /\ k + 6 \in (k + 6)..Len(html) /\ k + 6 = Len(html)
    BY <1>7, <1>8
  <2>3. part \in Seq(T) /\ Len(part) = (k + 6) - (k + 6) + 1
    BY <1>3, <1>7
  <2>4. \A i \in 1..Len(part) : part[i] = html[i + (k + 6) - 1]
    <3>1. \A i \in 1..1 : i + (k + 6) - 1 = k + 6
      BY <1>7
    <3>2. Len(part) = 1 /\ part[1] = "events"
      OBVIOUS
    <3>. HIDE DEF part
    <3>. QED
      BY <1>9, <3>1, <3>2
  <2>5. \A i \in 1..Len(html) : html[i] = "events" => i = k + 6
    BY <1>9, <2>1
  <2>6. \A i \in ((k + 6) + 1)..(k + 6) : html[i] \notin Panels
    BY <1>7
  <2>. HIDE DEF part
  <2>7. Section(text, "events") = part
    BY <1>9, <1>10, <2>1, <2>2, <2>3, <2>4, <2>5, <2>6
  <2>. QED
    BY <2>7 DEF part
<1>14. \A panel \in Panels : Section(text, panel) = Shown(read)[panel]
  BY <1>11, <1>12, <1>13 DEF Panels, Shown, EventsPanel, stats, todos
<1>. QED
  BY <1>14 DEF PanelsOf, Shown

\* A snapshot's parts and its line ends.
LEMMA SnapshotUniform ==
    ASSUME NEW read \in Reads
    PROVE  LET text == (StatsPanel(read) \o TodosPanel(read)) \o EventsPanel IN
           /\ text \in Seq(AllTokens)
           /\ UniformLineEnds(text)
                = (StatsPanel(read) \o UniformLineEnds(TodosPanel(read))) \o EventsPanel
<1>. DEFINE NoEnd(b) == b[1] # "LF"
            Apart(a, b) == UniformLineEnds(a \o b) = UniformLineEnds(a) \o UniformLineEnds(b)
<1>a. \A U, a, b : "LF" \in U /\ a \in Seq(U) /\ b \in Seq(U) /\ NoEnd(b) => Apart(a, b)
  <2>. SUFFICES ASSUME NEW U, NEW a, NEW b, "LF" \in U, a \in Seq(U), b \in Seq(U), b[1] # "LF"
                PROVE  UniformLineEnds(a \o b) = UniformLineEnds(a) \o UniformLineEnds(b)
    OBVIOUS
  <2>. QED
    BY UniformConcat
<1>b. \A U, a : "CR" \notin U /\ a \in Seq(U) => UniformLineEnds(a) = a
  BY UniformStays
<1>. DEFINE T == AllTokens
            stats == StatsPanel(read)
            todos == TodosPanel(read)
            events == EventsPanel
<1>1. /\ RowTokens \subseteq T /\ NumberTokens \subseteq T /\ PanelTokens \subseteq T
      /\ "stats" \in T /\ "events" \in T /\ "LF" \in T
  BY TokensDiffer DEF AllTokens, PanelTokens, Panels
<1>2. stats \in Seq(T) /\ UniformLineEnds(stats) = stats
  <2>. DEFINE U == NumberTokens \cup {"stats"}
  <2>1. PICK a, b, c \in NumberTokens : stats = <<"stats", a, b, c>>
    BY StatsTyped
  <2>2. "CR" \notin U /\ U \subseteq T
    BY <1>1, NumbersDiffer
  <2>3. a \in U /\ b \in U /\ c \in U /\ "stats" \in U
    OBVIOUS
  <2>. HIDE DEF U, T, stats
  <2>4. stats \in Seq(U)
    BY <2>1, <2>3
  <2>. QED
    BY <1>b, <2>2, <2>4
<1>3. todos \in Seq(T) /\ todos[1] = "todos"
  <2>1. todos \in Seq(PanelTokens) /\ todos[1] = "todos"
    BY TodosTold
  <2>. HIDE DEF T, todos
  <2>. QED
    BY <1>1, <2>1
<1>4. events \in Seq(T) /\ events[1] = "events" /\ UniformLineEnds(events) = events
  <2>. DEFINE U == {"events"}
  <2>1. "CR" \notin U /\ U \subseteq T /\ "events" \in U
    BY <1>1
  <2>2. events = <<"events">>
    BY DEF EventsPanel
  <2>. HIDE DEF U, T, events
  <2>3. events \in Seq(U) /\ events[1] = "events"
    BY <2>1, <2>2
  <2>. QED
    BY <1>b, <2>1, <2>3
<1>. HIDE DEF T, stats, todos, events
<1>5. stats \o todos \in Seq(T) /\ (stats \o todos) \o events \in Seq(T)
  BY <1>2, <1>3, <1>4
<1>6. UniformLineEnds(stats \o todos) = stats \o UniformLineEnds(todos)
  <2>1. NoEnd(todos)
    BY <1>3
  <2>. HIDE DEF NoEnd
  <2>. HIDE DEF Apart
  <2>2. Apart(stats, todos)
    <3>1. "LF" \in T
      BY <1>1
    <3>2. stats \in Seq(T)
      BY <1>2
    <3>3. todos \in Seq(T)
      BY <1>3
    <3>. QED
      BY <1>a, <2>1, <3>1, <3>2, <3>3
  <2>. QED
    BY <1>2, <2>2 DEF Apart
<1>7. UniformLineEnds((stats \o todos) \o events) = (stats \o UniformLineEnds(todos)) \o events
  <2>. DEFINE both == stats \o todos
  <2>1. NoEnd(events) /\ both \in Seq(T)
    BY <1>4, <1>5
  <2>2. UniformLineEnds(both) = stats \o UniformLineEnds(todos)
    BY <1>6
  <2>. HIDE DEF both, NoEnd, Apart
  <2>3. Apart(both, events)
    BY <1>a, <1>1, <1>4, <2>1
  <2>4. UniformLineEnds(both \o events) = (stats \o UniformLineEnds(todos)) \o events
    BY <1>4, <2>2, <2>3 DEF Apart
  <2>. QED
    BY <2>4 DEF both
<1>. QED
  BY <1>5, <1>7 DEF T, stats, todos, events

\* A page and an answer show what was read.
LEMMA RenderedShown ==
    ASSUME NEW view \in Views
    PROVE  /\ view.listed \in Reads
           /\ renderSnapshot(view) \in Seq(AllTokens)
           /\ PanelsOf(renderSnapshot(view)) = Shown(view.listed)
           /\ PanelsOf(UniformLineEnds(renderSnapshot(view))) = Shown(view.listed)
<1>a. \A U, a : "CR" \notin U /\ a \in Seq(U) => UniformLineEnds(a) = a
  BY UniformStays
<1>b. \A U, a : "LF" \in U /\ a \in Seq(U) => UniformLineEnds(a) \in Seq(U \ {"CR"})
  BY UniformTyped
<1>c. \A text : \A read \in Reads :
          UniformLineEnds(text)
            = (StatsPanel(read) \o UniformLineEnds(TodosPanel(read))) \o EventsPanel
          => PanelsOf(text) = Shown(read)
  BY SnapshotSections
<1>. DEFINE read == view.listed
            text == renderSnapshot(view)
            plain == UniformLineEnds(text)
            parts == (StatsPanel(read) \o UniformLineEnds(TodosPanel(read))) \o EventsPanel
<1>1. read \in Reads
  BY DEF Views
<1>2. text = (StatsPanel(read) \o TodosPanel(read)) \o EventsPanel
  BY Zenon DEF renderSnapshot, Stats
<1>3. text \in Seq(AllTokens) /\ plain = parts
  BY <1>1, <1>2, SnapshotUniform
<1>4. "LF" \in AllTokens
  BY TokensDiffer DEF AllTokens, PanelTokens
<1>. HIDE DEF parts, read
<1>5. UniformLineEnds(plain) = plain
  <2>. HIDE DEF text
  <2>1. plain \in Seq(AllTokens \ {"CR"})
    BY <1>b, <1>3, <1>4
  <2>. HIDE DEF plain
  <2>. QED
    BY <1>a, <2>1
<1>6. PanelsOf(text) = Shown(read) /\ PanelsOf(plain) = Shown(read)
  BY <1>c, <1>1, <1>3, <1>5 DEF parts
<1>. QED
  BY <1>1, <1>3, <1>6 DEF read

\* And so does the stream, after the snapshot was cut into lines and joined.
LEMMA StreamedShown ==
    ASSUME NEW view \in Views
    PROVE  PanelsOf(Last(EventSource(writeSSE("snapshot", renderSnapshot(view)))).data)
             = Shown(view.listed)
<1>a. \A U, e, data :
          /\ "LF" \in U /\ "data:" \in U /\ "event:" \in U /\ Space \in U
          /\ e \in U /\ e \notin {"CR", "LF"} /\ data \in Seq(U)
          => EventSource(writeSSE(e, data)) = << [type |-> <<e>>, data |-> UniformLineEnds(data)] >>
  BY EventIsWhole
<1>. DEFINE T == AllTokens \cup {"LF", "data:", "event:", Space, "snapshot"}
            text == renderSnapshot(view)
            event == [type |-> <<"snapshot">>, data |-> UniformLineEnds(text)]
<1>1. /\ "LF" \in T /\ "data:" \in T /\ "event:" \in T /\ Space \in T
      /\ "snapshot" \in T /\ "snapshot" \notin {"CR", "LF"} /\ AllTokens \subseteq T
  OBVIOUS
<1>2. text \in Seq(AllTokens) /\ PanelsOf(UniformLineEnds(text)) = Shown(view.listed)
  BY RenderedShown
<1>. HIDE DEF T, text
<1>3. text \in Seq(T)
  BY <1>1, <1>2
<1>4. EventSource(writeSSE("snapshot", text)) = << event >>
  BY <1>a, <1>1, <1>3
<1>5. Last(<< event >>) = event /\ event.data = UniformLineEnds(text)
  <2>1. event.data = UniformLineEnds(text)
    OBVIOUS
  <2>. HIDE DEF event
  <2>2. Last(<< event >>) = event
    BY DEF Last
  <2>. QED
    BY <2>1, <2>2
<1>. HIDE DEF event
<1>6. PanelsOf(Last(EventSource(writeSSE("snapshot", text))).data) = Shown(view.listed)
  BY <1>2, <1>4, <1>5
<1>. QED
  BY <1>6 DEF text

\* Whatever is shown was read.
LEMMA WhatIsShown == \A panels \in Rendered \cup Streamed : \E read \in Reads : panels = Shown(read)
<1>1. ASSUME NEW panels \in Rendered PROVE \E read \in Reads : panels = Shown(read)
  <2>1. PICK view \in Views : panels = PanelsOf(renderSnapshot(view))
    BY DEF Rendered
  <2>. QED
    BY <2>1, RenderedShown
<1>2. ASSUME NEW panels \in Streamed PROVE \E read \in Reads : panels = Shown(read)
  <2>1. PICK view \in Views :
            panels = PanelsOf(Last(EventSource(writeSSE("snapshot", renderSnapshot(view)))).data)
    BY Zenon DEF Streamed
  <2>2. view.listed \in Reads
    BY RenderedShown
  <2>. QED
    BY <2>1, <2>2, StreamedShown
<1>. QED
  BY <1>1, <1>2

-----------------------------------------------------------------------------
(* What the panels in the page show                                        *)

Truthful(panels) == \E read \in Reads : panels = Shown(read)

AllOrNothing(r) == r.oob = {} \/ r.oob = Panels

\* The panels in the page are those of one read, and so are those on their way.
PanelsInv == Truthful(page.panels) /\ \A s \in Slots : AllOrNothing(requests[s])

LEMMA WhatIsTruthful == \A panels \in Rendered \cup Streamed : Truthful(panels)
  BY WhatIsShown DEF Truthful

\* A text with something before it is not empty.
LEMMA MoreThanNothing ==
    ASSUME NEW T, NEW a \in Seq(T), NEW b \in Seq(T)
    PROVE  Len(a) = 1 => a \o b # <<>>
<1>1. Len(a \o b) = Len(a) + Len(b)
  OBVIOUS
<1>2. Len(b) \in Nat
  OBVIOUS
<1>3. Len(a) = 1 => Len(a \o b) # 0
  BY <1>1, <1>2
<1>. QED
  BY <1>3

\* Every panel is rendered as something, so htmx finds it.
LEMMA NoEmptyPanel ==
    ASSUME NEW panels, Truthful(panels), NEW panel \in Panels
    PROVE  panels[panel] # <<>>
<1>1. PICK read \in Reads : panels = Shown(read)
  BY DEF Truthful
<1>2. StatsPanel(read) # <<>>
  <2>1. PICK a, b, c \in NumberTokens : StatsPanel(read) = <<"stats", a, b, c>>
    BY StatsTyped
  <2>. QED
    BY <2>1
<1>3. UniformLineEnds(TodosPanel(read)) # <<>>
  <2>1. PICK h : /\ h \in Seq(RowTokens \ {"CR"})
                 /\ UniformLineEnds(TodosPanel(read)) = <<"todos">> \o h
    BY TodosTold
  <2>. DEFINE T == PanelTokens
              head == <<"todos">>
  <2>2. h \in Seq(T) /\ head \in Seq(T) /\ Len(head) = 1
    <3>1. "todos" \in T /\ RowTokens \subseteq T
      BY DEF PanelTokens
    <3>. HIDE DEF T
    <3>. QED
      BY <2>1, <3>1
  <2>. HIDE DEF T, head
  <2>3. head \o h # <<>>
    BY <2>2, MoreThanNothing
  <2>. QED
    BY <2>1, <2>3 DEF head
<1>4. EventsPanel # <<>>
  BY DEF EventsPanel
<1>. QED
  BY <1>1, <1>2, <1>3, <1>4 DEF Shown, Panels

\* All panels are replaced, or none.
LEMMA OobTruthful ==
    ASSUME NEW p, IsPage(p), Truthful(p.panels), NEW parts, parts = {} \/ parts = Panels,
           NEW panels, Truthful(panels)
    PROVE  Truthful(Oob(p, parts, panels).panels)
<1>1. "composer" \notin parts
  BY DEF Panels
<1>. DEFINE new == [panel \in Panels |->
                       IF panel \in parts /\ panels[panel] # <<>> THEN panels[panel]
                       ELSE p.panels[panel]]
<1>2. Oob(p, parts, panels).panels = new
  <2>1. Oob(p, parts, panels) = [p EXCEPT !.panels = new]
    BY <1>1 DEF Oob
  <2>. HIDE DEF new
  <2>. QED
    BY <2>1 DEF IsPage
<1>3. \A some : Truthful(some) => some = [panel \in Panels |-> some[panel]]
  BY DEF Truthful, Shown
<1>4. CASE parts = {}
  <2>1. new = [panel \in Panels |-> p.panels[panel]]
    BY <1>4
  <2>2. new = p.panels
    BY <1>3, <2>1
  <2>. QED
    BY <1>2, <2>2
<1>5. CASE parts = Panels
  <2>1. \A panel \in Panels : panels[panel] # <<>>
    BY NoEmptyPanel
  <2>2. new = [panel \in Panels |-> panels[panel]]
    BY <1>5, <2>1
  <2>3. new = panels
    BY <1>3, <2>2
  <2>. QED
    BY <1>2, <2>3
<1>. QED
  BY <1>4, <1>5

\* A new composer leaves the panels alone,
LEMMA NewComposerPanels ==
    ASSUME NEW p, IsPage(p), NEW error
    PROVE  NewComposer(p, error).panels = p.panels
  BY DEF NewComposer, HxSwap, IsPage

\* and so does what comes with it,
LEMMA InsertedPanels ==
    ASSUME NEW p, IsPage(p), NEW parts
    PROVE  Inserted(p, parts).panels = p.panels
  BY DEF Inserted, IsPage

\* and what happens in the composer.
LEMMA ComposerPanels ==
    ASSUME NEW p, IsPage(p), NEW c
    PROVE  [p EXCEPT !.composer = c].panels = p.panels
  BY DEF IsPage

\* What has no part in it.
LEMMA SamePanels ==
    ASSUME PanelsInv, page'.panels = page.panels,
           \A t \in Slots : requests'[t].oob = requests[t].oob \/ AllOrNothing(requests'[t])
    PROVE  PanelsInv'
<1>1. Truthful(page'.panels)
  BY DEF PanelsInv
<1>2. \A t \in Slots : AllOrNothing(requests'[t])
  BY DEF PanelsInv, AllOrNothing
<1>. QED
  BY <1>1, <1>2 DEF PanelsInv

LEMMA RequestOob == \A what, row : Request(what, row).oob = {}
  BY DEF Request, Idle

\* A request that is sent brings no panels yet.
LEMMA SendPanels ==
    ASSUME PageInv, NEW s, NEW what, NEW row, Send(s, what, row), NEW t \in Slots
    PROVE  requests'[t].oob = requests[t].oob \/ requests'[t].oob = {}
<1>1. requests[t] \in RequestSet
  BY TypeOKParts DEF PageInv
<1>2. CASE t = s
  BY <1>2, RequestOob DEF Send
<1>3. CASE t # s
  <2>. DEFINE flag == requests[t].newest /\ what \notin Submissions
  <2>1. requests'[t] = [requests[t] EXCEPT !.newest = flag]
    BY <1>3 DEF Send
  <2>. HIDE DEF flag
  <2>. QED
    BY <1>1, <2>1 DEF RequestSet
<1>. QED
  BY <1>2, <1>3

\* Nor does a button that is pressed.
LEMMA PressPanels ==
    ASSUME PageInv, PanelsInv, NEW what, NEW row, Press(what, row) PROVE PanelsInv'
<1>. DEFINE busy == {s \in UnderWay : requests[s].what = what /\ requests[s].row = row
                                     /\ ~requests[s].gone}
<1>1. CASE requests' = [s \in Slots |-> [requests[s] EXCEPT !.again = @ \/ s \in busy]]
  <2>1. ASSUME NEW t \in Slots PROVE requests'[t].oob = requests[t].oob
    <3>. DEFINE flag == requests[t].again \/ t \in busy
    <3>1. requests'[t] = [requests[t] EXCEPT !.again = flag]
      BY <1>1
    <3>2. requests[t] \in RequestSet
      BY TypeOKParts DEF PageInv
    <3>. HIDE DEF flag
    <3>. QED
      BY <3>1, <3>2 DEF RequestSet
  <2>. QED
    BY <2>1, SamePanels DEF Press
<1>2. CASE Send(CHOOSE s \in Slots \ UnderWay : TRUE, what, row)
  BY <1>2, SendPanels, SamePanels DEF Press, AllOrNothing
<1>. QED
  BY <1>1, <1>2 DEF Press

\* An answer brings all panels or none.
LEMMA AnswerPanels ==
    ASSUME PageInv, NEW s \in Slots, NEW main, NEW parts, Answer(s, main, parts),
           parts = {} \/ parts = Panels, NEW t \in Slots
    PROVE  requests'[t].oob = requests[t].oob \/ AllOrNothing(requests'[t])
<1>1. requests \in [Slots -> RequestSet] /\ requests[t] \in RequestSet
  BY TypeOKParts DEF PageInv
<1>2. CASE t = s
  <2>1. requests'[t] = [requests[t] EXCEPT !.phase = "answered", !.main = main, !.oob = parts]
    BY <1>1, <1>2 DEF Answer
  <2>2. requests'[t].oob = parts
    BY <1>1, <2>1 DEF RequestSet
  <2>. QED
    BY <2>2 DEF AllOrNothing
<1>3. CASE t # s
  BY <1>1, <1>3 DEF Answer
<1>. QED
  BY <1>2, <1>3

\* The handlers show nothing themselves.
LEMMA HandlePanels ==
    ASSUME PageInv, PanelsInv, NEW s \in Slots, Handle(s) PROVE PanelsInv'
<1>1. \E main, parts : Answer(s, main, parts) /\ (parts = {} \/ parts = Panels)
  BY DEF Handle, formError, createTodo, createTodoFails, clearComposer, changeTodo, home,
         Fail, Redirect, serverError, SnapshotParts
<1>2. page' = page \/ Accepted(s)
  BY DEF Handle, formError, createTodo, createTodoFails, clearComposer, changeTodo, home, Fail
<1>3. page'.panels = page.panels
  <2>1. CASE page' # page
    <3>. DEFINE n == IF page.composer.accepted < 2 THEN page.composer.accepted + 1
                     ELSE page.composer.accepted
                c == [page.composer EXCEPT !.accepted = n]
    <3>1. page' = [page EXCEPT !.composer = c]
      BY <1>2, <2>1 DEF Accepted
    <3>. HIDE DEF c
    <3>. QED
      BY <3>1, ComposerPanels DEF PageInv
  <2>. QED
    BY <2>1
<1>. QED
  BY <1>1, <1>3, AnswerPanels, SamePanels

\* What loses its button keeps its panels.
LEMMA DetachOob ==
    ASSUME NEW r \in RequestSet, NEW kinds, NEW target, NEW flag
    PROVE  [Detach(r, kinds, target) EXCEPT !.newest = flag].oob = r.oob
           /\ Detach(r, kinds, target).oob = r.oob
<1>. DEFINE g == r.gone \/ r.what \in kinds
            e == r.stale \/ (target /\ r.what \in InComposer \cup {"pulse"})
<1>1. Detach(r, kinds, target) = [r EXCEPT !.gone = g, !.stale = e]
  BY DEF Detach
<1>. HIDE DEF g, e
<1>. QED
  BY <1>1 DEF RequestSet

\* An answer shows what was read for it.
LEMMA ArrivePanels ==
    ASSUME PageInv, PanelsInv, NEW s \in Slots, NEW panels, Truthful(panels), Arrive(s, panels)
    PROVE  PanelsInv'
<1>. DEFINE r == requests[s]
            shown == oob /\ ~r.gone
            swapped == IF shown THEN r.oob ELSE {}
            document == r.main \in {"page", "page with error"}
            replaced == r.main \notin {"none", "failed"} /\ ~r.stale /\ HxSwap # "none"
            whole == (replaced /\ HxSwap = "outerHTML") \/ "composer" \in swapped
            kinds == Lost(swapped, replaced \/ whole)
            p == Oob(page, swapped, panels)
            error == CASE r.main = "error" -> "verdict"
                       [] r.main = "page with error" -> "url"
                       [] OTHER -> "none"
            parts == IF document THEN Panels ELSE IF oob THEN {} ELSE r.oob
            n == NewComposer(p, error)
            q == IF replaced THEN Inserted(n, parts) ELSE p
            resent == /\ r.again /\ ~r.gone /\ r.what \notin kinds
                      /\ r.what = "create" => page.composer.text # "none"
            again == resent /\ r.what = "create"
            c == [q.composer EXCEPT !.failed =
                     @ \/ (r.main = "failed" /\ r.what = "create" /\ ~r.gone)]
<1>1. /\ page' = [q EXCEPT !.composer = c]
      /\ requests' = [t \in Slots |->
             IF t = s THEN IF resent THEN Request(r.what, r.row) ELSE Idle
             ELSE [Detach(requests[t], kinds, whole) EXCEPT !.newest = @ /\ ~again]]
  BY Zenon DEF Arrive
<1>2. IsPage(page) /\ RequestInv(s) /\ requests \in [Slots -> RequestSet]
  BY TypeOKParts DEF PageInv
<1>3. swapped = {} \/ swapped = Panels
  BY DEF PanelsInv, AllOrNothing
<1>4. swapped \in SUBSET Panels
  BY <1>3
<1>. HIDE DEF swapped
<1>5. IsPage(p) /\ Truthful(p.panels)
  BY <1>2, <1>3, <1>4, OobPage, OobTruthful DEF PanelsInv
<1>6. error \in {"none", "verdict", "url"}
  OBVIOUS
<1>. HIDE DEF p, error, c, parts, replaced, kinds, whole, resent, again
<1>7. IsPage(n) /\ n.panels = p.panels
  BY <1>5, <1>6, NewComposerPage, NewComposerPanels
<1>. HIDE DEF n
<1>8. q.panels = p.panels /\ [q EXCEPT !.composer = c].panels = q.panels
  <2>1. CASE replaced
    <3>1. Inserted(n, parts) = [n EXCEPT !.copies = [id \in Ids |->
                                    IF id \in parts THEN n.copies[id] + 1 ELSE n.copies[id]]]
      BY DEF Inserted
    <3>. DEFINE copies == [id \in Ids |-> IF id \in parts THEN n.copies[id] + 1 ELSE n.copies[id]]
    <3>. HIDE DEF copies
    <3>2. q = [n EXCEPT !.copies = copies]
      BY <2>1, <3>1 DEF copies
    <3>. QED
      BY <1>7, <3>2 DEF IsPage
  <2>2. CASE ~replaced
    <3>1. q = p
      BY <2>2
    <3>. HIDE DEF q
    <3>. QED
      BY <1>5, <3>1, ComposerPanels
  <2>. QED
    BY <2>1, <2>2
<1>. HIDE DEF q
<1>9. Truthful(page'.panels)
  BY <1>1, <1>5, <1>8
<1>10. ASSUME NEW t \in Slots PROVE AllOrNothing(requests'[t])
  <2>1. CASE t = s
    <3>1. requests'[t] = Request(r.what, r.row) \/ requests'[t] = Idle
      BY <1>1, <2>1
    <3>2. requests'[t].oob = {}
      BY <3>1, RequestOob, IdleTyped
    <3>. QED
      BY <3>2 DEF AllOrNothing
  <2>2. CASE t # s
    <3>. DEFINE d == Detach(requests[t], kinds, whole)
                flag == d.newest /\ ~again
    <3>1. requests'[t] = [d EXCEPT !.newest = flag]
      BY <1>1, <2>2
    <3>2. requests[t] \in RequestSet
      BY <1>2
    <3>. HIDE DEF flag
    <3>3. requests'[t].oob = requests[t].oob
      BY <3>1, <3>2, DetachOob
    <3>. QED
      BY <3>3 DEF PanelsInv, AllOrNothing
  <2>. QED
    BY <2>1, <2>2
<1>. QED
  BY <1>9, <1>10 DEF PanelsInv

\* So does a new page.
LEMMA OpenPagePanels ==
    ASSUME PageInv, PanelsInv, NEW s \in Slots, NEW panels, Truthful(panels), OpenPage(s, panels)
    PROVE  PanelsInv'
<1>1. CASE requests' = [requests EXCEPT ![s] = Idle] /\ UNCHANGED <<page, last>>
  <2>1. requests \in [Slots -> RequestSet]
    BY TypeOKParts DEF PageInv
  <2>2. \A t \in Slots : requests'[t] = requests[t] \/ requests'[t] = Idle
    BY <1>1, <2>1
  <2>. QED
    BY <1>1, <2>2, IdleTyped, SamePanels DEF AllOrNothing
<1>2. CASE /\ page' = Home(panels, requests[s].main = "page with error")
           /\ requests' = [t \in Slots |-> Idle]
  <2>1. page'.panels = panels
    BY <1>2 DEF Home
  <2>2. \A t \in Slots : AllOrNothing(requests'[t])
    BY <1>2, IdleTyped DEF AllOrNothing
  <2>. QED
    BY <2>1, <2>2 DEF PanelsInv
<1>. QED
  BY <1>1, <1>2 DEF OpenPage

\* And so does the stream.
LEMMA ShowStreamedPanels ==
    ASSUME PageInv, PanelsInv, NEW panels, Truthful(panels), ShowStreamed(panels)
    PROVE  PanelsInv'
<1>. DEFINE kinds == Lost(Panels, "composer" \in Panels)
            target == "composer" \in Panels
<1>1. oob = TRUE
  BY DEF oob
<1>2. /\ page' = Oob(page, Panels, panels)
      /\ requests' = [t \in Slots |-> Detach(requests[t], kinds, target)]
  BY <1>1, Zenon DEF ShowStreamed, SnapshotParts
<1>. HIDE DEF kinds, target
<1>3. Truthful(page'.panels)
  BY <1>2, OobTruthful DEF PageInv, PanelsInv
<1>4. ASSUME NEW t \in Slots PROVE AllOrNothing(requests'[t])
  <2>1. requests[t] \in RequestSet /\ requests'[t] = Detach(requests[t], kinds, target)
    BY <1>2, TypeOKParts DEF PageInv
  <2>2. requests'[t].oob = requests[t].oob
    BY <2>1, DetachOob
  <2>. QED
    BY <2>2 DEF PanelsInv, AllOrNothing
<1>. QED
  BY <1>3, <1>4 DEF PanelsInv

LEMMA PanelsInvStep == PageInv /\ PanelsInv /\ [Next]_vars => PanelsInv'
<1>. SUFFICES ASSUME PageInv, PanelsInv, [Next]_vars PROVE PanelsInv'
  OBVIOUS
<1>1. CASE UNCHANGED vars
  BY <1>1, SamePanels DEF vars
<1>2. ASSUME NEW text, Type(text) PROVE PanelsInv'
  <2>. DEFINE c == [page.composer EXCEPT !.text = text]
  <2>1. page' = [page EXCEPT !.composer = c]
    BY <1>2 DEF Type
  <2>. HIDE DEF c
  <2>2. page'.panels = page.panels
    BY <2>1, ComposerPanels DEF PageInv
  <2>. QED
    BY <1>2, <2>2, SamePanels DEF Type
<1>3. CASE ScriptLoads
  <2>1. page'.panels = page.panels
    BY <1>3 DEF ScriptLoads, PageInv, IsPage
  <2>. QED
    BY <1>3, <2>1, SamePanels DEF ScriptLoads
<1>4. ASSUME NEW what, NEW row, Press(what, row) PROVE PanelsInv'
  BY <1>4, PressPanels
<1>5. ASSUME NEW what, Navigate(what) PROVE PanelsInv'
  <2>1. page'.panels = page.panels
    BY <1>5, NavigateEffect
  <2>. QED
    BY <1>5, <2>1, SendPanels, SamePanels DEF Navigate, AllOrNothing
<1>6. ASSUME NEW s \in Slots, Handle(s) PROVE PanelsInv'
  BY <1>6, HandlePanels
<1>7. ASSUME NEW panels \in Rendered, NEW s \in Slots, Arrive(s, panels) \/ OpenPage(s, panels)
      PROVE  PanelsInv'
  BY <1>7, WhatIsTruthful, ArrivePanels, OpenPagePanels
<1>8. ASSUME NEW panels \in Streamed, ShowStreamed(panels) PROVE PanelsInv'
  BY <1>8, WhatIsTruthful, ShowStreamedPanels
<1>. QED
  BY <1>1, <1>2, <1>3, <1>4, <1>5, <1>6, <1>7, <1>8 DEF Next, PressRow

LEMMA PanelsInvInit == Init => PanelsInv
<1>. SUFFICES ASSUME Init PROVE PanelsInv
  OBVIOUS
<1>1. PICK panels \in Rendered : page = Home(panels, FALSE)
  BY DEF Init
<1>2. page.panels = panels
  BY <1>1 DEF Home
<1>3. \A s \in Slots : AllOrNothing(requests[s])
  BY IdleTyped DEF Init, AllOrNothing
<1>. QED
  BY <1>2, <1>3, WhatIsTruthful DEF PanelsInv

\* Texts that are the same behind the same are the same.
LEMMA SameAfter ==
    ASSUME NEW T, NEW head \in Seq(T), NEW a \in Seq(T), NEW b \in Seq(T), head \o a = head \o b
    PROVE  a = b
<1>0. ASSUME NEW x \in Seq(T)
      PROVE  /\ Len(head \o x) = Len(head) + Len(x)
             /\ \A i \in 1..Len(x) : (head \o x)[Len(head) + i] = x[i]
  OBVIOUS
<1>1. Len(a) = Len(b)
  <2>1. Len(head) + Len(a) = Len(head) + Len(b)
    BY <1>0
  <2>2. Len(head) \in Nat /\ Len(a) \in Nat /\ Len(b) \in Nat
    OBVIOUS
  <2>. QED
    BY <2>1, <2>2
<1>2. ASSUME NEW i \in 1..Len(a) PROVE a[i] = b[i]
  <2>1. (head \o a)[Len(head) + i] = a[i] /\ (head \o b)[Len(head) + i] = b[i]
    BY <1>0, <1>1
  <2>. QED
    BY <2>1
<1>. QED
  BY <1>1, <1>2, SeqEqual

\* The same rows have the same numbers.
LEMMA TruthfulNumbers == PanelsInv => StatsTellRows
<1>. SUFFICES ASSUME PanelsInv, NEW fact \in Truth, page.panels["todos"] = fact.todos
              PROVE  page.panels["stats"] = fact.stats
  BY DEF StatsTellRows
<1>a. PICK one \in Reads : page.panels = Shown(one)
  BY DEF PanelsInv, Truthful
<1>b. PICK other \in Reads : /\ fact.todos = UniformLineEnds(TodosPanel(other))
                             /\ fact.stats = StatsPanel(other)
  <2>1. PICK other \in Reads :
            fact = [todos |-> UniformLineEnds(TodosPanel(other)), stats |-> StatsPanel(other)]
    BY Zenon DEF Truth
  <2>. QED
    BY <2>1
<1>1. /\ page.panels["stats"] = StatsPanel(one)
      /\ page.panels["todos"] = UniformLineEnds(TodosPanel(one))
  BY <1>a DEF Shown, Panels
<1>2. PICK h : /\ h \in Seq(RowTokens \ {"CR"}) /\ Tells(h, one, Existing(one))
               /\ UniformLineEnds(TodosPanel(one)) = <<"todos">> \o h
  BY TodosTold
<1>3. PICK g : /\ g \in Seq(RowTokens \ {"CR"}) /\ Tells(g, other, Existing(other))
               /\ UniformLineEnds(TodosPanel(other)) = <<"todos">> \o g
  BY TodosTold
<1>4. h = g
  <2>. DEFINE T == PanelTokens
              head == <<"todos">>
  <2>1. h \in Seq(T) /\ g \in Seq(T) /\ head \in Seq(T) /\ Len(head) = 1
    <3>1. "todos" \in T /\ RowTokens \subseteq T
      BY DEF PanelTokens
    <3>. HIDE DEF T
    <3>. QED
      BY <1>2, <1>3, <3>1
  <2>2. head \o h = head \o g
    BY <1>b, <1>1, <1>2, <1>3
  <2>. HIDE DEF T, head
  <2>. QED
    BY <2>1, <2>2, SameAfter
<1>. QED
  BY <1>b, <1>1, <1>2, <1>3, <1>4, TellingCounts

\* And every panel is the one that was rendered.
LEMMA TruthfulWhole == PanelsInv => PanelsAreWhole
<1>. SUFFICES ASSUME NEW read \in Reads, page.panels = Shown(read) PROVE PanelsAreWhole
  BY DEF PanelsInv, Truthful
<1>1. /\ page.panels["todos"] = UniformLineEnds(TodosPanel(read))
      /\ page.panels["events"] = EventsPanel
  BY DEF Shown, Panels
<1>. DEFINE fact == [todos |-> UniformLineEnds(TodosPanel(read)), stats |-> StatsPanel(read)]
<1>2. fact \in Truth /\ fact.todos = UniformLineEnds(TodosPanel(read))
  BY DEF Truth
<1>. HIDE DEF fact
<1>. QED
  BY <1>1, <1>2 DEF PanelsAreWhole

LEMMA PanelsInvAlways == Spec => []PanelsInv
  BY PageInvInit, PageInvStep, PanelsInvInit, PanelsInvStep, PTL DEF Spec

\* The numbers of a snapshot are those of the rows below them, although todos
\* change between the queries it is made of (app.go:509-545).
THEOREM StatsAlwaysTellRows == Spec => []StatsTellRows
  BY PanelsInvAlways, TruthfulNumbers, PTL

\* No panel is ever cut short, over the stream as well (app.go:460-473).
THEOREM PanelsAreAlwaysWhole == Spec => []PanelsAreWhole
  BY PanelsInvAlways, TruthfulWhole, PTL
=============================================================================
