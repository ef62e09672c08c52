----------------------------- MODULE Portfolio -----------------------------
(***************************************************************************)
(* The saved list of holdings, from the browser to the row: static/app.js  *)
(* in one page per window, the edge worker, the guard and the handlers of  *)
(* web.py, and Dashboard.get, save and valuation over the one row of table *)
(* portfolio.                                                              *)
(*                                                                         *)
(* A list is the set of the edits it contains (adding, changing or         *)
(* deleting a row, or importing a file, is an edit), so that a save that   *)
(* overwrites another window's save shows as an edit that is gone.  docs   *)
(* is every document the row ever held: revision i is docs[i], the last    *)
(* one is the row.                                                         *)
(*                                                                         *)
(* Every request may be refused before its handler, fail in it, or be cut  *)
(* while the handler still runs or is yet to run: the page then does not   *)
(* know whether it was applied.  A refused token is renewed and the request*)
(* made once more, which is the same request still waiting.                *)
(***************************************************************************)
EXTENDS Naturals, Sequences, FiniteSets

CONSTANTS
    Window,
    Edit,
    Market,        \* the choices of the market filter
    MaxRevision,   \* bound: documents ever saved
    MaxValuing     \* bound: valuation calls of a page at one time

ASSUME PortfolioAssumption ==
    /\ Market # {}
    /\ MaxRevision \in Nat \ {0}
    /\ MaxValuing \in Nat

VARIABLES
    docs,          \* the documents of table portfolio, oldest first; stale is
                   \* history: saved from a draft that went through two logins
    adrift,        \* saves whose page stopped waiting, not yet handled
    page,          \* the script's variables of each window
    stored,        \* the draft in sessionStorage of each window
    open,          \* the windows the user has
    saving,        \* the PUT of each window
    valuing,       \* the valuation calls of each window
    edits          \* history: what became of each edit by its user

vars == <<docs, adrift, open, page, stored, saving, valuing, edits>>

NoDraft == [rows |-> {}, revision |-> 0, logins |-> 0]

\* A page before its first answers: saved = null.
Blank(market) ==
    [saved |-> 0, draft |-> {}, dirty |-> FALSE, recovered |-> 0, logins |-> 0,
     market |-> market, screen |-> "old"]

NoSave == [on |-> FALSE, revision |-> 0, rows |-> {}, got |-> 0, stale |-> FALSE]

Revisions == 0..MaxRevision

Valuing == [market : Market, current : BOOLEAN, ofSave : BOOLEAN, answer : Revisions]

Document == [rows : SUBSET Edit, stale : BOOLEAN]
Page     == [saved : Revisions, draft : SUBSET Edit, dirty : BOOLEAN, recovered : Revisions,
             logins : 0..2, market : Market, screen : {"old", "current", "failed"}]
Stored   == [rows : SUBSET Edit, revision : Revisions, logins : 0..2]
Saving   == [on : BOOLEAN, revision : Revisions, rows : SUBSET Edit, got : Revisions,
             stale : BOOLEAN]

TypeOK ==
    /\ docs \in Seq(Document) /\ Len(docs) \in 1..MaxRevision
    /\ adrift \subseteq Document
    /\ open \subseteq Window
    /\ page \in [Window -> Page]
    /\ stored \in [Window -> Stored]
    /\ saving \in [Window -> Saving]
    /\ valuing \in [Window -> SUBSET Valuing]
    /\ edits \in [Edit -> {"unmade", "made", "discarded"}]
    /\ \A w \in Window :
          /\ page[w].saved <= Len(docs) /\ saving[w].got <= Len(docs)
          /\ saving[w].on => page[w].saved # 0

Init ==
    /\ docs = <<[rows |-> {}, stale |-> FALSE]>>
    /\ adrift = {}
    /\ open \in SUBSET Window \ {{}}
    /\ \E market \in Market : page = [w \in Window |-> Blank(market)]
    /\ stored = [w \in Window |-> NoDraft]
    /\ saving = [w \in Window |-> NoSave]
    /\ valuing = [w \in Window |-> {}]
    /\ edits = [e \in Edit |-> "unmade"]

Row == docs[Len(docs)]

Loaded(w) == page[w].saved # 0

\* Mutant: the base of a save is the document on the page.
BaseOfSaved(w) == page[w].saved

\* recoveredRevision ?? saved.revision
Base(w) == IF page[w].recovered # 0 THEN page[w].recovered ELSE page[w].saved

\* loading is set until the valuation that follows a save has been answered.
Busy(w) == saving[w].on \/ \E v \in valuing[w] : v.ofSave

\* Mutant: calls are not numbered.
WithValuationUnordered(calls, market, ofSave) ==
    calls \cup {[market |-> market, current |-> TRUE, ofSave |-> ofSave, answer |-> 0]}

\* loadValuation: a new sequence number outdates the calls before it.
WithValuation(calls, market, ofSave) ==
    {[v EXCEPT !.current = FALSE] : v \in calls}
        \cup {[market |-> market, current |-> TRUE, ofSave |-> ofSave, answer |-> 0]}

MayValue(w) == Cardinality(valuing[w]) < MaxValuing

\* Bound: valuations get through to a user with one window; with more windows
\* each of them fails at once.
Viewing == Cardinality(open) = 1
Asking(w, market, ofSave) ==
    IF Viewing THEN [valuing EXCEPT ![w] = WithValuation(@, market, ofSave)] ELSE valuing
Awaited == IF Viewing THEN "old" ELSE "failed"

----------------------------------------------------------------------------
(* The page: start, edits, saves. *)

\* The script's start: the saved document, and a draft that was stored before
\* a login.
Load(w) ==
    /\ w \in open /\ ~Loaded(w)
    /\ MayValue(w)
    /\ page' = [page EXCEPT ![w] =
          IF stored[w] # NoDraft
          THEN [@ EXCEPT !.saved = Len(docs), !.screen = Awaited,
                         !.draft = stored[w].rows, !.dirty = TRUE,
                         !.recovered = stored[w].revision, !.logins = stored[w].logins]
          ELSE [@ EXCEPT !.saved = Len(docs), !.screen = Awaited, !.draft = Row.rows]]
    /\ stored' = [stored EXCEPT ![w] = NoDraft]
    /\ valuing' = Asking(w, page[w].market, FALSE)
    /\ UNCHANGED <<docs, adrift, open, saving, edits>>

MakeEdit(w, e) ==
    /\ Loaded(w)
    /\ edits[e] = "unmade"
    /\ page' = [page EXCEPT ![w].draft = @ \cup {e}, ![w].dirty = TRUE]
    /\ edits' = [edits EXCEPT ![e] = "made"]
    /\ UNCHANGED <<docs, adrift, open, stored, saving, valuing>>

\* confirm-import: the file takes the place of the whole draft.
ConfirmImport(w, e) ==
    /\ Loaded(w)
    /\ edits[e] = "unmade"
    /\ page' = [page EXCEPT ![w].draft = {e}, ![w].dirty = TRUE]
    /\ edits' = [d \in Edit |-> IF d = e THEN "made"
                                ELSE IF d \in page[w].draft THEN "discarded" ELSE edits[d]]
    /\ UNCHANGED <<docs, adrift, open, stored, saving, valuing>>

\* A choice of the filter, or settle: a refresh of the saved revision ended
\* (RefreshJobs.tla), and the prices are shown anew.
ShowAgain(w, market) ==
    /\ Loaded(w) /\ MayValue(w)
    /\ page' = [page EXCEPT ![w].market = market,
                            ![w].screen = IF market = page[w].market /\ @ = "current"
                                          THEN @ ELSE Awaited]
    /\ valuing' = Asking(w, market, FALSE)
    /\ UNCHANGED <<docs, adrift, open, stored, saving, edits>>

PressSave(w) ==
    /\ Loaded(w) /\ ~Busy(w)
    /\ saving' = [saving EXCEPT ![w] =
          [on |-> TRUE, revision |-> Base(w), rows |-> page[w].draft, got |-> 0,
           stale |-> page[w].logins > 1]]
    /\ UNCHANGED <<docs, adrift, open, page, stored, valuing, edits>>

\* Dashboard.save under FOR UPDATE: only from the revision in the row.
Accepts(revision) == revision = Len(docs)

\* A save nobody waits for any more may still reach its handler.  One that is
\* not of the row's revision will be refused and is left out.
Abandoned(w) ==
    IF saving[w].on /\ saving[w].got = 0 /\ Accepts(saving[w].revision)
    THEN {{}, {[rows |-> saving[w].rows, stale |-> saving[w].stale]}}
    ELSE {{}}

\* Mutant: the save of the page before is still waited for.
UnloadKeepsSave(w) ==
    /\ page' = [page EXCEPT ![w] = Blank(page[w].market)]
    /\ valuing' = [valuing EXCEPT ![w] = {}]
    /\ UNCHANGED <<docs, open, adrift, saving>>

\* The document is replaced, and with it every call of the page forgotten.
Unload(w) ==
    /\ page' = [page EXCEPT ![w] = Blank(page[w].market)]
    /\ \E left \in Abandoned(w) : adrift' = adrift \cup left
    /\ saving' = [saving EXCEPT ![w] = NoSave]
    /\ valuing' = [valuing EXCEPT ![w] = {}]
    /\ UNCHANGED <<docs, open>>

\* The user reloads, and confirms it when the draft is not saved.
Reload(w) ==
    /\ Loaded(w)
    /\ Unload(w)
    /\ edits' = [e \in Edit |-> IF page[w].dirty /\ e \in page[w].draft
                                THEN "discarded" ELSE edits[e]]
    /\ stored' = stored

\* resumeLogin: a call is cut (any of them, a file's preview too; a refresh
\* once it was repeated or is polled).  An unsaved draft is stored with
\* saved.revision, and the page reloads.  Within a minute of the last one it
\* is an error message instead: SaveFails and ValuationFails.
ResumeLogin(w) ==
    /\ Loaded(w)
    /\ Unload(w)
    /\ stored' = IF page[w].dirty
                 THEN [stored EXCEPT ![w] =
                        [rows |-> page[w].draft, revision |-> page[w].saved,
                         logins |-> IF page[w].logins = 0 THEN 1 ELSE 2]]
                 ELSE stored
    /\ edits' = edits

----------------------------------------------------------------------------
(* The handlers. *)

HandleSave(w) ==
    /\ saving[w].on /\ saving[w].got = 0
    /\ Accepts(saving[w].revision)
    /\ Len(docs) < MaxRevision
    /\ docs' = Append(docs, [rows |-> saving[w].rows, stale |-> saving[w].stale])
    /\ saving' = [saving EXCEPT ![w].got = Len(docs')]
    /\ adrift' = {}
    /\ UNCHANGED <<open, page, stored, valuing, edits>>

\* The same handler, with nobody to answer; or the request never arrives.
HandleAdrift(b) ==
    /\ b \in adrift
    /\ \/ /\ Len(docs) < MaxRevision
          /\ docs' = Append(docs, b)
          /\ adrift' = {}
       \/ docs' = docs /\ adrift' = adrift \ {b}
    /\ UNCHANGED <<open, page, stored, saving, valuing, edits>>

\* Dashboard.valuation reads the row once and answers with its revision.
HandleValuation(w, v) ==
    /\ v \in valuing[w] /\ v.answer = 0
    /\ valuing' = [valuing EXCEPT ![w] = (@ \ {v}) \cup {[v EXCEPT !.answer = Len(docs)]}]
    /\ UNCHANGED <<docs, adrift, open, page, stored, saving, edits>>

----------------------------------------------------------------------------
(* What the page does with the answers. *)

\* Mutant: the draft is replaced although it was edited during the save.
ReceiveSavedOver(w) ==
    /\ saving[w].got # 0
    /\ MayValue(w)
    /\ page' = [page EXCEPT ![w].saved = saving[w].got, ![w].recovered = 0, ![w].logins = 0,
                            ![w].draft = docs[saving[w].got].rows, ![w].dirty = FALSE,
                            ![w].screen = Awaited]
    /\ saving' = [saving EXCEPT ![w] = NoSave]
    /\ valuing' = Asking(w, page[w].market, TRUE)
    /\ UNCHANGED <<docs, adrift, open, stored, edits>>

\* save(): the answer is the new base; a draft edited meanwhile stays unsaved.
ReceiveSaved(w) ==
    /\ saving[w].got # 0
    /\ MayValue(w)
    /\ LET unedited == page[w].draft = saving[w].rows
       IN  page' = [page EXCEPT ![w].saved = saving[w].got, ![w].recovered = 0,
                                ![w].logins = 0,
                                ![w].draft = IF unedited THEN docs[saving[w].got].rows ELSE @,
                                ![w].dirty = @ /\ ~unedited, ![w].screen = Awaited]
    /\ saving' = [saving EXCEPT ![w] = NoSave]
    /\ valuing' = Asking(w, page[w].market, TRUE)
    /\ UNCHANGED <<docs, adrift, open, stored, edits>>

\* Refused by the edge or by validation, a conflict, a 502, 503 or 504, a
\* failed renewal, a cut within the minute: an error and the draft as it is.
SaveFails(w) ==
    /\ saving[w].on
    /\ \E left \in Abandoned(w) : adrift' = adrift \cup left
    /\ saving' = [saving EXCEPT ![w] = NoSave]
    /\ UNCHANGED <<docs, open, page, stored, valuing, edits>>

\* loadValuation: only the last call counts, and only for the saved revision.
ReceiveValuation(w, v) ==
    /\ v \in valuing[w] /\ v.answer # 0
    /\ page' = IF v.current /\ v.answer = page[w].saved
               THEN [page EXCEPT ![w].screen =
                       IF v.market = page[w].market THEN "current" ELSE "old"]
               ELSE page
    /\ valuing' = [valuing EXCEPT ![w] = @ \ {v}]
    /\ UNCHANGED <<docs, adrift, open, stored, saving, edits>>

ValuationFails(w, v) ==
    /\ v \in valuing[w]
    /\ page' = [page EXCEPT ![w].screen = IF v.current /\ @ = "old" THEN "failed" ELSE @]
    /\ valuing' = [valuing EXCEPT ![w] = @ \ {v}]
    /\ UNCHANGED <<docs, adrift, open, stored, saving, edits>>

----------------------------------------------------------------------------
Next ==
    \/ \E w \in Window :
          \/ Load(w) \/ Reload(w) \/ ResumeLogin(w)
          \/ \E e \in Edit : MakeEdit(w, e) \/ ConfirmImport(w, e)
          \/ \E market \in Market : ShowAgain(w, market)
          \/ PressSave(w) \/ HandleSave(w) \/ ReceiveSaved(w) \/ SaveFails(w)
          \/ \E v \in valuing[w] :
                HandleValuation(w, v) \/ ReceiveValuation(w, v) \/ ValuationFails(w, v)
    \/ \E b \in adrift : HandleAdrift(b)

Spec == Init /\ [][Next]_vars

----------------------------------------------------------------------------
(* No save drops an edit that is in the row and that no user gave up, unless
   its draft went through two logins: the window then never showed the
   document it replaces.  The first login keeps the revision the draft was
   made from; a second one stores the newer revision instead (app.js:18), and
   the conflict goes unnoticed. *)
LostOnlyAfterTwoLogins ==
    \A i \in 2..Len(docs) :
        \/ docs[i].stale
        \/ \A e \in docs[i - 1].rows \ docs[i].rows : edits[e] = "discarded"

(* What a user typed is in an open draft that reads as unsaved, in the
   browser's storage or in a document that was saved, until the user gives it
   up: no login, lost answer, conflict or save under way loses it. *)
DraftSurvives ==
    \A e \in Edit : edits[e] = "made" =>
        \/ \E w \in Window : \/ page[w].dirty /\ e \in page[w].draft
                            \/ e \in stored[w].rows
        \/ \E i \in 1..Len(docs) : e \in docs[i].rows

(* A page that waits for nothing and whose list is the row shows the values of
   that list under the chosen filter, or the last valuation failed with an
   error message, in whatever order the answers to earlier choices, saves and
   refreshes came. *)
ScreenSettles ==
    \A w \in Window :
        Loaded(w) /\ valuing[w] = {} /\ page[w].saved = Len(docs) =>
            page[w].screen # "old"

=============================================================================
