--------------------------- MODULE PortfolioProofs ---------------------------
(* What becomes of an edit: proved for any number of windows, edits, choices  *)
(* of the filter and saves.                                                   *)
EXTENDS Portfolio, TLAPS

-----------------------------------------------------------------------------
(* Why the properties hold: the inductive invariant.                          *)

(* A list that takes the place of rows drops of them only what the user gave  *)
(* up.                                                                        *)
Kept(rows, list) == \A e \in rows \ list : edits[e] = "discarded"

(* Before its first answers a page knows nothing and waits for nothing.       *)
BlankFits(w) ==
    ~Loaded(w) => page[w] = Blank(page[w].market) /\ saving[w] = NoSave /\ valuing[w] = {}

(* A draft keeps the document it is to replace, unless it went through two    *)
(* logins.                                                                    *)
PageFits(w) ==
    Loaded(w) => /\ Base(w) \in 1..Len(docs)
                 /\ page[w].logins = 0 => page[w].recovered = 0
                 /\ page[w].logins <= 1 => Kept(docs[Base(w)].rows, page[w].draft)

(* So does a draft that waits for the login; it waits for a page that is not  *)
(* loaded.                                                                    *)
StoredFits(w) ==
    stored[w] # NoDraft =>
        /\ ~Loaded(w)
        /\ stored[w].revision \in 1..Len(docs) /\ stored[w].logins # 0
        /\ stored[w].logins <= 1 => Kept(docs[stored[w].revision].rows, stored[w].rows)

(* And so does a save; what was edited since it was sent is in the page's     *)
(* draft.                                                                     *)
SavingFits(w) ==
    /\ saving[w].got # 0 => saving[w].on /\ docs[saving[w].got].rows = saving[w].rows
    /\ saving[w].on => /\ saving[w].revision \in 1..Len(docs)
                       /\ Kept(saving[w].rows, page[w].draft)
                       /\ saving[w].stale \/ Kept(docs[saving[w].revision].rows, saving[w].rows)

(* A save that nobody waits for is of the row's revision.                     *)
AdriftFits == \A b \in adrift : b.stale \/ Kept(Row.rows, b.rows)

(* A page that shows old values of the row's list waits for a call that       *)
(* counts.                                                                    *)
ScreenFits(w) ==
    /\ ~Viewing => valuing[w] = {} /\ (Loaded(w) => page[w].screen # "old")
    /\ \A v \in valuing[w] : v.current => v.market = page[w].market
    /\ Viewing /\ Loaded(w) /\ page[w].saved = Len(docs) /\ page[w].screen = "old" =>
          \E v \in valuing[w] : v.current /\ v.answer \in {0, page[w].saved}

(* What fits one window.                                                      *)
WindowFits(w) == BlankFits(w) /\ PageFits(w) /\ StoredFits(w) /\ SavingFits(w) /\ ScreenFits(w)

(* The inductive invariant.                                                   *)
PortfolioInv ==
    /\ TypeOK /\ AdriftFits /\ \A w \in Window : WindowFits(w)
    /\ LostOnlyAfterTwoLogins /\ DraftSurvives

-----------------------------------------------------------------------------
(* Documents are only appended. *)
DocsGrow ==
    /\ Len(docs') \in Nat /\ Len(docs) <= Len(docs')
    /\ \A i \in 1..Len(docs) : docs'[i] = docs[i]

(* What is given up stays given up. *)
GivenUp == \A e \in Edit : edits[e] = "discarded" => edits'[e] = "discarded"

-----------------------------------------------------------------------------
(* The types, one window at a time. *)
LEMMA RowTypes ==
    ASSUME TypeOK
    PROVE  /\ Len(docs) \in Nat /\ Len(docs) \in 1..MaxRevision /\ Len(docs) \in Revisions
           /\ 0 \in Revisions
           /\ \A i \in 1..Len(docs) : /\ docs[i] \in Document /\ docs[i].rows \subseteq Edit
                                      /\ docs[i].stale \in BOOLEAN
           /\ Row \in Document /\ Row = docs[Len(docs)] /\ Len(docs) \in 1..Len(docs)
           /\ \A w \in Window :
                 /\ page[w] \in Page /\ stored[w] \in Stored /\ saving[w] \in Saving
                 /\ valuing[w] \subseteq Valuing
                 /\ page[w].saved \in Nat /\ page[w].draft \subseteq Edit
                 /\ page[w].market \in Market
                 /\ page[w].saved <= Len(docs) /\ saving[w].got <= Len(docs)
                 /\ saving[w].got \in Nat /\ saving[w].rows \subseteq Edit
<1>1. Len(docs) \in Nat /\ Len(docs) \in 1..MaxRevision /\ MaxRevision \in Nat
    BY PortfolioAssumption DEF TypeOK
<1>2. \A i \in 1..Len(docs) : docs[i] \in Document
    BY DEF TypeOK
<1>3. Len(docs) \in 1..Len(docs) /\ Row = docs[Len(docs)] /\ Row \in Document
    BY <1>1, <1>2 DEF Row
<1>4. \A w \in Window :
         /\ page[w] \in Page /\ stored[w] \in Stored /\ saving[w] \in Saving
         /\ valuing[w] \subseteq Valuing /\ page[w].saved <= Len(docs)
         /\ saving[w].got <= Len(docs)
    BY DEF TypeOK
<1>5. Revisions \subseteq Nat /\ Len(docs) \in Revisions /\ 0 \in Revisions
    BY <1>1 DEF Revisions
<1> QED BY <1>1, <1>2, <1>3, <1>4, <1>5 DEF Document, Page, Saving

(* What stands for no draft, no save and no page is of its type.              *)
LEMMA EmptyRows ==
    /\ NoDraft \in Stored /\ NoSave \in Saving
    /\ \A market \in Market : Blank(market) \in Page
BY PortfolioAssumption DEF NoDraft, NoSave, Blank, Stored, Saving, Page, Revisions

(* An accepted save: one more document, the others as they were.              *)
LEMMA Appended ==
    ASSUME TypeOK, NEW b \in Document, docs' = Append(docs, b), Len(docs) < MaxRevision
    PROVE  /\ docs' \in Seq(Document) /\ Len(docs') = Len(docs) + 1
           /\ Len(docs') \in 1..MaxRevision
           /\ DocsGrow /\ docs'[Len(docs')] = b
<1>1. docs \in Seq(Document) /\ Len(docs) \in Nat /\ MaxRevision \in Nat
    BY RowTypes, PortfolioAssumption DEF TypeOK
<1>2. docs' \in Seq(Document) /\ Len(docs') = Len(docs) + 1
    BY <1>1
<1>3. \A i \in 1..Len(docs) : docs'[i] = docs[i]
    BY <1>1
<1>4. docs'[Len(docs) + 1] = b
    BY <1>1
<1> QED BY <1>1, <1>2, <1>3, <1>4 DEF DocsGrow

(* The invariant holds when every page is still blank.                        *)
LEMMA InitPortfolio == Init => PortfolioInv
<1> SUFFICES ASSUME Init PROVE PortfolioInv
    OBVIOUS
<1>1. docs = <<[rows |-> {}, stale |-> FALSE]>> /\ Len(docs) = 1
    BY DEF Init
<1>2. PICK market \in Market : page = [w \in Window |-> Blank(market)]
    BY DEF Init
<1>3. TypeOK
  <2>1. docs \in Seq(Document) /\ 1 \in 1..MaxRevision
      BY <1>1, PortfolioAssumption DEF Document
  <2> QED BY <1>1, <1>2, <2>1, EmptyRows DEF Init, TypeOK, Blank, NoSave
<1>4. ASSUME NEW w \in Window PROVE WindowFits(w)
    BY <1>2 DEF Init, WindowFits, BlankFits, PageFits, StoredFits, SavingFits, ScreenFits,
                Loaded, Blank, NoSave
<1>5. AdriftFits /\ DraftSurvives
    BY DEF Init, AdriftFits, DraftSurvives
<1>6. LostOnlyAfterTwoLogins
    BY <1>1 DEF LostOnlyAfterTwoLogins
<1> QED BY <1>3, <1>4, <1>5, <1>6 DEF PortfolioInv

-----------------------------------------------------------------------------
(* What a step leaves in place *)

(* A window that takes no part in a step, or has no part in it but its save.  *)
LEMMA OtherWindow ==
    ASSUME TypeOK, NEW u \in Window, WindowFits(u), DocsGrow, GivenUp, open' = open,
           page'[u] = page[u], stored'[u] = stored[u], valuing'[u] = valuing[u],
           saving'[u] = saving[u] \/ (Loaded(u) /\ SavingFits(u)')
    PROVE  WindowFits(u)'
<1>1. /\ BlankFits(u) /\ PageFits(u) /\ StoredFits(u) /\ SavingFits(u) /\ ScreenFits(u)
    BY DEF WindowFits
<1>2. /\ Len(docs) \in Nat /\ page[u].saved \in Nat /\ page[u].saved <= Len(docs)
      /\ saving[u].got \in Nat /\ saving[u].got <= Len(docs) /\ saving[u].rows \subseteq Edit
      /\ \A i \in 1..Len(docs) : docs[i].rows \subseteq Edit
    BY RowTypes
<1>3. BlankFits(u)'
    BY <1>1 DEF BlankFits, Loaded
<1>4. \A i \in 1..Len(docs) : /\ i \in 1..Len(docs') /\ docs'[i].rows = docs[i].rows
                              /\ docs[i].rows \subseteq Edit
    BY <1>2 DEF DocsGrow
<1>5. PageFits(u)'
  <2> SUFFICES ASSUME Loaded(u) PROVE PageFits(u)'
      BY DEF PageFits, Loaded
  <2>1. Base(u)' = Base(u)
      BY DEF Base
  <2> QED BY <1>1, <1>4, <2>1 DEF PageFits, GivenUp, Kept
<1>6. StoredFits(u)'
    BY <1>1, <1>4 DEF StoredFits, GivenUp, Kept, Loaded
<1>7. SavingFits(u)'
  <2>1. CASE saving'[u] = saving[u]
      BY <1>1, <1>2, <1>4, <2>1 DEF SavingFits, GivenUp, Kept
  <2> QED BY <2>1
<1>8. ScreenFits(u)'
  <2>1. Viewing' = Viewing
      BY DEF Viewing
  <2>2. page[u].saved = Len(docs') => page[u].saved = Len(docs)
      BY <1>2 DEF DocsGrow
  <2> QED BY <1>1, <2>1, <2>2 DEF ScreenFits, Loaded
<1> QED BY <1>3, <1>5, <1>6, <1>7, <1>8 DEF WindowFits

(* Drafts, stored drafts and edits as they were. *)
LEMMA StillSurvives ==
    ASSUME TypeOK, DraftSurvives, DocsGrow, edits' = edits, stored' = stored,
           \A u \in Window : page'[u].draft = page[u].draft /\ page'[u].dirty = page[u].dirty
    PROVE  DraftSurvives'
<1> SUFFICES ASSUME NEW e \in Edit, edits[e] = "made"
             PROVE  \/ \E w \in Window : \/ page'[w].dirty /\ e \in page'[w].draft
                                         \/ e \in stored'[w].rows
                    \/ \E i \in 1..Len(docs') : e \in docs'[i].rows
    BY DEF DraftSurvives
<1>1. CASE \E w \in Window : \/ page[w].dirty /\ e \in page[w].draft
                             \/ e \in stored[w].rows
    BY <1>1
<1>2. CASE \E i \in 1..Len(docs) : e \in docs[i].rows
    BY <1>2, RowTypes DEF DocsGrow
<1> QED BY <1>1, <1>2 DEF DraftSurvives

(* A step of window w that saves nothing.                                     *)
LEMMA WindowStep ==
    ASSUME PortfolioInv, NEW w \in Window,
           page' \in [Window -> Page], stored' \in [Window -> Stored],
           saving' \in [Window -> Saving], valuing' \in [Window -> SUBSET Valuing],
           \A u \in Window \ {w} : /\ page'[u] = page[u] /\ stored'[u] = stored[u]
                                   /\ saving'[u] = saving[u] /\ valuing'[u] = valuing[u],
           edits' \in [Edit -> {"unmade", "made", "discarded"}], GivenUp,
           docs' = docs, open' = open, adrift' \subseteq Document,
           \A b \in adrift' : b \in adrift \/ b.stale \/ Kept(Row.rows, b.rows),
           page'[w].saved <= Len(docs), saving'[w].got <= Len(docs),
           saving'[w].on => page'[w].saved # 0,
           WindowFits(w)', DraftSurvives'
    PROVE  PortfolioInv'
<1>1. TypeOK /\ AdriftFits /\ LostOnlyAfterTwoLogins /\ \A u \in Window : WindowFits(u)
    BY DEF PortfolioInv
<1>2. TypeOK'
    BY <1>1 DEF TypeOK
<1>3. DocsGrow
    BY <1>1, RowTypes DEF DocsGrow
<1>4. AdriftFits'
  <2>1. Row' = Row /\ Row.rows \subseteq Edit
      BY <1>1, RowTypes DEF Row
  <2> QED BY <1>1, <2>1 DEF AdriftFits, Kept, GivenUp
<1>5. LostOnlyAfterTwoLogins'
  <2> SUFFICES ASSUME NEW i \in 2..Len(docs), ~docs[i].stale,
                      NEW e \in docs[i - 1].rows \ docs[i].rows
               PROVE  edits'[e] = "discarded"
      BY DEF LostOnlyAfterTwoLogins
  <2>1. i - 1 \in 1..Len(docs)
      BY <1>1, RowTypes
  <2>2. e \in Edit /\ edits[e] = "discarded"
      BY <1>1, <2>1, RowTypes DEF LostOnlyAfterTwoLogins
  <2> QED BY <2>2 DEF GivenUp
<1>6. \A u \in Window \ {w} : WindowFits(u)'
    BY <1>1, <1>3, OtherWindow
<1> QED BY <1>2, <1>4, <1>5, <1>6 DEF PortfolioInv

(* A document is saved, from a list that keeps the row or is stale.           *)
LEMMA DocumentSaved ==
    ASSUME PortfolioInv, NEW b \in Document, b.stale \/ Kept(Row.rows, b.rows),
           Len(docs) < MaxRevision, docs' = Append(docs, b), adrift' = {},
           UNCHANGED <<open, page, stored, valuing, edits>>,
           saving' \in [Window -> Saving],
           \A w \in Window : /\ saving'[w].got <= Len(docs')
                             /\ saving'[w].on => saving[w].on
                             /\ saving'[w] # saving[w] => SavingFits(w)' /\ Loaded(w)
    PROVE  PortfolioInv'
<1>1. /\ TypeOK /\ AdriftFits /\ LostOnlyAfterTwoLogins /\ DraftSurvives
      /\ \A u \in Window : WindowFits(u)
    BY DEF PortfolioInv
<1>2. /\ docs' \in Seq(Document) /\ Len(docs') = Len(docs) + 1 /\ Len(docs') \in 1..MaxRevision
      /\ DocsGrow /\ docs'[Len(docs')] = b
    BY <1>1, Appended
<1>3. TypeOK'
    BY <1>1, <1>2, RowTypes DEF TypeOK
<1>4. AdriftFits'
    BY DEF AdriftFits
<1>5. LostOnlyAfterTwoLogins'
  <2> SUFFICES ASSUME NEW i \in 2..Len(docs'), ~docs'[i].stale,
                      NEW e \in docs'[i - 1].rows \ docs'[i].rows
               PROVE  edits[e] = "discarded"
      BY DEF LostOnlyAfterTwoLogins
  <2>1. i - 1 \in 1..Len(docs) /\ docs'[i - 1] = docs[i - 1]
      BY <1>1, <1>2, RowTypes DEF DocsGrow
  <2>2. CASE i \in 2..Len(docs)
    <3>1. docs'[i] = docs[i]
        BY <1>1, <1>2, <2>2, RowTypes DEF DocsGrow
    <3> QED BY <1>1, <2>1, <2>2, <3>1 DEF LostOnlyAfterTwoLogins
  <2>3. CASE i = Len(docs')
    <3>1. docs'[i] = b /\ docs'[i - 1] = Row
        BY <1>1, <1>2, <2>1, <2>3, RowTypes
    <3> QED BY <3>1 DEF Kept
  <2> QED BY <1>1, <1>2, <2>2, <2>3, RowTypes
<1>6. DraftSurvives'
    BY <1>1, <1>2, StillSurvives
<1>7. ASSUME NEW u \in Window PROVE WindowFits(u)'
  <2>1. GivenUp
      BY DEF GivenUp
  <2> QED BY <1>1, <1>2, <2>1, OtherWindow
<1> QED BY <1>3, <1>4, <1>5, <1>6, <1>7 DEF PortfolioInv

-----------------------------------------------------------------------------
(* The handlers *)

(* The server's handling of a save keeps the invariant.                       *)
LEMMA HandleSaveInv ==
    ASSUME PortfolioInv, NEW w \in Window, HandleSave(w)
    PROVE  PortfolioInv'
<1> DEFINE b == [rows |-> saving[w].rows, stale |-> saving[w].stale]
           sv == [saving[w] EXCEPT !.got = Len(docs')]
<1>1. /\ TypeOK /\ SavingFits(w) /\ saving[w].on /\ saving[w].revision = Len(docs)
      /\ Len(docs) < MaxRevision /\ docs' = Append(docs, b) /\ adrift' = {}
      /\ saving' = [saving EXCEPT ![w] = sv]
      /\ UNCHANGED <<open, page, stored, valuing, edits>>
    BY DEF HandleSave, Accepts, PortfolioInv, WindowFits, TypeOK
<1>2. saving \in [Window -> Saving] /\ saving[w] \in Saving
    BY <1>1, RowTypes DEF TypeOK
<1>3. b \in Document /\ b.rows = saving[w].rows /\ b.stale = saving[w].stale
    BY <1>2 DEF Document, Saving
<1>4. b.stale \/ Kept(Row.rows, b.rows)
    BY <1>1, <1>3, RowTypes DEF SavingFits
<1> HIDE DEF b
<1>5. /\ Len(docs') = Len(docs) + 1 /\ Len(docs') \in 1..MaxRevision
      /\ DocsGrow /\ docs'[Len(docs')] = b
    BY <1>1, <1>3, Appended
<1>6. /\ sv \in Saving /\ sv.got = Len(docs') /\ sv.on /\ sv.rows = saving[w].rows
      /\ sv.revision = saving[w].revision /\ sv.stale = saving[w].stale
  <2>1. Len(docs') \in Revisions
      BY <1>5, PortfolioAssumption DEF Revisions
  <2> QED BY <1>1, <1>2, <2>1 DEF Saving
<1> HIDE DEF sv
<1>7. saving' \in [Window -> Saving] /\ saving'[w] = sv
      /\ \A u \in Window \ {w} : saving'[u] = saving[u]
    BY <1>1, <1>2, <1>6
<1>8. Loaded(w)
    BY <1>1 DEF TypeOK, Loaded
<1>9. docs[Len(docs)].rows = docs'[Len(docs)].rows /\ Len(docs) \in 1..Len(docs')
    BY <1>1, <1>5, RowTypes DEF DocsGrow
<1>10. SavingFits(w)'
    BY <1>1, <1>3, <1>5, <1>6, <1>7, <1>9 DEF SavingFits, Kept
<1>11. \A u \in Window : saving'[u].got <= Len(docs') /\ (saving'[u].on => saving[u].on)
    BY <1>1, <1>5, <1>6, <1>7, RowTypes
<1> QED BY <1>1, <1>3, <1>4, <1>7, <1>8, <1>10, <1>11, DocumentSaved

(* So does its handling of a save nobody waits for.                           *)
LEMMA HandleAdriftInv ==
    ASSUME PortfolioInv, NEW b \in adrift, HandleAdrift(b)
    PROVE  PortfolioInv'
<1>1. /\ TypeOK /\ AdriftFits /\ DraftSurvives /\ \A u \in Window : WindowFits(u)
      /\ b \in Document /\ (b.stale \/ Kept(Row.rows, b.rows))
    BY DEF PortfolioInv, AdriftFits, TypeOK
<1>2. CASE Len(docs) < MaxRevision /\ docs' = Append(docs, b) /\ adrift' = {}
  <2>1. saving' = saving /\ UNCHANGED <<open, page, stored, valuing, edits>>
      BY DEF HandleAdrift
  <2>2. saving' \in [Window -> Saving] /\ Len(docs') = Len(docs) + 1
      BY <1>1, <1>2, <2>1, Appended DEF TypeOK
  <2>3. \A w \in Window : saving'[w].got <= Len(docs')
      BY <1>1, <2>1, <2>2, RowTypes
  <2> QED BY <1>1, <1>2, <2>1, <2>2, <2>3, DocumentSaved
<1>3. CASE docs' = docs /\ adrift' = adrift \ {b}
  <2>1. UNCHANGED <<docs, open, page, stored, saving, valuing, edits>>
      BY <1>3 DEF HandleAdrift
  <2>2. TypeOK' /\ DraftSurvives' /\ LostOnlyAfterTwoLogins' /\ \A u \in Window : WindowFits(u)'
      BY <1>1, <1>3, <2>1
         DEF PortfolioInv, TypeOK, DraftSurvives, LostOnlyAfterTwoLogins, WindowFits, BlankFits,
             PageFits, StoredFits, SavingFits, ScreenFits, Loaded, Base, Kept, Viewing
  <2>3. AdriftFits'
      BY <1>1, <1>3, <2>1 DEF AdriftFits, Kept, Row
  <2> QED BY <2>2, <2>3 DEF PortfolioInv
<1> QED BY <1>2, <1>3 DEF HandleAdrift

(* A valuation is answered with the row's revision: a call that counted still  *)
(* counts.                                                                     *)
LEMMA HandleValuationInv ==
    ASSUME PortfolioInv, NEW w \in Window, NEW v \in valuing[w], HandleValuation(w, v)
    PROVE  PortfolioInv'
<1> DEFINE answered == [v EXCEPT !.answer = Len(docs)]
           calls == (valuing[w] \ {v}) \cup {answered}
<1>1. /\ TypeOK /\ WindowFits(w) /\ DraftSurvives /\ v \in Valuing
      /\ valuing' = [valuing EXCEPT ![w] = calls] /\ v.answer = 0
      /\ UNCHANGED <<docs, adrift, open, page, stored, saving, edits>>
    BY DEF HandleValuation, PortfolioInv, TypeOK
<1>2. answered \in Valuing /\ answered.current = v.current /\ answered.market = v.market
      /\ answered.answer = Len(docs)
    BY <1>1, RowTypes DEF Valuing
<1> HIDE DEF answered
<1>3. calls \subseteq Valuing
    BY <1>1, <1>2, RowTypes
<1>4. /\ valuing' \in [Window -> SUBSET Valuing] /\ valuing'[w] = calls
      /\ \A u \in Window \ {w} : valuing'[u] = valuing[u]
    BY <1>1, <1>3 DEF TypeOK
<1>5. BlankFits(w)' /\ PageFits(w)' /\ StoredFits(w)' /\ SavingFits(w)'
    BY <1>1, <1>4 DEF WindowFits, BlankFits, PageFits, StoredFits, SavingFits, Loaded, Base, Kept
<1>6. ScreenFits(w)'
  <2>1. ScreenFits(w) /\ Viewing' = Viewing /\ page[w].saved \in Nat
      BY <1>1, RowTypes DEF WindowFits, Viewing
  <2>2. ~Viewing => FALSE
      BY <2>1 DEF ScreenFits
  <2>3. \A c \in calls : c.current => c.market = page[w].market
      BY <1>2, <2>1 DEF ScreenFits
  <2>4. ASSUME Loaded(w), page[w].saved = Len(docs), page[w].screen = "old"
        PROVE  \E c \in calls : c.current /\ c.answer \in {0, page[w].saved}
    <3>1. PICK c \in valuing[w] : c.current /\ c.answer \in {0, page[w].saved}
        BY <2>1, <2>2, <2>4 DEF ScreenFits
    <3>2. CASE c = v
        BY <1>2, <2>4, <3>1, <3>2
    <3>3. CASE c # v
        BY <3>1, <3>3
    <3> QED BY <3>2, <3>3
  <2> QED BY <1>1, <1>4, <2>1, <2>2, <2>3, <2>4 DEF ScreenFits, Loaded
<1>7. DraftSurvives'
    BY <1>1 DEF DraftSurvives
<1>8. WindowFits(w)'
    BY <1>5, <1>6 DEF WindowFits
<1>9. GivenUp
    BY <1>1 DEF GivenUp
<1> HIDE DEF calls
<1> QED BY <1>1, <1>4, <1>7, <1>8, <1>9, WindowStep DEF TypeOK

-----------------------------------------------------------------------------
(* The page *)

(* loadValuation: the new call counts, for the market it names; no other does. *)
LEMMA AskingCounts ==
    ASSUME TypeOK, NEW w \in Window, NEW market \in Market, NEW ofSave \in BOOLEAN,
           valuing' = Asking(w, market, ofSave)
    PROVE  /\ valuing' \in [Window -> SUBSET Valuing]
           /\ \A u \in Window \ {w} : valuing'[u] = valuing[u]
           /\ ~Viewing => valuing' = valuing
           /\ Viewing => /\ \A v \in valuing'[w] : v.current => v.market = market
                         /\ \E v \in valuing'[w] : v.current /\ v.answer = 0
<1>1. CASE ~Viewing
    BY <1>1 DEF Asking, TypeOK
<1>2. CASE Viewing
  <2> DEFINE new == [market |-> market, current |-> TRUE, ofSave |-> ofSave, answer |-> 0]
             old == {[v EXCEPT !.current = FALSE] : v \in valuing[w]}
  <2>1. valuing' = [valuing EXCEPT ![w] = old \cup {new}]
      BY <1>2 DEF Asking, WithValuation
  <2>2. new \in Valuing /\ new.current /\ new.market = market /\ new.answer = 0
      BY RowTypes DEF Valuing
  <2>3. \A c \in old : c \in Valuing /\ ~c.current
    <3> SUFFICES ASSUME NEW v \in valuing[w]
                 PROVE  /\ [v EXCEPT !.current = FALSE] \in Valuing
                        /\ ~[v EXCEPT !.current = FALSE].current
        OBVIOUS
    <3>1. v \in Valuing
        BY RowTypes
    <3> QED BY <3>1 DEF Valuing
  <2> HIDE DEF new, old
  <2>4. old \cup {new} \subseteq Valuing
      BY <2>2, <2>3
  <2>5. /\ valuing' \in [Window -> SUBSET Valuing] /\ valuing'[w] = old \cup {new}
        /\ \A u \in Window \ {w} : valuing'[u] = valuing[u]
      BY <2>1, <2>4 DEF TypeOK
  <2> QED BY <1>2, <2>2, <2>3, <2>5
<1> QED BY <1>1, <1>2

(* A page that asks for values anew awaits the call that counts.              *)
LEMMA ScreenAwaits ==
    ASSUME PortfolioInv, NEW w \in Window, NEW market \in Market, NEW ofSave \in BOOLEAN,
           valuing' = Asking(w, market, ofSave), open' = open,
           page'[w].market = market, page'[w].screen \in {Awaited, "current"}
    PROVE  ScreenFits(w)'
<1>1. TypeOK /\ ScreenFits(w)
    BY DEF PortfolioInv, WindowFits
<1>2. Viewing' = Viewing
    BY DEF Viewing
<1>3. CASE ~Viewing
  <2>1. valuing'[w] = {} /\ page'[w].screen # "old"
      BY <1>1, <1>3, AskingCounts DEF ScreenFits, Awaited
  <2> QED BY <1>2, <1>3, <2>1 DEF ScreenFits
<1>4. CASE Viewing
  <2>1. /\ \A v \in valuing'[w] : v.current => v.market = market
        /\ \E v \in valuing'[w] : v.current /\ v.answer = 0
      BY <1>1, <1>4, AskingCounts
  <2> QED BY <1>2, <1>4, <2>1 DEF ScreenFits
<1> QED BY <1>3, <1>4

(* The script's start: the row, or the draft that waited for the login.       *)
LEMMA LoadInv ==
    ASSUME PortfolioInv, NEW w \in Window, Load(w)
    PROVE  PortfolioInv'
<1> DEFINE row == IF stored[w] # NoDraft
                    THEN [page[w] EXCEPT !.saved = Len(docs), !.screen = Awaited,
                                         !.draft = stored[w].rows, !.dirty = TRUE,
                                         !.recovered = stored[w].revision,
                                         !.logins = stored[w].logins]
                    ELSE [page[w] EXCEPT !.saved = Len(docs), !.screen = Awaited,
                                         !.draft = Row.rows]
<1>1. /\ TypeOK /\ WindowFits(w) /\ DraftSurvives /\ ~Loaded(w)
      /\ stored[w] \in Stored /\ page[w] \in Page /\ page[w].market \in Market
    BY RowTypes DEF Load, PortfolioInv
<1>2. /\ page' = [page EXCEPT ![w] = row] /\ stored' = [stored EXCEPT ![w] = NoDraft]
      /\ valuing' = Asking(w, page[w].market, FALSE)
      /\ UNCHANGED <<docs, adrift, open, saving, edits>>
    BY DEF Load
<1>3. page[w] = Blank(page[w].market) /\ saving[w] = NoSave /\ valuing[w] = {}
    BY <1>1 DEF WindowFits, BlankFits
<1>4. Awaited \in {"old", "failed"}
    BY DEF Awaited
<1>5. /\ row \in Page /\ row.saved = Len(docs) /\ row.market = page[w].market
      /\ row.screen = Awaited
  <2>1. stored[w].rows \subseteq Edit /\ stored[w].revision \in Revisions /\ stored[w].logins \in 0..2
      BY <1>1 DEF Stored
  <2>2. Row.rows \subseteq Edit /\ Len(docs) \in Revisions
      BY <1>1, RowTypes
  <2> QED BY <1>1, <1>4, <2>1, <2>2 DEF Page
<1>6. /\ row.recovered = IF stored[w] # NoDraft THEN stored[w].revision ELSE 0
      /\ row.logins = IF stored[w] # NoDraft THEN stored[w].logins ELSE 0
      /\ row.draft = IF stored[w] # NoDraft THEN stored[w].rows ELSE Row.rows
      /\ stored[w] # NoDraft => row.dirty
    BY <1>1, <1>3 DEF Page, Blank
<1> HIDE DEF row
<1>7. /\ page' \in [Window -> Page] /\ page'[w] = row
      /\ \A u \in Window \ {w} : page'[u] = page[u]
    BY <1>1, <1>2, <1>5 DEF TypeOK
<1>8. /\ stored' \in [Window -> Stored] /\ stored'[w] = NoDraft
      /\ \A u \in Window \ {w} : stored'[u] = stored[u]
    BY <1>1, <1>2, EmptyRows DEF TypeOK
<1>9. /\ valuing' \in [Window -> SUBSET Valuing]
      /\ \A u \in Window \ {w} : valuing'[u] = valuing[u]
    BY <1>1, <1>2, AskingCounts
<1>10. ScreenFits(w)'
    BY <1>1, <1>2, <1>5, <1>7, ScreenAwaits
<1>11. PageFits(w)'
  <2>1. CASE stored[w] # NoDraft
    <3>1. /\ row.recovered \in 1..Len(docs) /\ row.logins # 0
          /\ row.logins <= 1 => Kept(docs[row.recovered].rows, row.draft)
        BY <1>1, <1>6, <2>1 DEF WindowFits, StoredFits
    <3>2. Base(w)' = row.recovered
        BY <1>7, <3>1 DEF Base
    <3> QED BY <1>2, <1>7, <3>1, <3>2 DEF PageFits, Kept
  <2>2. CASE stored[w] = NoDraft
    <3>1. Base(w)' = Len(docs) /\ row.recovered = 0 /\ row.draft = Row.rows
        BY <1>5, <1>6, <1>7, <2>2 DEF Base
    <3> QED BY <1>1, <1>2, <1>7, <3>1, RowTypes DEF PageFits, Kept
  <2> QED BY <2>1, <2>2
<1>12. BlankFits(w)' /\ StoredFits(w)' /\ SavingFits(w)'
  <2>1. Loaded(w)'
      BY <1>1, <1>5, <1>7, RowTypes DEF Loaded
  <2>2. saving'[w] = NoSave
      BY <1>2, <1>3
  <2> QED BY <1>8, <2>1, <2>2 DEF BlankFits, StoredFits, SavingFits, NoSave
<1>13. DraftSurvives'
  <2> SUFFICES ASSUME NEW e \in Edit, edits[e] = "made"
               PROVE  \/ \E u \in Window : \/ page'[u].dirty /\ e \in page'[u].draft
                                           \/ e \in stored'[u].rows
                      \/ \E i \in 1..Len(docs) : e \in docs[i].rows
      BY <1>2 DEF DraftSurvives
  <2>1. CASE \E u \in Window : page[u].dirty /\ e \in page[u].draft
    <3>1. ~page[w].dirty
        BY <1>3 DEF Blank
    <3> QED BY <1>7, <2>1, <3>1
  <2>2. CASE \E u \in Window : e \in stored[u].rows
    <3>1. PICK u \in Window : e \in stored[u].rows
        BY <2>2
    <3>2. CASE u = w
      <4>1. stored[w] # NoDraft
          BY <3>1, <3>2 DEF NoDraft
      <4> QED BY <1>6, <1>7, <3>1, <3>2, <4>1
    <3> QED BY <1>8, <3>1, <3>2
  <2> QED BY <1>1, <2>1, <2>2 DEF DraftSurvives
<1>14. page'[w].saved <= Len(docs) /\ saving'[w].got <= Len(docs)
       /\ (saving'[w].on => page'[w].saved # 0)
    BY <1>1, <1>2, <1>3, <1>5, <1>7, RowTypes DEF NoSave
<1>15. WindowFits(w)' /\ GivenUp
    BY <1>2, <1>10, <1>11, <1>12 DEF WindowFits, GivenUp
<1> QED BY <1>1, <1>2, <1>7, <1>8, <1>9, <1>13, <1>14, <1>15, WindowStep DEF TypeOK

(* The user changes the draft: what it drops is given up.                     *)
LEMMA DraftChanged ==
    ASSUME PortfolioInv, NEW w \in Window, Loaded(w), NEW draft \in SUBSET Edit,
           page' = [page EXCEPT ![w].draft = draft, ![w].dirty = TRUE],
           edits' \in [Edit -> {"unmade", "made", "discarded"}], GivenUp,
           \A e \in page[w].draft \ draft : edits'[e] = "discarded",
           \A e \in Edit : edits'[e] = "made" => edits[e] = "made" \/ e \in draft,
           UNCHANGED <<docs, adrift, open, stored, saving, valuing>>
    PROVE  PortfolioInv'
<1> DEFINE row == [page[w] EXCEPT !.draft = draft, !.dirty = TRUE]
<1>1. /\ TypeOK /\ WindowFits(w) /\ DraftSurvives /\ page[w] \in Page
      /\ page[w].draft \subseteq Edit /\ page' = [page EXCEPT ![w] = row]
    BY RowTypes DEF PortfolioInv, TypeOK
<1>2. /\ row \in Page /\ row.draft = draft /\ row.dirty /\ row.saved = page[w].saved
      /\ row.recovered = page[w].recovered /\ row.logins = page[w].logins
      /\ row.market = page[w].market /\ row.screen = page[w].screen
    BY <1>1 DEF Page
<1> HIDE DEF row
<1>3. /\ page' \in [Window -> Page] /\ page'[w] = row
      /\ \A u \in Window \ {w} : page'[u] = page[u]
    BY <1>1, <1>2, ZenonT(40) DEF TypeOK
<1>4. BlankFits(w)' /\ StoredFits(w)'
    BY <1>1, <1>2, <1>3 DEF WindowFits, BlankFits, StoredFits, Loaded
<1>5. Base(w)' = Base(w) /\ Loaded(w)'
    BY <1>2, <1>3 DEF Base, Loaded
<1>6. \A e \in Edit : /\ edits[e] = "discarded" => edits'[e] = "discarded"
                      /\ e \in page[w].draft \ draft => edits'[e] = "discarded"
    BY DEF GivenUp
<1>7. ASSUME NEW rows \in SUBSET Edit, Kept(rows, page[w].draft)
      PROVE  \A e \in rows \ draft : edits'[e] = "discarded"
    BY <1>6, <1>7 DEF Kept
<1>8. PageFits(w)'
  <2>1. /\ Base(w) \in 1..Len(docs) /\ (page[w].logins = 0 => page[w].recovered = 0)
        /\ page[w].logins <= 1 => Kept(docs[Base(w)].rows, page[w].draft)
      BY <1>1 DEF WindowFits, PageFits
  <2>2. docs[Base(w)].rows \in SUBSET Edit
      BY <1>1, <2>1, RowTypes
  <2>3. row.logins <= 1 => \A e \in docs[Base(w)].rows \ draft : edits'[e] = "discarded"
      BY <1>2, <1>7, <2>1, <2>2
  <2> QED BY <1>2, <1>3, <1>5, <2>1, <2>3 DEF PageFits, Kept
<1>9. SavingFits(w)'
  <2>1. SavingFits(w) /\ saving[w].rows \in SUBSET Edit
      BY <1>1, RowTypes DEF WindowFits
  <2>2. saving[w].on => \A e \in saving[w].rows \ draft : edits'[e] = "discarded"
      BY <1>7, <2>1 DEF SavingFits
  <2>3. saving[w].on => /\ saving[w].revision \in 1..Len(docs)
                        /\ docs[saving[w].revision].rows \subseteq Edit
      BY <1>1, <2>1, RowTypes DEF SavingFits
  <2> QED BY <1>2, <1>3, <1>6, <2>1, <2>2, <2>3 DEF SavingFits, Kept
<1>10. ScreenFits(w)'
  <2>1. Viewing' = Viewing
      BY DEF Viewing
  <2> QED BY <1>1, <1>2, <1>3, <2>1 DEF WindowFits, ScreenFits, Loaded
<1>11. DraftSurvives'
  <2> SUFFICES ASSUME NEW e \in Edit, edits'[e] = "made"
               PROVE  \/ \E u \in Window : \/ page'[u].dirty /\ e \in page'[u].draft
                                           \/ e \in stored[u].rows
                      \/ \E i \in 1..Len(docs) : e \in docs[i].rows
      BY DEF DraftSurvives
  <2>1. CASE e \in draft
      BY <1>2, <1>3, <2>1
  <2>2. CASE e \notin draft
    <3>1. edits[e] = "made" /\ e \notin page[w].draft
        BY <2>2
    <3>2. CASE \E u \in Window : page[u].dirty /\ e \in page[u].draft
        BY <1>3, <3>1, <3>2
    <3> QED BY <1>1, <3>1, <3>2 DEF DraftSurvives
  <2> QED BY <2>1, <2>2
<1>12. page'[w].saved <= Len(docs) /\ saving'[w].got <= Len(docs)
       /\ (saving'[w].on => page'[w].saved # 0)
    BY <1>1, <1>2, <1>3, RowTypes DEF TypeOK
<1>13. WindowFits(w)'
    BY <1>4, <1>8, <1>9, <1>10 DEF WindowFits
<1> QED BY <1>1, <1>3, <1>11, <1>12, <1>13, WindowStep DEF TypeOK

(* An edit in the page keeps the invariant.                                   *)
LEMMA MakeEditInv ==
    ASSUME PortfolioInv, NEW w \in Window, NEW e \in Edit, MakeEdit(w, e)
    PROVE  PortfolioInv'
<1>1. TypeOK /\ page[w].draft \subseteq Edit /\ page \in [Window -> Page] /\ page[w] \in Page
    BY RowTypes DEF PortfolioInv, TypeOK
<1>2. PICK draft \in SUBSET Edit : draft = page[w].draft \cup {e}
    BY <1>1
<1>3. page' = [page EXCEPT ![w].draft = draft, ![w].dirty = TRUE]
    BY <1>1, <1>2 DEF MakeEdit, Page
<1>4. /\ edits[e] = "unmade" /\ edits' = [edits EXCEPT ![e] = "made"]
      /\ edits \in [Edit -> {"unmade", "made", "discarded"}]
      /\ Loaded(w) /\ UNCHANGED <<docs, adrift, open, stored, saving, valuing>>
    BY <1>1 DEF MakeEdit, TypeOK
<1>5. /\ edits' \in [Edit -> {"unmade", "made", "discarded"}]
      /\ \A d \in Edit : edits'[d] = "made" => edits[d] = "made" \/ d = e
      /\ GivenUp
    BY <1>4 DEF GivenUp
<1>6. /\ \A d \in page[w].draft \ draft : edits'[d] = "discarded"
      /\ \A d \in Edit : edits'[d] = "made" => edits[d] = "made" \/ d \in draft
    BY <1>5, <1>2
<1> QED BY <1>3, <1>4, <1>5, <1>6, DraftChanged

(* So does an import that is confirmed.                                       *)
LEMMA ConfirmImportInv ==
    ASSUME PortfolioInv, NEW w \in Window, NEW e \in Edit, ConfirmImport(w, e)
    PROVE  PortfolioInv'
<1>1. TypeOK /\ page[w].draft \subseteq Edit
    BY RowTypes DEF PortfolioInv
<1>2. PICK draft \in SUBSET Edit : draft = {e}
    OBVIOUS
<1>3. /\ page' = [page EXCEPT ![w].draft = draft, ![w].dirty = TRUE] /\ edits[e] = "unmade"
      /\ edits' = [d \in Edit |-> IF d = e THEN "made"
                                  ELSE IF d \in page[w].draft THEN "discarded" ELSE edits[d]]
      /\ edits \in [Edit -> {"unmade", "made", "discarded"}]
      /\ Loaded(w) /\ UNCHANGED <<docs, adrift, open, stored, saving, valuing>>
    BY <1>1, <1>2 DEF ConfirmImport, TypeOK
<1>4. /\ edits' \in [Edit -> {"unmade", "made", "discarded"}]
      /\ \A d \in Edit : edits'[d] = "made" => edits[d] = "made" \/ d \in draft
      /\ \A d \in page[w].draft \ draft : edits'[d] = "discarded"
      /\ GivenUp
    BY <1>1, <1>3, <1>2 DEF GivenUp
<1> QED BY <1>3, <1>4, DraftChanged

(* The filter, or a refresh that ended: the draft is not touched. *)
LEMMA ShowAgainInv ==
    ASSUME PortfolioInv, NEW w \in Window, NEW market \in Market, ShowAgain(w, market)
    PROVE  PortfolioInv'
<1> DEFINE screen == IF market = page[w].market /\ page[w].screen = "current"
                       THEN page[w].screen ELSE Awaited
           row == [page[w] EXCEPT !.market = market, !.screen = screen]
<1>1. /\ TypeOK /\ WindowFits(w) /\ DraftSurvives /\ page[w] \in Page /\ Loaded(w)
      /\ UNCHANGED <<docs, adrift, open, stored, saving, edits>>
      /\ valuing' = Asking(w, market, FALSE)
      /\ page' = [page EXCEPT ![w] = row]
    BY RowTypes DEF PortfolioInv, TypeOK, ShowAgain
<1>2. screen \in {Awaited, "current"} /\ screen \in {"old", "failed", "current"}
    BY DEF Awaited
<1> HIDE DEF screen
<1>3. /\ row \in Page /\ row.draft = page[w].draft /\ row.dirty = page[w].dirty
      /\ row.saved = page[w].saved /\ row.recovered = page[w].recovered
      /\ row.logins = page[w].logins /\ row.market = market /\ row.screen = screen
    BY <1>1, <1>2 DEF Page
<1> HIDE DEF row
<1>4. /\ page' \in [Window -> Page] /\ page'[w] = row
      /\ \A u \in Window \ {w} : page'[u] = page[u]
    BY <1>1, <1>3 DEF TypeOK
<1>5. /\ valuing' \in [Window -> SUBSET Valuing]
      /\ \A u \in Window \ {w} : valuing'[u] = valuing[u]
    BY <1>1, AskingCounts
<1>6. ScreenFits(w)'
    BY <1>1, <1>2, <1>3, <1>4, ScreenAwaits
<1>7. Loaded(w)' /\ Base(w)' = Base(w)
    BY <1>1, <1>3, <1>4 DEF Loaded, Base
<1>8. BlankFits(w)' /\ PageFits(w)' /\ StoredFits(w)' /\ SavingFits(w)'
    BY <1>1, <1>3, <1>4, <1>7
       DEF WindowFits, BlankFits, PageFits, StoredFits, SavingFits, Kept
<1>9. DraftSurvives'
  <2>1. DocsGrow /\ \A u \in Window : /\ page'[u].draft = page[u].draft
                                      /\ page'[u].dirty = page[u].dirty
      BY <1>1, <1>3, <1>4, RowTypes DEF DocsGrow
  <2> QED BY <1>1, <2>1, StillSurvives
<1>10. page'[w].saved <= Len(docs) /\ saving'[w].got <= Len(docs)
       /\ (saving'[w].on => page'[w].saved # 0)
    BY <1>1, <1>3, <1>4, RowTypes DEF TypeOK
<1>11. WindowFits(w)' /\ GivenUp
    BY <1>1, <1>6, <1>8 DEF WindowFits, GivenUp
<1> QED BY <1>1, <1>4, <1>5, <1>9, <1>10, <1>11, WindowStep DEF TypeOK

-----------------------------------------------------------------------------
(* Saves and logins *)

(* A save that may still reach its handler was of the row's revision.         *)
LEMMA AbandonedFits ==
    ASSUME PortfolioInv, NEW w \in Window, NEW left \in Abandoned(w), adrift' = adrift \cup left
    PROVE  /\ adrift' \subseteq Document
           /\ \A b \in adrift' : b \in adrift \/ b.stale \/ Kept(Row.rows, b.rows)
<1>1. TypeOK /\ SavingFits(w) /\ saving[w] \in Saving /\ Row = docs[Len(docs)]
    BY RowTypes DEF PortfolioInv, WindowFits
<1>2. CASE left = {}
    BY <1>1, <1>2 DEF TypeOK
<1>3. CASE left # {}
  <2> DEFINE b == [rows |-> saving[w].rows, stale |-> saving[w].stale]
  <2>1. left = {b} /\ saving[w].on /\ saving[w].revision = Len(docs)
      BY <1>3 DEF Abandoned, Accepts
  <2>2. b \in Document /\ b.rows = saving[w].rows /\ b.stale = saving[w].stale
      BY <1>1 DEF Saving, Document
  <2>3. b.stale \/ Kept(Row.rows, b.rows)
      BY <1>1, <2>1, <2>2 DEF SavingFits
  <2> HIDE DEF b
  <2> QED BY <1>1, <2>1, <2>2, <2>3 DEF TypeOK
<1> QED BY <1>2, <1>3

(* Only the window's save begins or ends. *)
LEMMA OnlySaving ==
    ASSUME PortfolioInv, NEW w \in Window, NEW sv \in Saving, saving' = [saving EXCEPT ![w] = sv],
           UNCHANGED <<docs, open, page, stored, valuing, edits>>,
           adrift' \subseteq Document,
           \A b \in adrift' : b \in adrift \/ b.stale \/ Kept(Row.rows, b.rows),
           sv.got = 0, sv.on => Loaded(w), ~Loaded(w) => sv = NoSave,
           sv.on => /\ sv.revision \in 1..Len(docs)
                    /\ Kept(sv.rows, page[w].draft)
                    /\ sv.stale \/ Kept(docs[sv.revision].rows, sv.rows)
    PROVE  PortfolioInv'
<1>1. TypeOK /\ WindowFits(w) /\ DraftSurvives
    BY DEF PortfolioInv
<1>2. /\ saving' \in [Window -> Saving] /\ saving'[w] = sv
      /\ \A u \in Window \ {w} : saving'[u] = saving[u]
    BY <1>1 DEF TypeOK
<1>3. Viewing' = Viewing /\ Base(w)' = Base(w)
    BY DEF Viewing, Base
<1>4. BlankFits(w)' /\ PageFits(w)' /\ StoredFits(w)' /\ SavingFits(w)' /\ ScreenFits(w)'
    BY <1>1, <1>2, <1>3
       DEF WindowFits, BlankFits, PageFits, StoredFits, SavingFits, ScreenFits, Kept, Loaded
<1>5. DraftSurvives' /\ GivenUp
    BY <1>1 DEF DraftSurvives, GivenUp
<1>6. page'[w].saved <= Len(docs) /\ saving'[w].got <= Len(docs)
      /\ (saving'[w].on => page'[w].saved # 0)
    BY <1>1, <1>2, RowTypes DEF Loaded
<1>7. WindowFits(w)'
    BY <1>4 DEF WindowFits
<1> QED BY <1>1, <1>2, <1>5, <1>6, <1>7, WindowStep DEF TypeOK

(* So does pressing Save.                                                     *)
LEMMA PressSaveInv ==
    ASSUME PortfolioInv, NEW w \in Window, PressSave(w)
    PROVE  PortfolioInv'
<1>1. TypeOK /\ PageFits(w) /\ page[w] \in Page /\ Loaded(w)
    BY RowTypes DEF PortfolioInv, WindowFits, PressSave
<1>2. PICK stale \in BOOLEAN : stale = (page[w].logins > 1)
  <2>1. (page[w].logins > 1) \in BOOLEAN
      OBVIOUS
  <2> QED BY <2>1
<1>3. PICK sv : sv = [on |-> TRUE, revision |-> Base(w), rows |-> page[w].draft, got |-> 0,
                      stale |-> stale]
    OBVIOUS
<1>4. /\ Base(w) \in Revisions /\ page[w].draft \subseteq Edit /\ 0 \in Revisions
      /\ stale \/ page[w].logins <= 1
  <2>1. /\ page[w].recovered \in Revisions /\ page[w].saved \in Revisions
        /\ page[w].logins \in 0..2 /\ page[w].draft \subseteq Edit
      BY <1>1 DEF Page
  <2>2. page[w].logins > 1 \/ page[w].logins <= 1
      BY <2>1
  <2>3. (page[w].logins > 1) => stale
      BY <1>2, Zenon
  <2> QED BY <1>1, <2>1, <2>2, <2>3, RowTypes DEF Base
<1>5. /\ sv \in Saving /\ sv.on /\ sv.revision = Base(w) /\ sv.rows = page[w].draft
      /\ sv.got = 0 /\ sv.stale = stale
    BY <1>3, <1>4 DEF Saving
<1>6. /\ sv.revision \in 1..Len(docs) /\ Kept(sv.rows, page[w].draft)
      /\ sv.stale \/ Kept(docs[sv.revision].rows, sv.rows)
  <2>1. Kept(page[w].draft, page[w].draft)
      BY DEF Kept
  <2>2. /\ Base(w) \in 1..Len(docs)
        /\ page[w].logins <= 1 => Kept(docs[Base(w)].rows, page[w].draft)
      BY <1>1 DEF PageFits
  <2> QED BY <1>4, <1>5, <2>1, <2>2
<1>7. saving' = [saving EXCEPT ![w] = sv] /\ UNCHANGED <<docs, adrift, open, page, stored, valuing, edits>>
    BY <1>2, <1>3 DEF PressSave
<1> QED BY <1>1, <1>5, <1>6, <1>7, OnlySaving DEF TypeOK

(* So does a save that fails.                                                 *)
LEMMA SaveFailsInv ==
    ASSUME PortfolioInv, NEW w \in Window, SaveFails(w)
    PROVE  PortfolioInv'
<1>1. PICK left \in Abandoned(w) : adrift' = adrift \cup left
    BY DEF SaveFails
<1>2. /\ adrift' \subseteq Document
      /\ \A b \in adrift' : b \in adrift \/ b.stale \/ Kept(Row.rows, b.rows)
    BY <1>1, AbandonedFits
<1>3. saving' = [saving EXCEPT ![w] = NoSave] /\ UNCHANGED <<docs, open, page, stored, valuing, edits>>
    BY DEF SaveFails
<1>4. NoSave \in Saving /\ NoSave.got = 0 /\ ~NoSave.on
    BY EmptyRows DEF NoSave
<1> QED BY <1>2, <1>3, <1>4, OnlySaving

(* The page is replaced: what it showed and waited for is forgotten.          *)
LEMMA UnloadStep ==
    ASSUME PortfolioInv, NEW w \in Window, Loaded(w), Unload(w),
           stored' \in [Window -> Stored],
           \A u \in Window \ {w} : stored'[u] = stored[u],
           stored'[w] # NoDraft =>
               /\ stored'[w].revision \in 1..Len(docs) /\ stored'[w].logins # 0
               /\ stored'[w].logins <= 1
                    => \A e \in docs[stored'[w].revision].rows \ stored'[w].rows :
                          edits'[e] = "discarded",
           edits' \in [Edit -> {"unmade", "made", "discarded"}], GivenUp,
           \A e \in Edit : edits'[e] = "made" =>
               /\ edits[e] = "made"
               /\ page[w].dirty /\ e \in page[w].draft => e \in stored'[w].rows
    PROVE  PortfolioInv'
<1>1. TypeOK /\ WindowFits(w) /\ DraftSurvives /\ page[w].market \in Market
    BY RowTypes DEF PortfolioInv
<1>2. /\ page' = [page EXCEPT ![w] = Blank(page[w].market)]
      /\ saving' = [saving EXCEPT ![w] = NoSave] /\ valuing' = [valuing EXCEPT ![w] = {}]
      /\ UNCHANGED <<docs, open>>
    BY DEF Unload
<1>3. PICK left \in Abandoned(w) : adrift' = adrift \cup left
    BY DEF Unload
<1>4. /\ adrift' \subseteq Document
      /\ \A b \in adrift' : b \in adrift \/ b.stale \/ Kept(Row.rows, b.rows)
    BY <1>3, AbandonedFits
<1>5. /\ page' \in [Window -> Page] /\ page'[w] = Blank(page[w].market)
      /\ \A u \in Window \ {w} : page'[u] = page[u]
    BY <1>1, <1>2, EmptyRows DEF TypeOK
<1>6. /\ saving' \in [Window -> Saving] /\ saving'[w] = NoSave
      /\ \A u \in Window \ {w} : saving'[u] = saving[u]
    BY <1>1, <1>2, EmptyRows DEF TypeOK
<1>7. /\ valuing' \in [Window -> SUBSET Valuing] /\ valuing'[w] = {}
      /\ \A u \in Window \ {w} : valuing'[u] = valuing[u]
    BY <1>1, <1>2 DEF TypeOK
<1>8. /\ page'[w].saved = 0 /\ page'[w].market = page[w].market
      /\ saving'[w].got = 0 /\ ~saving'[w].on /\ ~Loaded(w)'
    BY <1>5, <1>6 DEF Blank, NoSave, Loaded
<1>9. stored[w] = NoDraft
    BY <1>1 DEF WindowFits, StoredFits
<1>10. BlankFits(w)' /\ PageFits(w)' /\ SavingFits(w)' /\ ScreenFits(w)'
    BY <1>5, <1>6, <1>7, <1>8 DEF BlankFits, PageFits, SavingFits, ScreenFits
<1>11. StoredFits(w)'
    BY <1>2, <1>8 DEF StoredFits, Kept
<1>12. DraftSurvives'
  <2> SUFFICES ASSUME NEW e \in Edit, edits'[e] = "made"
               PROVE  \/ \E u \in Window : \/ page'[u].dirty /\ e \in page'[u].draft
                                           \/ e \in stored'[u].rows
                      \/ \E i \in 1..Len(docs) : e \in docs[i].rows
      BY <1>2 DEF DraftSurvives
  <2>1. CASE \E u \in Window : page[u].dirty /\ e \in page[u].draft
      BY <1>5, <2>1
  <2>2. CASE \E u \in Window : e \in stored[u].rows
      BY <1>9, <2>2 DEF NoDraft
  <2> QED BY <1>1, <2>1, <2>2 DEF DraftSurvives
<1>13. page'[w].saved <= Len(docs) /\ saving'[w].got <= Len(docs)
    BY <1>1, <1>8, RowTypes
<1>14. WindowFits(w)'
    BY <1>10, <1>11 DEF WindowFits
<1> QED BY <1>2, <1>4, <1>5, <1>6, <1>7, <1>8, <1>12, <1>13, <1>14, WindowStep

(* So does a reload of the page.                                              *)
LEMMA ReloadInv ==
    ASSUME PortfolioInv, NEW w \in Window, Reload(w)
    PROVE  PortfolioInv'
<1>1. TypeOK /\ Loaded(w) /\ Unload(w) /\ stored' = stored /\ stored[w] = NoDraft
    BY DEF PortfolioInv, WindowFits, StoredFits, Reload
<1>2. edits' = [e \in Edit |-> IF page[w].dirty /\ e \in page[w].draft
                               THEN "discarded" ELSE edits[e]]
    BY DEF Reload
<1>3. /\ edits' \in [Edit -> {"unmade", "made", "discarded"}] /\ GivenUp
      /\ \A e \in Edit : edits'[e] = "made" =>
            edits[e] = "made" /\ ~(page[w].dirty /\ e \in page[w].draft)
    BY <1>1, <1>2 DEF TypeOK, GivenUp
<1>4. stored' \in [Window -> Stored]
    BY <1>1 DEF TypeOK
<1> QED BY <1>1, <1>3, <1>4, UnloadStep

(* The draft waits for the login, with the revision on the page: after one     *)
(* login that is the one it was made from.                                     *)
LEMMA ResumeLoginInv ==
    ASSUME PortfolioInv, NEW w \in Window, ResumeLogin(w)
    PROVE  PortfolioInv'
<1>1. /\ TypeOK /\ Loaded(w) /\ Unload(w) /\ edits' = edits /\ stored[w] = NoDraft
      /\ PageFits(w) /\ page[w] \in Page
    BY RowTypes DEF PortfolioInv, WindowFits, StoredFits, ResumeLogin
<1>2. edits' \in [Edit -> {"unmade", "made", "discarded"}] /\ GivenUp
    BY <1>1 DEF TypeOK, GivenUp
<1>3. CASE ~page[w].dirty
  <2>1. stored' = stored /\ stored' \in [Window -> Stored]
      BY <1>1, <1>3 DEF ResumeLogin, TypeOK
  <2> QED BY <1>1, <1>2, <1>3, <2>1, UnloadStep
<1>4. CASE page[w].dirty
  <2>1. PICK st : st = [rows |-> page[w].draft, revision |-> page[w].saved,
                        logins |-> IF page[w].logins = 0 THEN 1 ELSE 2]
      OBVIOUS
  <2>2. /\ st \in Stored /\ st.rows = page[w].draft /\ st.revision = page[w].saved
        /\ st.logins # 0 /\ (st.logins <= 1 => page[w].logins = 0)
      BY <1>1, <2>1 DEF Page, Stored
  <2>3. stored' = [stored EXCEPT ![w] = st]
      BY <1>4, <2>1 DEF ResumeLogin
  <2>4. /\ stored' \in [Window -> Stored] /\ stored'[w] = st
        /\ \A u \in Window \ {w} : stored'[u] = stored[u]
      BY <1>1, <2>2, <2>3 DEF TypeOK
  <2>5. st.revision \in 1..Len(docs)
      BY <1>1, <2>2, RowTypes DEF Loaded
  <2>6. st.logins <= 1 => \A e \in docs[st.revision].rows \ st.rows : edits'[e] = "discarded"
      BY <1>1, <2>2 DEF PageFits, Base, Kept
  <2> QED BY <1>1, <1>2, <2>2, <2>4, <2>5, <2>6, UnloadStep
<1> QED BY <1>3, <1>4

(* The answer to a save: the document that was saved is the new base, and what *)
(* was edited meanwhile stays an unsaved draft.                                *)
LEMMA ReceiveSavedInv ==
    ASSUME PortfolioInv, NEW w \in Window, ReceiveSaved(w)
    PROVE  PortfolioInv'
<1>1. /\ TypeOK /\ WindowFits(w) /\ DraftSurvives /\ page[w] \in Page /\ saving[w].got # 0
      /\ page[w].market \in Market
    BY RowTypes DEF PortfolioInv, ReceiveSaved
<1>2. /\ saving[w].on /\ docs[saving[w].got].rows = saving[w].rows
      /\ Kept(saving[w].rows, page[w].draft) /\ Loaded(w)
    BY <1>1 DEF WindowFits, SavingFits, TypeOK, Loaded
<1>3. /\ saving[w].got \in 1..Len(docs) /\ saving[w].got \in Revisions
      /\ saving[w].rows \subseteq Edit /\ page[w].draft \subseteq Edit
  <2>1. saving[w] \in Saving
      BY <1>1, RowTypes
  <2> QED BY <1>1, <2>1, RowTypes DEF Saving
<1>4. PICK dirty \in BOOLEAN : dirty = (page[w].dirty /\ page[w].draft # saving[w].rows)
    BY <1>1 DEF Page
<1>5. PICK row : row = [page[w] EXCEPT !.saved = saving[w].got, !.recovered = 0, !.logins = 0,
                            !.draft = page[w].draft, !.dirty = dirty, !.screen = Awaited]
    OBVIOUS
<1>6. /\ row \in Page /\ row.saved = saving[w].got /\ row.recovered = 0 /\ row.logins = 0
      /\ row.draft = page[w].draft /\ row.screen = Awaited /\ row.market = page[w].market
      /\ row.dirty = dirty
  <2>1. 0 \in Revisions /\ 0 \in 0..2 /\ Awaited \in {"old", "current", "failed"}
      BY <1>1, RowTypes DEF Awaited
  <2> HIDE DEF Awaited, Revisions
  <2>2. row \in Page
      BY <1>1, <1>3, <1>4, <1>5, <2>1 DEF Page
  <2> QED BY <1>1, <1>5, <2>2 DEF Page
<1>7. /\ page' = [page EXCEPT ![w] = row] /\ saving' = [saving EXCEPT ![w] = NoSave]
      /\ valuing' = Asking(w, page[w].market, TRUE)
      /\ UNCHANGED <<docs, adrift, open, stored, edits>>
  <2>1. page' = [page EXCEPT ![w] = row]
    <3>1. CASE page[w].draft = saving[w].rows
        BY <1>1, <1>2, <1>4, <1>5, <3>1 DEF ReceiveSaved, TypeOK
    <3>2. CASE page[w].draft # saving[w].rows
        BY <1>1, <1>4, <1>5, <3>2 DEF ReceiveSaved, TypeOK
    <3> QED BY <3>1, <3>2
  <2> QED BY <2>1 DEF ReceiveSaved
<1>8. /\ page' \in [Window -> Page] /\ page'[w] = row
      /\ \A u \in Window \ {w} : page'[u] = page[u]
    BY <1>1, <1>6, <1>7 DEF TypeOK
<1>9. /\ saving' \in [Window -> Saving] /\ saving'[w] = NoSave
      /\ \A u \in Window \ {w} : saving'[u] = saving[u]
    BY <1>1, <1>7, EmptyRows DEF TypeOK
<1>10. /\ valuing' \in [Window -> SUBSET Valuing]
       /\ \A u \in Window \ {w} : valuing'[u] = valuing[u]
    BY <1>1, <1>7, AskingCounts
<1>11. ScreenFits(w)'
    BY <1>1, <1>6, <1>7, <1>8, ScreenAwaits
<1>12. Loaded(w)' /\ Base(w)' = saving[w].got
    BY <1>1, <1>6, <1>8 DEF Loaded, Base
<1>13. PageFits(w)'
    BY <1>2, <1>3, <1>6, <1>7, <1>8, <1>12 DEF PageFits, Kept
<1>14. BlankFits(w)' /\ SavingFits(w)' /\ StoredFits(w)'
    BY <1>1, <1>2, <1>7, <1>9, <1>12 DEF WindowFits, BlankFits, SavingFits, StoredFits, NoSave
<1>15. DraftSurvives'
  <2> SUFFICES ASSUME NEW e \in Edit, edits[e] = "made"
               PROVE  \/ \E u \in Window : \/ page'[u].dirty /\ e \in page'[u].draft
                                           \/ e \in stored[u].rows
                      \/ \E i \in 1..Len(docs) : e \in docs[i].rows
      BY <1>7 DEF DraftSurvives
  <2>1. CASE page[w].dirty /\ e \in page[w].draft
    <3>1. CASE page[w].draft = saving[w].rows
        BY <1>2, <1>3, <2>1, <3>1
    <3>2. CASE page[w].draft # saving[w].rows
        BY <1>4, <1>8, <1>6, <2>1, <3>2
    <3> QED BY <3>1, <3>2
  <2>2. CASE \E u \in Window \ {w} : page[u].dirty /\ e \in page[u].draft
      BY <1>8, <2>2
  <2> QED BY <1>1, <2>1, <2>2 DEF DraftSurvives
<1>16. page'[w].saved <= Len(docs) /\ saving'[w].got <= Len(docs) /\ ~saving'[w].on
    BY <1>1, <1>3, <1>6, <1>8, <1>9, RowTypes DEF NoSave
<1>17. WindowFits(w)' /\ GivenUp
    BY <1>7, <1>11, <1>13, <1>14 DEF WindowFits, GivenUp
<1> QED BY <1>1, <1>7, <1>8, <1>9, <1>10, <1>15, <1>16, <1>17, WindowStep DEF TypeOK

(* A valuation's answer or its failure: one call less, and at most what the    *)
(* page shows is new.                                                          *)
LEMMA OnlyScreen ==
    ASSUME PortfolioInv, NEW w \in Window, NEW v \in valuing[w],
           NEW screen \in {"old", "current", "failed"},
           page' = [page EXCEPT ![w].screen = screen],
           valuing' = [valuing EXCEPT ![w] = valuing[w] \ {v}],
           UNCHANGED <<docs, adrift, open, stored, saving, edits>>,
           screen = "old" /\ page[w].saved = Len(docs) =>
               /\ page[w].screen = "old"
               /\ v.current => v.answer \notin {0, page[w].saved}
    PROVE  PortfolioInv'
<1>1. TypeOK /\ WindowFits(w) /\ DraftSurvives /\ page[w] \in Page /\ Viewing /\ Viewing' = Viewing
    BY RowTypes DEF PortfolioInv, WindowFits, ScreenFits, Viewing
<1>2. PICK row : row = [page[w] EXCEPT !.screen = screen]
    OBVIOUS
<1>3. /\ row \in Page /\ row.draft = page[w].draft /\ row.dirty = page[w].dirty
      /\ row.saved = page[w].saved /\ row.recovered = page[w].recovered
      /\ row.logins = page[w].logins /\ row.market = page[w].market /\ row.screen = screen
    BY <1>1, <1>2 DEF Page
<1>4. /\ page' \in [Window -> Page] /\ page'[w] = row
      /\ \A u \in Window \ {w} : page'[u] = page[u]
    BY <1>1, <1>2, <1>3 DEF TypeOK
<1>5. /\ valuing' \in [Window -> SUBSET Valuing] /\ valuing'[w] = valuing[w] \ {v}
      /\ \A u \in Window \ {w} : valuing'[u] = valuing[u]
  <2>1. valuing[w] \ {v} \subseteq Valuing
      BY <1>1, RowTypes
  <2> QED BY <1>1, <2>1 DEF TypeOK
<1>6. Loaded(w) /\ Loaded(w)' /\ Base(w)' = Base(w)
    BY <1>1, <1>3, <1>4 DEF WindowFits, BlankFits, Loaded, Base
<1>7. BlankFits(w)' /\ PageFits(w)' /\ StoredFits(w)' /\ SavingFits(w)'
    BY <1>1, <1>3, <1>4, <1>6
       DEF WindowFits, BlankFits, PageFits, StoredFits, SavingFits, Kept
<1>8. ScreenFits(w)'
  <2>1. ScreenFits(w)
      BY <1>1 DEF WindowFits
  <2>2. ASSUME page[w].saved = Len(docs), screen = "old"
        PROVE  \E c \in valuing[w] \ {v} : c.current /\ c.answer \in {0, page[w].saved}
      BY <1>1, <1>6, <2>1, <2>2 DEF ScreenFits
  <2> QED BY <1>1, <1>3, <1>4, <1>5, <2>1, <2>2 DEF ScreenFits
<1>9. DraftSurvives'
  <2>1. DocsGrow /\ \A u \in Window : /\ page'[u].draft = page[u].draft
                                      /\ page'[u].dirty = page[u].dirty
      BY <1>1, <1>3, <1>4, RowTypes DEF DocsGrow
  <2> QED BY <1>1, <2>1, StillSurvives
<1>10. page'[w].saved <= Len(docs) /\ saving'[w].got <= Len(docs)
       /\ (saving'[w].on => page'[w].saved # 0)
    BY <1>1, <1>3, <1>4, RowTypes DEF TypeOK
<1>11. WindowFits(w)' /\ GivenUp
    BY <1>7, <1>8 DEF WindowFits, GivenUp
<1> QED BY <1>1, <1>4, <1>5, <1>9, <1>10, <1>11, WindowStep DEF TypeOK

(* So does the answer to a valuation.                                         *)
LEMMA ReceiveValuationInv ==
    ASSUME PortfolioInv, NEW w \in Window, NEW v \in valuing[w], ReceiveValuation(w, v)
    PROVE  PortfolioInv'
<1>1. /\ TypeOK /\ page[w] \in Page /\ (v.current => v.market = page[w].market)
      /\ page \in [Window -> Page] /\ v.answer # 0
    BY RowTypes DEF PortfolioInv, WindowFits, ScreenFits, TypeOK, ReceiveValuation
<1>2. /\ valuing' = [valuing EXCEPT ![w] = valuing[w] \ {v}]
      /\ UNCHANGED <<docs, adrift, open, stored, saving, edits>>
    BY DEF ReceiveValuation
<1>3. CASE v.current /\ v.answer = page[w].saved
  <2>1. page' = [page EXCEPT ![w].screen = "current"]
      BY <1>1, <1>3 DEF ReceiveValuation
  <2> QED BY <1>2, <2>1, OnlyScreen
<1>4. CASE ~(v.current /\ v.answer = page[w].saved)
  <2>1. page[w].screen \in {"old", "current", "failed"}
      BY <1>1 DEF Page
  <2>2. page' = [page EXCEPT ![w].screen = page[w].screen]
      BY <1>1, <1>4 DEF ReceiveValuation, Page
  <2> QED BY <1>1, <1>2, <1>4, <2>1, <2>2, OnlyScreen
<1> QED BY <1>3, <1>4

(* So does a valuation that fails.                                            *)
LEMMA ValuationFailsInv ==
    ASSUME PortfolioInv, NEW w \in Window, NEW v \in valuing[w], ValuationFails(w, v)
    PROVE  PortfolioInv'
<1>1. TypeOK /\ page[w] \in Page /\ page \in [Window -> Page]
    BY RowTypes DEF PortfolioInv, TypeOK
<1>2. PICK screen : screen = IF v.current /\ page[w].screen = "old" THEN "failed"
                             ELSE page[w].screen
    OBVIOUS
<1>3. screen \in {"old", "current", "failed"} /\ (screen = "old" => page[w].screen = "old" /\ ~v.current)
    BY <1>1, <1>2 DEF Page
<1>4. /\ page' = [page EXCEPT ![w].screen = screen]
      /\ valuing' = [valuing EXCEPT ![w] = valuing[w] \ {v}]
      /\ UNCHANGED <<docs, adrift, open, stored, saving, edits>>
    BY <1>1, <1>2 DEF ValuationFails
<1> QED BY <1>3, <1>4, OnlyScreen

-----------------------------------------------------------------------------

(* The invariant is inductive.                                                *)
LEMMA NextPortfolio == PortfolioInv /\ [Next]_vars => PortfolioInv'
<1> SUFFICES ASSUME PortfolioInv, [Next]_vars PROVE PortfolioInv'
    OBVIOUS
<1>1. CASE UNCHANGED vars
    BY <1>1 DEF vars, PortfolioInv, TypeOK, AdriftFits, LostOnlyAfterTwoLogins, DraftSurvives,
                WindowFits, BlankFits, PageFits, StoredFits, SavingFits, ScreenFits, Loaded, Base,
                Kept, Viewing, Row
<1>2. ASSUME NEW w \in Window, Load(w) \/ Reload(w) \/ ResumeLogin(w) PROVE PortfolioInv'
    BY <1>2, LoadInv, ReloadInv, ResumeLoginInv
<1>3. ASSUME NEW w \in Window, NEW e \in Edit, MakeEdit(w, e) \/ ConfirmImport(w, e)
      PROVE  PortfolioInv'
    BY <1>3, MakeEditInv, ConfirmImportInv
<1>4. ASSUME NEW w \in Window, NEW market \in Market, ShowAgain(w, market) PROVE PortfolioInv'
    BY <1>4, ShowAgainInv
<1>5. ASSUME NEW w \in Window, PressSave(w) \/ HandleSave(w) \/ ReceiveSaved(w) \/ SaveFails(w)
      PROVE  PortfolioInv'
    BY <1>5, PressSaveInv, HandleSaveInv, ReceiveSavedInv, SaveFailsInv
<1>6. ASSUME NEW w \in Window, NEW v \in valuing[w],
             HandleValuation(w, v) \/ ReceiveValuation(w, v) \/ ValuationFails(w, v)
      PROVE  PortfolioInv'
    BY <1>6, HandleValuationInv, ReceiveValuationInv, ValuationFailsInv
<1>7. ASSUME NEW b \in adrift, HandleAdrift(b) PROVE PortfolioInv'
    BY <1>7, HandleAdriftInv
<1> QED BY <1>1, <1>2, <1>3, <1>4, <1>5, <1>6, <1>7 DEF Next

(* Through every login, lost answer, conflict and late save of any number of   *)
(* windows.                                                                    *)
THEOREM PortfolioIsKept == Spec => []PortfolioInv
<1>1. Init => PortfolioInv
    BY InitPortfolio
<1>2. PortfolioInv /\ [Next]_vars => PortfolioInv'
    BY NextPortfolio
<1> QED BY <1>1, <1>2, PTL DEF Spec

(* Types, and that no page or answer is ahead of the row. *)
THEOREM PortfolioTypeCorrect == Spec => []TypeOK
<1>1. PortfolioInv => TypeOK
    BY DEF PortfolioInv
<1> QED BY <1>1, PortfolioIsKept, PTL

(* A save drops no edit that is in the row and was not given up, but for a      *)
(* draft that went through two logins.                                          *)
THEOREM SavesKeepOthersEdits == Spec => []LostOnlyAfterTwoLogins
<1>1. PortfolioInv => LostOnlyAfterTwoLogins
    BY DEF PortfolioInv
<1> QED BY <1>1, PortfolioIsKept, PTL

(* What was typed is in an unsaved draft, in the browser's storage or in a      *)
(* document, until its user gives it up.                                        *)
THEOREM EditsSurvive == Spec => []DraftSurvives
<1>1. PortfolioInv => DraftSurvives
    BY DEF PortfolioInv
<1> QED BY <1>1, PortfolioIsKept, PTL

(* A page that waits for nothing shows the values of the list it shows, or an   *)
(* error, in whatever order the answers came.                                   *)
THEOREM ScreensSettle == Spec => []ScreenSettles
<1>1. PortfolioInv => ScreenSettles
    BY DEF PortfolioInv, WindowFits, ScreenFits, ScreenSettles
<1> QED BY <1>1, PortfolioIsKept, PTL
=============================================================================
