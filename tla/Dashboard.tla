----------------------------- MODULE Dashboard -----------------------------
(***************************************************************************)
(* The dashboard editor of the web client (views/Dashboard): the tabs,     *)
(* cards and items it shows, what is selected, and the rows of the server  *)
(* behind its API.                                                         *)
(*                                                                         *)
(* The page is single-threaded: an operation runs to its await, and its    *)
(* rest when the answer is there.  Meanwhile the user goes on.  Requests   *)
(* are served in any order, may be refused, and an answer may be lost (the *)
(* client gives up after a minute).  Titles, styles and weights are left   *)
(* out, and with them the requests that only update a row.  An index is as *)
(* in the code, from 0; -1 stands for undefined too, which every guard and *)
(* every look-up by it treat alike.                                        *)
(*                                                                         *)
(* The dashboard may be loaded again while requests are under way.  Their  *)
(* answers then go to objects the page has dropped.  Where such an answer  *)
(* would put a second object of one row on the page (a twin) it is not     *)
(* followed.                                                               *)
(***************************************************************************)
EXTENDS Integers, Sequences, FiniteSets
Seqs == INSTANCE SequencesExt

CONSTANTS
    Tabs, Cards, Items,  \* ids of rows
    Calls,               \* the operations the user may begin, each once
    Nothing,
    Shown,               \* the tabs of the dashboard that is opened,
    CardsShown,          \* the cards of each tab,
    ItemsShown           \* and the items of each card

Ids == Tabs \cup Cards \cup Items

Elements(s) == Seqs!ToSet(s)
Once(s) == \A i, j \in DOMAIN s : s[i] = s[j] => i = j

\* A row has one parent, and its place in the list of that.
ASSUME DashboardAssumption ==
    /\ Nothing \notin Ids
    /\ IsFiniteSet(Ids)
    /\ Tabs \cap Cards = {} /\ Tabs \cap Items = {} /\ Cards \cap Items = {}
    /\ Shown \in Seq(Tabs) /\ Once(Shown)
    /\ CardsShown \in [Tabs -> Seq(Cards)]
    /\ \A t \in Tabs : Once(CardsShown[t]) /\ (CardsShown[t] # <<>> => t \in Elements(Shown))
    /\ \A t, u \in Tabs : Elements(CardsShown[t]) \cap Elements(CardsShown[u]) # {} => t = u
    /\ ItemsShown \in [Cards -> Seq(Items)]
    /\ \A c \in Cards :
           Once(ItemsShown[c]) /\ (ItemsShown[c] # <<>> => \E t \in Tabs : c \in Elements(CardsShown[t]))
    /\ \A c, d \in Cards : Elements(ItemsShown[c]) \cap Elements(ItemsShown[d]) # {} => c = d

VARIABLES
    tabs,           \* Core.tabs
    cardsOf,        \* tab -> Tab.cards, of tabs that are no longer shown, too
    itemsOf,        \* card -> Card.items
    activeTabIdx,
    activeCard,
    currentCardId,
    savedTabs,      \* the server's tabs,
    tabOf,          \* card -> the tab of its row, or Nothing
    cardOf,         \* item -> the card of its row, or Nothing
    issued,         \* ids the server has given out
    call,           \* operation -> [op, at, tab, card, index, ids], Unbegun or Over
    reload,         \* the load under way: [at, tabs, tabOf, cardOf, stale]
    orphaned,       \* operations whose tab or card the page has dropped since
    strayed,        \* history: activeCard and currentCardId may name two cards
    lost            \* history: ids whose answer was lost or applied elsewhere;
                    \* Ids after a load that met a request

objects == <<tabs, cardsOf, itemsOf>>
selection == <<activeTabIdx, activeCard, currentCardId>>
rows == <<savedTabs, tabOf, cardOf, issued>>
loads == <<reload, orphaned>>
boardVars == <<objects, selection, rows, call, loads, strayed, lost>>

Nth(s, i) == IF i + 1 \in DOMAIN s THEN s[i + 1] ELSE Nothing
PlaceOf(s, x) == Seqs!SelectInSeq(s, LAMBDA y : y = x) - 1
Without(s, i) == IF i + 1 \in DOMAIN s THEN Seqs!RemoveAt(s, i + 1) ELSE s
SwapFrom(s, i) == [s EXCEPT ![i + 1] = s[i + 2], ![i + 2] = s[i + 1]]
HolderOf(x, f) == IF \E y \in DOMAIN f : x \in Elements(f[y])
                  THEN CHOOSE y \in DOMAIN f : x \in Elements(f[y]) ELSE Nothing

\* getActiveTab, and the card that activeCard is the index of.
ActiveTab == Nth(tabs, activeTabIdx)
ActiveCards == IF ActiveTab = Nothing THEN <<>> ELSE cardsOf[ActiveTab]
FormCard == Nth(ActiveCards, activeCard)

Unbegun == [op |-> "none", at |-> "idle", tab |-> Nothing, card |-> Nothing, index |-> -1, ids |-> <<>>]
Over == [Unbegun EXCEPT !.at = "over"]
NoReload == [at |-> "idle", tabs |-> {}, tabOf |-> [c \in Cards |-> Nothing],
             cardOf |-> [i \in Items |-> Nothing], stale |-> FALSE]

\* The ids a request is about.
AtStake(k) == Elements(call[k].ids) \cup (IF call[k].op = "removeTab" THEN {call[k].tab} ELSE {})
UnderWay == {k \in Calls : call[k].at \notin {"idle", "over"}}

\* The dashboard was fetched and its first card selected.
BoardInit ==
    /\ tabs = Shown
    /\ cardsOf = CardsShown
    /\ itemsOf = ItemsShown
    /\ activeTabIdx = 0
    /\ activeCard = IF ActiveCards = <<>> THEN -1 ELSE 0
    /\ currentCardId = FormCard
    /\ savedTabs = Elements(Shown)
    /\ tabOf = [c \in Cards |-> HolderOf(c, CardsShown)]
    /\ cardOf = [i \in Items |-> HolderOf(i, ItemsShown)]
    /\ issued = savedTabs \cup {c \in Cards : tabOf[c] # Nothing} \cup {i \in Items : cardOf[i] # Nothing}
    /\ call = [k \in Calls |-> Unbegun]
    /\ reload = NoReload
    /\ orphaned = {}
    /\ strayed = FALSE
    /\ lost = {}

-----------------------------------------------------------------------------
(* What the user does without a request.                                    *)

\* A click on a tab, or in the menu of tabs: the card stays selected.
SelectTab(i) ==
    /\ i \in 0 .. Len(tabs) - 1
    /\ i # activeTabIdx
    /\ activeTabIdx' = i
    /\ strayed' = (strayed \/ activeCard >= 0)
    /\ UNCHANGED <<objects, activeCard, currentCardId, rows, call, loads, lost>>

\* onSelectedCard, on a click on a card, or on an item of one that is not
\* flagged active, in the active tab.
SelectCard(c) ==
    /\ c \in Elements(ActiveCards)
    /\ activeCard' = PlaceOf(ActiveCards, c)
    /\ currentCardId' = c
    /\ strayed' = FALSE
    /\ UNCHANGED <<objects, activeTabIdx, rows, call, loads, lost>>

\* sortCardUp and sortCardDown: activeCard stays.
SortCards(i) ==
    /\ i \in 0 .. Len(ActiveCards) - 2
    /\ cardsOf' = [cardsOf EXCEPT ![ActiveTab] = SwapFrom(@, i)]
    /\ strayed' = (strayed \/ activeCard \in {i, i + 1})
    /\ UNCHANGED <<tabs, itemsOf, selection, rows, call, loads, lost>>

\* sortCardItemUp and sortCardItemDown, in the list of the form's card.
SortItems(i) ==
    /\ FormCard # Nothing
    /\ i \in 0 .. Len(itemsOf[FormCard]) - 2
    /\ itemsOf' = [itemsOf EXCEPT ![FormCard] = SwapFrom(@, i)]
    /\ UNCHANGED <<tabs, cardsOf, selection, rows, call, loads, strayed, lost>>

-----------------------------------------------------------------------------
(* Operations up to their await.                                            *)

Send(k, op, t, c, i, ids) ==
    /\ call[k].at = "idle"
    /\ call' = [call EXCEPT ![k] = [op |-> op, at |-> "sent", tab |-> t, card |-> c,
                                    index |-> i, ids |-> ids]]

\* createTab, and importTab of a tab with cards or without.
AddTab(k) ==
    /\ Send(k, "addTab", Nothing, Nothing, -1, <<>>)
    /\ UNCHANGED <<objects, selection, rows, loads, strayed, lost>>

\* Mutant of RemoveTab: the selection is kept.
RemoveTabOnly(k) ==
    /\ ActiveTab # Nothing
    /\ Send(k, "removeTab", ActiveTab, Nothing, -1, <<>>)
    /\ tabs' = Without(tabs, activeTabIdx)
    /\ activeTabIdx' = IF Len(tabs) > 1 THEN Len(tabs) - 2 ELSE 0
    /\ UNCHANGED <<cardsOf, itemsOf, activeCard, currentCardId, rows, loads,
                   strayed, lost>>

\* removeTab: the tab leaves the page before the server is asked; the last
\* one becomes active, and getActiveTab makes the index 0 if there is none.
RemoveTab(k) ==
    /\ ActiveTab # Nothing
    /\ Send(k, "removeTab", ActiveTab, Nothing, -1, <<>>)
    /\ tabs' = Without(tabs, activeTabIdx)
    /\ activeTabIdx' = IF Len(tabs) > 1 THEN Len(tabs) - 2 ELSE 0
    /\ activeCard' = -1
    /\ currentCardId' = Nothing
    /\ strayed' = FALSE
    /\ UNCHANGED <<cardsOf, itemsOf, rows, loads, lost>>

\* createCard and importCard, for the tab that is active now.
AddCard(k, op) ==
    /\ ActiveTab # Nothing
    /\ Send(k, op, ActiveTab, Nothing, -1, <<>>)
    /\ UNCHANGED <<objects, selection, rows, loads, strayed, lost>>

\* A menu keeps its card while an answer makes another tab active.
MenuCards(t) ==
    IF t = ActiveTab \/ \E k \in Calls : call[k].at = "over" THEN Elements(cardsOf[t]) ELSE {}
InMenu(c) == \E t \in Elements(tabs) : c \in MenuCards(t)

\* removeCard: of a card's menu, or of the form, which names no card.
RemoveCard(k, c) ==
    /\ ActiveTab # Nothing
    /\ \/ InMenu(c)
       \/ FormCard # Nothing /\ c = currentCardId
    /\ Send(k, "removeCard", ActiveTab, c, -1, <<c>>)
    /\ UNCHANGED <<objects, selection, rows, loads, strayed, lost>>

\* createCardItem, from a card's menu or for the form's card: the index is
\* the one in the card's tab.
CreateItem(k, c) ==
    /\ Send(k, "addItem", Nothing, c, -1, <<>>)
    /\ \E t \in Elements(tabs) :
           /\ c \in MenuCards(t)
           /\ activeCard' = PlaceOf(cardsOf[t], c)
           /\ strayed' = (t # ActiveTab)
    /\ currentCardId' = c
    /\ UNCHANGED <<objects, activeTabIdx, rows, loads, lost>>

\* importCardItem and copyItem select nothing.
CopyItem(k, c) ==
    /\ InMenu(c)
    /\ Send(k, "addItem", Nothing, c, -1, <<>>)
    /\ UNCHANGED <<objects, selection, rows, loads, strayed, lost>>

\* removeCardItem and removeCardItemById: the item is named to the server by
\* its id, and kept by its index.
RemoveItem(k, c, i) ==
    /\ InMenu(c)
    /\ i \in 0 .. Len(itemsOf[c]) - 1
    /\ Send(k, "removeItem", Nothing, c, i, <<itemsOf[c][i + 1]>>)
    /\ UNCHANGED <<objects, selection, rows, loads, strayed, lost>>

-----------------------------------------------------------------------------
(* The server, whose foreign keys cascade.                                  *)

\* Begin the load of "Load from server" (fetchDashboard); the editor is not
\* shown until its answer is there.
Load ==
    /\ reload.at = "idle"
    /\ reload' = [NoReload EXCEPT !.at = "sent"]
    /\ UNCHANGED <<objects, selection, rows, call, orphaned, strayed, lost>>

\* The server reads the tabs, their cards and the items of those, one after
\* the other.
Under(f, S) == [x \in DOMAIN f |-> IF f[x] \in S THEN f[x] ELSE Nothing]

ReadTabs ==
    /\ reload.at = "sent"
    /\ reload' = [reload EXCEPT !.at = "tabs", !.tabs = savedTabs]
    /\ UNCHANGED <<objects, selection, rows, call, orphaned, strayed, lost>>

ReadCards ==
    /\ reload.at = "tabs"
    /\ reload' = [reload EXCEPT !.at = "cards", !.tabOf = Under(tabOf, reload.tabs)]
    /\ UNCHANGED <<objects, selection, rows, call, orphaned, strayed, lost>>

ReadItems ==
    /\ reload.at = "cards"
    /\ reload' = [reload EXCEPT !.at = "done",
           !.cardOf = Under(cardOf, {c \in Cards : reload.tabOf[c] # Nothing})]
    /\ UNCHANGED <<objects, selection, rows, call, orphaned, strayed, lost>>

LoadFails ==
    /\ reload.at # "idle"
    /\ reload' = NoReload
    /\ UNCHANGED <<objects, selection, rows, call, orphaned, strayed, lost>>

\* The answer of a request that was served arrives or not; a load that has
\* begun to read is stale.
Reply(k, ids, arrives) ==
    /\ call' = [call EXCEPT ![k].at = IF arrives THEN "done" ELSE "failed", ![k].ids = ids]
    /\ lost' = IF arrives THEN lost ELSE lost \cup AtStake(k)'
    /\ reload' = [reload EXCEPT !.stale = reload.at \in {"tabs", "cards", "done"}]
    /\ UNCHANGED <<objects, selection, orphaned, strayed>>

Fresh(S) == S \ issued

ServeAdd(k, arrives) ==
    /\ call[k].at = "sent"
    /\ \/ /\ call[k].op = "addTab"
          /\ \E t \in Fresh(Tabs), cs \in {<<>>} \cup {<<c>> : c \in Fresh(Cards)} :
                 /\ savedTabs' = savedTabs \cup {t}
                 /\ tabOf' = [c \in Cards |-> IF c \in Elements(cs) THEN t ELSE tabOf[c]]
                 /\ Reply(k, <<t>> \o cs, arrives)
          /\ UNCHANGED cardOf
       \/ /\ call[k].op \in {"createCard", "importCard"}
          /\ call[k].tab \in savedTabs
          /\ \E c \in Fresh(Cards),
                is \in {<<>>} \cup {<<i>> : i \in {j \in Fresh(Items) : call[k].op = "importCard"}} :
                 /\ tabOf' = [tabOf EXCEPT ![c] = call[k].tab]
                 /\ cardOf' = [i \in Items |-> IF i \in Elements(is) THEN c ELSE cardOf[i]]
                 /\ Reply(k, <<c>> \o is, arrives)
          /\ UNCHANGED savedTabs
       \/ /\ call[k].op = "addItem"
          /\ tabOf[call[k].card] # Nothing
          /\ \E i \in Fresh(Items) :
                 /\ cardOf' = [cardOf EXCEPT ![i] = call[k].card]
                 /\ Reply(k, <<i>>, arrives)
          /\ UNCHANGED <<savedTabs, tabOf>>
    /\ issued' = issued \cup Elements(call'[k].ids)

DeleteRows(ts, cs, is) ==
    /\ savedTabs' = savedTabs \ ts
    /\ tabOf' = [c \in Cards |-> IF c \in cs \/ tabOf[c] \in ts THEN Nothing ELSE tabOf[c]]
    /\ cardOf' = [i \in Items |->
           IF i \in is \/ cardOf[i] \notin {c \in Cards : tabOf'[c] # Nothing} THEN Nothing ELSE cardOf[i]]
    /\ UNCHANGED issued

ServeRemove(k, arrives) ==
    /\ call[k].at = "sent"
    /\ \/ /\ call[k].op = "removeTab"
          /\ call[k].tab \in savedTabs
          /\ DeleteRows({call[k].tab}, {}, {})
       \/ /\ call[k].op = "removeCard"
          /\ tabOf[call[k].card] # Nothing
          /\ DeleteRows({}, {call[k].card}, {})
       \/ /\ call[k].op = "removeItem"
          /\ cardOf[call[k].ids[1]] # Nothing
          /\ DeleteRows({}, {}, Elements(call[k].ids))
    /\ Reply(k, call[k].ids, arrives)

\* A row is missing, a value is not valid, or the server cannot be reached.
Refuse(k) ==
    /\ call[k].at = "sent"
    /\ call' = [call EXCEPT ![k].at = "failed"]
    /\ UNCHANGED <<objects, selection, rows, loads, strayed, lost>>

-----------------------------------------------------------------------------
(* What is left of an operation when the answer is there.                   *)

Answered(k, ops) ==
    /\ call[k].at = "done"
    /\ call[k].op \in ops
    /\ call' = [call EXCEPT ![k] = Over]

\* The operation goes on with a tab or a card the page has dropped.
Aside(k, ops) ==
    /\ call[k].at \in {"done", "twin"}
    /\ k \in orphaned
    /\ call[k].op \in ops
    /\ call' = [call EXCEPT ![k] = Over]

TabAdded(k) ==
    /\ Answered(k, {"addTab"})
    /\ LET t == Head(call[k].ids) IN
           /\ tabs' = Append(tabs, t)
           /\ cardsOf' = [cardsOf EXCEPT ![t] = Tail(call[k].ids)]
    /\ activeTabIdx' = Len(tabs)
    /\ activeCard' = -1
    /\ currentCardId' = Nothing
    /\ strayed' = FALSE
    /\ UNCHANGED <<itemsOf, rows, loads, lost>>

\* Mutant of CardCreated: the card goes to the tab that is active.
CardCreatedHere(k) ==
    /\ Answered(k, {"createCard"})
    /\ k \notin orphaned
    /\ LET c == Head(call[k].ids) IN
           /\ cardsOf' = [cardsOf EXCEPT ![ActiveTab] = Append(@, c)]
           /\ activeCard' = Len(ActiveCards)
           /\ currentCardId' = c
           /\ strayed' = FALSE
    /\ UNCHANGED <<tabs, itemsOf, activeTabIdx, rows, loads, lost>>

\* createCard goes on with the tab it began with, active or not.
CardCreated(k) ==
    /\ Answered(k, {"createCard"})
    /\ k \notin orphaned
    /\ LET c == Head(call[k].ids)
           t == call[k].tab
       IN
           /\ cardsOf' = [cardsOf EXCEPT ![t] = Append(@, c)]
           /\ activeCard' = Len(cardsOf[t])
           /\ currentCardId' = c
           /\ strayed' = (t # ActiveTab)
    /\ UNCHANGED <<tabs, itemsOf, activeTabIdx, rows, loads, lost>>

\* If the page has dropped that tab the card is its last one still: the
\* index is any a list of cards has.
CardCreatedAside(k) ==
    /\ Aside(k, {"createCard"})
    /\ activeCard' \in 0 .. Cardinality(Cards) - 1
    /\ currentCardId' = Head(call[k].ids)
    /\ strayed' = TRUE
    /\ UNCHANGED <<objects, activeTabIdx, rows, loads, lost>>

\* importCard takes the tab that is active by then; if there is none it throws.
CardImported(k) ==
    /\ Answered(k, {"importCard"})
    /\ LET c == Head(call[k].ids) IN
           /\ cardsOf' = IF ActiveTab = Nothing THEN cardsOf
                         ELSE [cardsOf EXCEPT ![ActiveTab] = Append(@, c)]
           /\ itemsOf' = [itemsOf EXCEPT ![c] = Tail(call[k].ids)]
           /\ lost' = IF ActiveTab = call[k].tab THEN lost ELSE lost \cup {c}
    /\ UNCHANGED <<tabs, selection, rows, loads, strayed>>

\* removeCard looks for the card in the tab it began with.
CardRemoved(k) ==
    /\ Answered(k, {"removeCard"})
    /\ LET c == call[k].card
           t == call[k].tab
       IN
           /\ cardsOf' = IF k \in orphaned THEN cardsOf
                         ELSE [cardsOf EXCEPT ![t] = Seqs!RemoveFirst(@, c)]
           /\ lost' = IF c \in Elements(cardsOf[t]) THEN lost ELSE lost \cup {c}
    /\ activeCard' = -1
    /\ currentCardId' = Nothing
    /\ strayed' = FALSE
    /\ UNCHANGED <<tabs, itemsOf, activeTabIdx, rows, loads>>

ItemAdded(k) ==
    /\ Answered(k, {"addItem"})
    /\ k \notin orphaned
    /\ LET c == call[k].card IN
           /\ itemsOf' = [itemsOf EXCEPT ![c] = @ \o call[k].ids]
    /\ UNCHANGED <<tabs, cardsOf, selection, rows, loads, strayed, lost>>

\* Mutant of ItemRemoved: the index is off by one.
ItemRemovedNext(k) ==
    /\ Answered(k, {"removeItem"})
    /\ k \notin orphaned
    /\ LET c == call[k].card
           spliced == Nth(itemsOf[c], call[k].index)
       IN
           /\ itemsOf' = [itemsOf EXCEPT ![c] = Without(@, call[k].index + 1)]
           /\ lost' = IF call[k].ids = <<spliced>> THEN lost
                      ELSE lost \cup ({spliced} \ {Nothing}) \cup Elements(call[k].ids)
    /\ UNCHANGED <<tabs, cardsOf, selection, rows, loads, strayed>>

\* removeItem splices what is at the index by then.
ItemRemoved(k) ==
    /\ Answered(k, {"removeItem"})
    /\ k \notin orphaned
    /\ LET c == call[k].card
           spliced == Nth(itemsOf[c], call[k].index)
       IN
           /\ itemsOf' = [itemsOf EXCEPT ![c] = Without(@, call[k].index)]
           /\ lost' = IF call[k].ids = <<spliced>> THEN lost
                      ELSE lost \cup ({spliced} \ {Nothing}) \cup Elements(call[k].ids)
    /\ UNCHANGED <<tabs, cardsOf, selection, rows, loads, strayed>>

\* The items of a card the page has dropped are nobody's concern.
ItemsAside(k) ==
    /\ Aside(k, {"addItem", "removeItem"})
    /\ UNCHANGED <<objects, selection, rows, loads, strayed, lost>>

TabRemoved(k) ==
    /\ Answered(k, {"removeTab"})
    /\ UNCHANGED <<objects, selection, rows, loads, strayed, lost>>

\* The error is shown and the rest of the operation is not run.
Failed(k) ==
    /\ call[k].at = "failed"
    /\ call' = [call EXCEPT ![k] = Over]
    /\ UNCHANGED <<objects, selection, rows, loads, strayed, lost>>

\* The lists a load may make, sorted by weights that are left out.
Orders(S) == {s \in [1 .. Cardinality(S) -> S] : Elements(s) = S /\ Once(s)}
Of(f, x) == {y \in DOMAIN f : f[y] = x}
Lists(f, S) ==
    LET orders == [x \in S |-> Orders(Of(f, x))]
    IN {g \in [S -> UNION {orders[x] : x \in S}] : \A x \in S : g[x] \in orders[x]}

\* The answer brings a row that the load has already.
Twin(k) ==
    /\ call[k].at = "done"
    /\ call[k].op \in {"addTab", "createCard", "importCard", "addItem"}
    /\ \E x \in Elements(call[k].ids) :
           \/ x \in reload.tabs
           \/ x \in Cards /\ reload.tabOf[x] # Nothing
           \/ x \in Items /\ reload.cardOf[x] # Nothing

\* currentBoard makes all objects anew, and selects the first card of the
\* first tab; if it has none activeCard and currentCardId stay.
Reload ==
    /\ reload.at = "done"
    /\ tabs' \in Orders(reload.tabs)
    /\ cardsOf' \in Lists(reload.tabOf, Tabs)
    /\ itemsOf' \in Lists(reload.cardOf, Cards)
    /\ activeTabIdx' = 0
    /\ LET cards == IF tabs' = <<>> THEN <<>> ELSE cardsOf'[tabs'[1]] IN
           IF cards = <<>>
           THEN /\ strayed' = (strayed \/ activeCard >= 0)
                /\ UNCHANGED <<activeCard, currentCardId>>
           ELSE activeCard' = 0 /\ currentCardId' = cards[1] /\ strayed' = FALSE
    /\ lost' = IF UnderWay = {} /\ ~reload.stale THEN {} ELSE Ids
    /\ orphaned' = UnderWay
    /\ call' = [k \in Calls |-> IF Twin(k) THEN [call[k] EXCEPT !.at = "twin"] ELSE call[k]]
    /\ reload' = NoReload
    /\ UNCHANGED rows

-----------------------------------------------------------------------------
UserAct ==
    \/ \E i \in 0 .. Len(tabs) - 1 : SelectTab(i)
    \/ \E c \in Cards : SelectCard(c)
    \/ \E i \in 0 .. Len(ActiveCards) - 2 : SortCards(i)
    \/ FormCard # Nothing /\ \E i \in 0 .. Len(itemsOf[FormCard]) - 2 : SortItems(i)

UserCall(k) ==
    \/ AddTab(k) \/ RemoveTab(k)
    \/ \E op \in {"createCard", "importCard"} : AddCard(k, op)
    \/ \E c \in Cards : \/ RemoveCard(k, c) \/ CreateItem(k, c) \/ CopyItem(k, c)
                        \/ \E i \in 0 .. Len(itemsOf[c]) - 1 : RemoveItem(k, c, i)

Server(k) ==
    \/ \E arrives \in BOOLEAN : ServeAdd(k, arrives) \/ ServeRemove(k, arrives)
    \/ Refuse(k)

Resume(k) ==
    \/ TabAdded(k) \/ TabRemoved(k)
    \/ CardCreated(k) \/ CardCreatedAside(k) \/ CardImported(k) \/ CardRemoved(k)
    \/ ItemAdded(k) \/ ItemRemoved(k) \/ ItemsAside(k)
    \/ Failed(k)

BoardNext ==
    \/ reload.at = "idle" /\ (UserAct \/ \E k \in Calls : UserCall(k))
    \/ \E k \in Calls : Server(k) \/ Resume(k)
    \/ Load \/ ReadTabs \/ ReadCards \/ ReadItems \/ LoadFails \/ Reload

BoardSpec == BoardInit /\ [][BoardNext]_boardVars

-----------------------------------------------------------------------------
\* The form of a card, which goes by activeCard, and its button Remove, which
\* goes by currentCardId, are about one card, whatever answers and loads came
\* in between, unless since the card was selected the user changed the tab or
\* sorted the cards, a card was created in, or an item for, a tab that is not
\* active, or a load found no card to select.
OneSelection == strayed \/ FormCard = currentCardId

Quiet == reload.at = "idle" /\ \A k \in Calls : call[k].at \in {"idle", "over"}

\* When no request is under way the page shows the rows: every tab it shows
\* is stored, and has the cards of its rows, but for what, since the last
\* load or the start, an answer was lost of or was applied to another tab
\* (importCard, removeCard by id).  A load makes good what was lost before;
\* after one that met a request under way, or served since it began to read,
\* nothing is claimed until the next.
ShowsCards ==
    Quiet => \A t \in Elements(tabs) \ lost :
        /\ t \in savedTabs
        /\ \A c \in Cards \ lost : c \in Elements(cardsOf[t]) <=> tabOf[c] = t

\* Then every stored card it shows has the items of its rows, but for those,
\* since then, an answer was lost of, or that were spliced for another
\* (removeItem), and with the same exception for loads.
ShowsItems ==
    Quiet => \A t \in Elements(tabs) \ lost : \A c \in Elements(cardsOf[t]) \ lost :
        \A i \in Items \ lost : i \in Elements(itemsOf[c]) <=> cardOf[i] = c
=============================================================================
