----------------------------- MODULE HtmlProofs -----------------------------
(***************************************************************************)
(* Theorems about HtmlContent.tla, for any finite sets of scripts, sheets    *)
(* and objects and any number of refreshes.                                 *)
(***************************************************************************)
EXTENDS HtmlContent, FiniteSetTheorems, TLAPS

(* The fetches there are, the one of the document apart.  A page in error    *)
(* may have dropped objects without counting them; it never counts fewer     *)
(* than there are.  The page without root element keeps its objects, and may *)
(* yet become READY.                                                        *)
Owed(kids) == Cardinality(Pending(kids))
Document == IF fetched THEN 0 ELSE 1

Counts ==
  Alive =>
    /\ active >= Owed(item) + Document
    /\ status # "ERROR" \/ stage = "rootless" => active = Owed(item) + Document

(* What the stages before the present one have left behind.                 *)
Order ==
  /\ stage \in {"parse", "left"} => \A i \in Sheets \cup Object : item[i] = "none"
  /\ stage = "left" => Pending(item) = {}
  /\ stage = "styles" => /\ \A o \in Object : item[o] = "none"
                         /\ item[Base] \in {"fetching", "DONE", "NULL"}
  /\ stage \in {"styles", "boxes", "shown", "rootless"} =>
       fetched /\ item[Base] # "none" /\ Pending(item) \cap Script = {}
  /\ stage \in {"boxes", "shown", "rootless"} => Pending(item) \cap Sheets = {}
  /\ stage = "shown" => status \in {"READY", "DONE"}

IInv == TypeOK /\ Counts /\ Order /\ NoLateCalls /\ DoneIsLoaded

(* What a step into a new stage finds: the body of StagesInOrder.           *)
StageStep ==
  /\ stage' = "styles" /\ stage # "styles"
        => fetched' /\ Pending(item') \cap Script = {}
  /\ stage' = "boxes" /\ stage # "boxes"
        => Pending(item') = {} /\ item'[Base] = "DONE"

Kids == [Item -> ItemStates]

-----------------------------------------------------------------------------
(* Counting                                                                *)

(* The pending items of any assignment of states can be counted.           *)
LEMMA PendingFinite ==
  ASSUME NEW kids \in Kids
  PROVE  /\ IsFiniteSet(Pending(kids)) /\ Pending(kids) \subseteq Item
         /\ Owed(kids) \in Nat
         /\ Owed(kids) = 0 <=> Pending(kids) = {}
<1>1. IsFiniteSet(Sync \cup Async \cup Defer \cup Sheet \cup Object)
  BY HtmlAssumption DEF HtmlAssumption
<1>2. Item = (Sync \cup Async \cup Defer \cup Sheet \cup Object) \cup {Base}
  BY DEF Item, Script, Sheets
<1>3. IsFiniteSet(Item)
  BY <1>1, <1>2, FS_AddElement
<1>4. Pending(kids) \in SUBSET Item
  BY DEF Pending
<1>5. IsFiniteSet(Pending(kids))
  BY <1>3, <1>4, FS_Subset
<1> QED BY <1>4, <1>5, FS_CardinalityType, FS_EmptySet DEF Owed

(* Items that were not pending and are fetched now are owed in addition.   *)
LEMMA StartOwed ==
  ASSUME NEW kids \in Kids, NEW S \in SUBSET Item,
         S \cap Pending(kids) = {}
  PROVE  /\ Set(kids, S, "fetching") \in Kids
         /\ Pending(Set(kids, S, "fetching")) = Pending(kids) \cup S
         /\ Cardinality(S) \in Nat
         /\ Owed(Set(kids, S, "fetching")) = Owed(kids) + Cardinality(S)
<1>1. Set(kids, S, "fetching") \in Kids
  BY DEF Set, Kids, ItemStates
<1>2. Pending(Set(kids, S, "fetching")) = Pending(kids) \cup S
  BY DEF Set, Kids, Pending
<1>3. IsFiniteSet(Pending(kids) \cup S) /\ IsFiniteSet(Pending(kids))
  BY <1>1, <1>2, PendingFinite
<1>4. IsFiniteSet(S)
  <2>1. S \in SUBSET (Pending(kids) \cup S)
    OBVIOUS
  <2> QED BY <1>3, <2>1, FS_Subset
<1>5. Cardinality(Pending(kids) \cup S)
        = Cardinality(Pending(kids)) + Cardinality(S) - Cardinality(Pending(kids) \cap S)
  BY <1>3, <1>4, FS_Union
<1>6. Cardinality(Pending(kids) \cap S) = 0
  <2>1. Pending(kids) \cap S = {}
    OBVIOUS
  <2> QED BY <2>1, FS_EmptySet
<1>7. Cardinality(S) \in Nat /\ Cardinality(Pending(kids)) \in Nat
  BY <1>3, <1>4, FS_CardinalityType
<1>8. Owed(Set(kids, S, "fetching")) = Owed(kids) + Cardinality(S)
  <2>1. Cardinality(Pending(kids) \cup S) = Cardinality(Pending(kids)) + Cardinality(S)
    BY <1>5, <1>6, <1>7
  <2> QED BY <1>2, <2>1, Zenon DEF Owed
<1> QED BY <1>1, <1>2, <1>7, <1>8

(* Pending items that end or are dropped are owed no longer.               *)
LEMMA EndOwed ==
  ASSUME NEW kids \in Kids, NEW S \in SUBSET Pending(kids),
         NEW state \in {"DONE", "NULL"}
  PROVE  /\ Set(kids, S, state) \in Kids
         /\ Pending(Set(kids, S, state)) = Pending(kids) \ S
         /\ Cardinality(S) \in Nat
         /\ Owed(Set(kids, S, state)) = Owed(kids) - Cardinality(S)
<1>1. Set(kids, S, state) \in Kids
  BY DEF Set, Kids, ItemStates
<1>2. Pending(Set(kids, S, state)) = Pending(kids) \ S
  BY DEF Set, Kids, Pending
<1>3. IsFiniteSet(Pending(kids))
  BY PendingFinite
<1>4. IsFiniteSet(S)
  BY <1>3, FS_Subset
<1>5. Cardinality(Pending(kids) \ S)
        = Cardinality(Pending(kids)) - Cardinality(Pending(kids) \cap S)
  BY <1>3, FS_Difference
<1>6. Pending(kids) \cap S = S
  OBVIOUS
<1>7. Cardinality(S) \in Nat
  BY <1>4, FS_CardinalityType
<1>8. Owed(Set(kids, S, state)) = Owed(kids) - Cardinality(S)
  BY <1>2, <1>5, <1>6 DEF Owed
<1> QED BY <1>1, <1>2, <1>7, <1>8

(* One item that ends takes one from what is owed.                         *)
LEMMA OneEnds ==
  ASSUME NEW kids \in Kids, NEW i \in Pending(kids),
         NEW new \in Ends(i, kids)
  PROVE  /\ new \in Kids
         /\ Pending(new) = Pending(kids) \ {i}
         /\ \A j \in Item \ {i} : new[j] = kids[j]
         /\ Owed(new) = Owed(kids) - 1
         /\ Owed(new) \in Nat
<1>1. PICK state \in {"DONE", "NULL"} : new = Set(kids, {i}, state)
  BY DEF Ends
<1>2. Cardinality({i}) = 1
  BY FS_Singleton
<1>3. {i} \in SUBSET Pending(kids)
  OBVIOUS
<1>4. /\ new \in Kids
      /\ Pending(new) = Pending(kids) \ {i}
      /\ Owed(new) = Owed(kids) - 1
  BY <1>1, <1>2, <1>3, EndOwed
<1>5. \A j \in Item \ {i} : new[j] = kids[j]
  BY <1>1 DEF Set
<1> QED BY <1>4, <1>5, PendingFinite

(* One item that is fetched adds one to what is owed.                      *)
LEMMA OneStarts ==
  ASSUME NEW kids \in Kids, NEW i \in Item, i \notin Pending(kids)
  PROVE  /\ Set(kids, {i}, "fetching") \in Kids
         /\ Pending(Set(kids, {i}, "fetching")) = Pending(kids) \cup {i}
         /\ \A j \in Item \ {i} : Set(kids, {i}, "fetching")[j] = kids[j]
         /\ Owed(Set(kids, {i}, "fetching")) = Owed(kids) + 1
<1>1. Cardinality({i}) = 1
  BY FS_Singleton
<1>2. {i} \in SUBSET Item /\ {i} \cap Pending(kids) = {}
  OBVIOUS
<1>3. \A j \in Item \ {i} : Set(kids, {i}, "fetching")[j] = kids[j]
  BY DEF Set
<1> QED BY <1>1, <1>2, <1>3, StartOwed

(* Releasing handles without counting owes no more than before.            *)
LEMMA FewerOwed ==
  ASSUME NEW kids \in Kids, NEW new \in Kids,
         Pending(new) \subseteq Pending(kids)
  PROVE  Owed(new) \in Nat /\ Owed(new) <= Owed(kids)
<1>1. IsFiniteSet(Pending(kids)) /\ Pending(new) \in SUBSET Pending(kids)
  BY PendingFinite
<1>2. Owed(new) \in Nat
  BY PendingFinite
<1> QED BY <1>1, <1>2, FS_Subset DEF Owed

-----------------------------------------------------------------------------
(* The steps                                                               *)

(* Scripts, sheets and objects are different items.                        *)
LEMMA Kinds ==
  /\ Script \subseteq Item /\ Sheets \subseteq Item /\ Object \subseteq Item
  /\ Script \cap Sheets = {} /\ Script \cap Object = {} /\ Sheets \cap Object = {}
  /\ Base \in Sheets /\ Item = Script \cup Sheets \cup Object
BY HtmlAssumption DEF HtmlAssumption, Item, Script, Sheets

(* The parser adds the scripts it fetches to what is owed, and no others.  *)
LEMMA MeetOwed ==
  ASSUME NEW kids \in Kids, NEW found \in Found(kids)
  PROVE  /\ Meet(kids, found) \in Kids
         /\ Cardinality(found.begun) \in Nat
         /\ Owed(Meet(kids, found)) = Owed(kids) + Cardinality(found.begun)
         /\ \A i \in Sheets \cup Object : Meet(kids, found)[i] = kids[i]
<1>1. /\ found.begun \subseteq {s \in Script : kids[s] = "none"}
      /\ found.refused \subseteq {s \in Script : kids[s] = "none"}
      /\ found.begun \cap found.refused = {}
  BY DEF Found
<1>. DEFINE first == Set(kids, found.refused, "refused")
<1>2. first \in Kids /\ Pending(first) = Pending(kids)
  BY <1>1 DEF Set, Kids, ItemStates, Pending
<1>3. found.begun \in SUBSET Item /\ found.begun \cap Pending(first) = {}
  BY <1>1, <1>2, Kinds DEF Pending
<1>4. \A i \in Sheets \cup Object : first[i] = kids[i]
  BY <1>1, Kinds DEF Set
<1>5. Owed(first) = Owed(kids)
  BY <1>2 DEF Owed
<1>. HIDE DEF first
<1>6. /\ Set(first, found.begun, "fetching") \in Kids
      /\ Cardinality(found.begun) \in Nat
      /\ Owed(Set(first, found.begun, "fetching")) = Owed(kids) + Cardinality(found.begun)
  BY <1>2, <1>3, <1>5, StartOwed
<1>7. \A i \in Sheets \cup Object : Set(first, found.begun, "fetching")[i] = first[i]
  BY <1>1, Kinds DEF Set
<1>8. Meet(kids, found) = Set(first, found.begun, "fetching")
  BY DEF Meet, first
<1> QED BY <1>4, <1>6, <1>7, <1>8

(* A new page satisfies the invariant: only its document is owed.          *)
LEMMA InitHolds == Init => IInv
<1> SUFFICES ASSUME Init PROVE IInv
  OBVIOUS
<1>1. item \in Kids /\ Pending(item) = {}
  BY DEF Init, Kids, ItemStates, Nothing, Pending
<1>2. Owed(item) = 0 /\ Document = 1
  BY <1>1, PendingFinite DEF Init, Document
<1>3. TypeOK
  <2>1. MaxRefresh \in Nat
    BY HtmlAssumption DEF HtmlAssumption
  <2>2. fetched \in BOOLEAN /\ aborted \in BOOLEAN /\ used \in BOOLEAN
    BY Zenon DEF Init
  <2>3. item \in Kids /\ refreshes \in 0..MaxRefresh
    BY <1>1, <2>1 DEF Init
  <2>4. /\ status \in {"LOADING", "READY", "DONE", "ERROR"}
        /\ stage \in Stages
        /\ active \in Nat
        /\ timer \subseteq Object
    BY DEF Init, Stages
  <2> QED BY <2>2, <2>3, <2>4, Zenon DEF TypeOK, Kids
<1>4. Counts
  BY <1>2 DEF Init, Counts
<1>5. Order
  BY Kinds DEF Init, Order, Nothing
<1>6. NoLateCalls /\ DoneIsLoaded
  BY DEF Init, NoLateCalls, ErrorIsQuiet, DestroyedIsQuiet, RefreshFindsObject, DoneIsLoaded,
         Held, Nothing
<1> QED BY <1>3, <1>4, <1>5, <1>6 DEF IInv

(* When the program stops there is nothing left to show.                   *)
LEMMA CrashStep ==
  ASSUME IInv, Crashes PROVE IInv' /\ StageStep
<1>1. /\ stage' = "crashed" /\ status' = "ERROR" /\ item' = Nothing /\ active' = 0 /\ timer' = {}
      /\ UNCHANGED <<fetched, aborted, refreshes, used>>
  BY DEF Crashes
<1>2. TypeOK'
  <2>1. fetched' \in BOOLEAN /\ aborted' \in BOOLEAN /\ used' \in BOOLEAN
    BY <1>1, Zenon DEF IInv, TypeOK
  <2>2. /\ stage' \in Stages /\ status' \in {"LOADING", "READY", "DONE", "ERROR"}
        /\ item' \in [Item -> ItemStates]
        /\ active' \in Nat /\ timer' \subseteq Object
    BY <1>1 DEF Stages, ItemStates, Nothing
  <2>3. refreshes' \in 0..MaxRefresh
    BY <1>1 DEF IInv, TypeOK
  <2> QED BY <2>1, <2>2, <2>3, Zenon DEF TypeOK
<1>3. Counts' /\ Order' /\ NoLateCalls' /\ DoneIsLoaded' /\ StageStep
  BY <1>1 DEF Counts, Alive, Order, NoLateCalls, ErrorIsQuiet, DestroyedIsQuiet,
              RefreshFindsObject, DoneIsLoaded, StageStep
<1> QED BY <1>2, <1>3 DEF IInv

(* While there are no objects no refresh is scheduled.                     *)
LEMMA NoTimer ==
  ASSUME IInv, \A o \in Object : item[o] = "none" PROVE timer = {}
BY DEF IInv, TypeOK, NoLateCalls, RefreshFindsObject, Held

(* The types a step must give the variables it changes.                    *)
LEMMA StepTypes ==
  ASSUME TypeOK, fetched' \in BOOLEAN, UNCHANGED <<aborted, timer, refreshes, used>>,
         status' \in {"LOADING", "READY", "DONE", "ERROR"},
         stage' \in Stages,
         active' \in Nat, item' \in Kids
  PROVE  TypeOK'
<1>1. aborted' \in BOOLEAN /\ used' \in BOOLEAN
  BY Zenon DEF TypeOK
<1>2. timer' \subseteq Object /\ refreshes' \in 0..MaxRefresh
  BY DEF TypeOK
<1> QED BY <1>1, <1>2, Zenon DEF TypeOK, Kids

(* The scripts a parser meets are counted as they are found.               *)
LEMMA ProcessDataStep ==
  ASSUME IInv, html_process_data
  PROVE  IInv' /\ StageStep
<1>1. PICK found \in Found(item) : /\ item' = Meet(item, found)
                                    /\ active' = active + Cardinality(found.begun)
  BY DEF html_process_data
<1>2. item \in Kids /\ fetched \in BOOLEAN
  BY DEF IInv, TypeOK, Kids
<1>3. /\ item' \in Kids /\ Cardinality(found.begun) \in Nat
      /\ Owed(item') = Owed(item) + Cardinality(found.begun)
      /\ \A i \in Sheets \cup Object : item'[i] = item[i]
  BY <1>1, <1>2, MeetOwed
<1>5. Owed(item) \in Nat /\ Document \in {0, 1}
  BY <1>2, PendingFinite DEF Document
<1>6. /\ status = "LOADING" /\ stage = "parse"
      /\ UNCHANGED <<status, stage, fetched, aborted, timer, refreshes, used>>
  BY DEF html_process_data
<1>7. active' \in Nat
  BY <1>1, <1>3 DEF IInv, TypeOK
<1>8. TypeOK'
  BY <1>2, <1>3, <1>6, <1>7, StepTypes DEF IInv, TypeOK
<1>9. Counts'
  <2>1. Document' = Document /\ Alive
    BY <1>6 DEF Document, Alive
  <2> QED BY <1>1, <1>3, <1>5, <1>6, <2>1 DEF IInv, TypeOK, Counts
<1>10. Order'
  BY <1>3, <1>6, Kinds DEF IInv, Order
<1>11. timer' = {}
  BY <1>6, NoTimer DEF IInv, Order
<1> QED BY <1>6, <1>8, <1>9, <1>10, <1>11 DEF IInv, NoLateCalls, ErrorIsQuiet,
        DestroyedIsQuiet, RefreshFindsObject, DoneIsLoaded, StageStep

(* With nothing owed any more, the style sheets are asked for.             *)
LEMMA BeginConversionStep ==
  ASSUME IInv, stage = "parse", fetched' \in BOOLEAN,
         NEW kids \in Kids, \A i \in Sheets \cup Object : kids[i] = "none",
         Owed(kids) + Document' = 0,
         NEW onFalse \in {"LOADING", "READY", "DONE", "ERROR"},
         html_begin_conversion(kids, 0, onFalse),
         UNCHANGED <<aborted, timer, refreshes, used>>
  PROVE  IInv' /\ StageStep
<1>1. fetched' /\ Pending(kids) = {} /\ Document' = 0 /\ Owed(kids) = 0
  <2>1. Owed(kids) \in Nat /\ Document' \in {0, 1}
    BY PendingFinite DEF Document
  <2>2. Owed(kids) = 0 /\ Document' = 0
    BY <2>1
  <2> QED BY <2>2, PendingFinite DEF Document
<1>9. timer' = {}
  BY NoTimer DEF IInv, Order
<1>10. fetched \in BOOLEAN /\ aborted \in BOOLEAN
  BY Zenon DEF IInv, TypeOK
<1>2. CASE /\ item' = kids /\ active' = 0
           /\ status' = onFalse /\ stage' = IF onFalse = "ERROR" THEN stage ELSE "left"
  <2>0. stage' \in {"parse", "left"}
    BY <1>2
  <2>1. TypeOK'
    <3>1. stage' \in Stages
      BY <2>0 DEF Stages
    <3> QED BY <1>2, <3>1, StepTypes DEF IInv
  <2>2. Counts'
    BY <1>1, <1>2 DEF Counts
  <2>3. Order'
    BY <1>1, <1>2, <2>0 DEF Order
  <2>4. NoLateCalls' /\ DoneIsLoaded'
    BY <1>2, <1>9, <2>0 DEF NoLateCalls, ErrorIsQuiet, DestroyedIsQuiet, RefreshFindsObject,
                            DoneIsLoaded, Held
  <2> QED BY <2>0, <2>1, <2>2, <2>3, <2>4 DEF IInv, StageStep
<1>3. CASE /\ html_find_stylesheets(kids, 0)
           /\ stage' = "styles" /\ UNCHANGED status
  <2>1. PICK S \in SUBSET Sheet : /\ item' = Set(kids, S \cup {Base}, "fetching")
                                 /\ active' = 0 + Cardinality(S \cup {Base})
    BY <1>3 DEF html_find_stylesheets
  <2>2. S \cup {Base} \in SUBSET Item /\ S \cup {Base} \subseteq Sheets
    BY Kinds DEF Sheets
  <2>. DEFINE new == Set(kids, S \cup {Base}, "fetching")
  <2>3. /\ new \in Kids /\ Pending(new) = S \cup {Base}
        /\ Cardinality(S \cup {Base}) \in Nat
        /\ Owed(new) = 0 + Cardinality(S \cup {Base})
    <3>1. (S \cup {Base}) \cap Pending(kids) = {}
      BY <1>1
    <3>2. /\ new \in Kids
          /\ Pending(new) = Pending(kids) \cup (S \cup {Base})
          /\ Cardinality(S \cup {Base}) \in Nat
          /\ Owed(new) = Owed(kids) + Cardinality(S \cup {Base})
      BY <2>2, <3>1, StartOwed
    <3> QED BY <1>1, <3>2
  <2>4. active' = Owed(item') + Document' /\ active' \in Nat
    BY <1>1, <2>1, <2>3
  <2>5. TypeOK'
    <3>1. stage' \in Stages /\ status' \in {"LOADING", "READY", "DONE", "ERROR"}
      BY <1>3 DEF Stages, IInv, TypeOK
    <3> QED BY <2>1, <2>3, <2>4, <3>1, StepTypes DEF IInv
  <2>6. Counts'
    BY <2>4 DEF Counts, TypeOK
  <2>7. (\A o \in Object : item'[o] = "none") /\ item'[Base] = "fetching"
    BY <2>1, <2>2, Kinds DEF Set
  <2>8. Pending(item') \cap Script = {}
    BY <2>1, <2>2, <2>3, Kinds
  <2>9. Order'
    BY <1>1, <1>3, <2>7, <2>8 DEF Order
  <2>10. NoLateCalls' /\ DoneIsLoaded'
    BY <1>3, <1>9, <2>7 DEF NoLateCalls, ErrorIsQuiet, DestroyedIsQuiet, RefreshFindsObject,
                            DoneIsLoaded, Held
  <2> QED BY <1>1, <1>3, <2>5, <2>6, <2>8, <2>9, <2>10 DEF IInv, StageStep
<1>4. CASE stage' = "crashed" /\ status' = "ERROR" /\ item' = Nothing /\ active' = 0
  <2>1. TypeOK'
    <3>1. stage' \in Stages /\ item' \in Kids
      BY <1>4 DEF Stages, Kids, ItemStates, Nothing
    <3> QED BY <1>4, <3>1, StepTypes DEF IInv
  <2>2. Counts' /\ Order' /\ NoLateCalls' /\ DoneIsLoaded' /\ StageStep
    BY <1>4, <1>9 DEF Counts, Alive, Order, NoLateCalls, ErrorIsQuiet, DestroyedIsQuiet,
                      RefreshFindsObject, DoneIsLoaded, StageStep
  <2> QED BY <2>1, <2>2 DEF IInv
<1> QED BY <1>2, <1>3, <1>4 DEF html_begin_conversion

(* The document arrives or fails.                                          *)
LEMMA DocumentStep ==
  ASSUME IInv, html_convert \/ FetchFails
  PROVE  IInv' /\ StageStep
<1>1. /\ stage = "parse" /\ status = "LOADING" /\ fetched = FALSE
      /\ (\A i \in Sheets \cup Object : item[i] = "none") /\ timer = {} /\ Alive
  BY NoTimer DEF IInv, Order, TypeOK, html_convert, FetchFails, Alive
<1>2. item \in Kids /\ active \in Nat
  BY DEF IInv, TypeOK, Kids
<1>3. Owed(item) \in Nat /\ Document = 1 /\ active = Owed(item) + 1
  <2>1. Owed(item) \in Nat /\ Document = 1
    BY <1>1, <1>2, PendingFinite DEF Document
  <2> QED BY <1>1, <2>1 DEF IInv, Counts
<1>4. CASE html_convert
  <2>1. fetched' = TRUE /\ UNCHANGED <<aborted, timer, refreshes, used>>
    BY <1>4 DEF html_convert
  <2>4. fetched' \in BOOLEAN /\ Document' = 0
    BY <2>1 DEF Document
  <2>2. CASE active - 1 = 0
    <3>1. html_begin_conversion(item, 0, "ERROR")
      BY <1>4, <2>2 DEF html_convert
    <3>2. Owed(item) + Document' = 0
      BY <1>3, <2>2, <2>4
    <3> QED BY <1>1, <1>2, <2>1, <2>4, <3>1, <3>2, BeginConversionStep
  <2>3. CASE active - 1 # 0
    <3>1. active' = active - 1 /\ UNCHANGED <<status, stage, item>>
      BY <1>4, <2>3 DEF html_convert
    <3>2. active' = Owed(item') + Document' /\ active' \in Nat
      BY <1>3, <2>4, <3>1
    <3>3. TypeOK'
      BY <1>1, <1>2, <2>1, <2>4, <3>1, <3>2, StepTypes DEF IInv, TypeOK
    <3>4. Counts'
      BY <3>2 DEF Counts
    <3>5. Order'
      BY <1>1, <3>1 DEF Order
    <3>6. NoLateCalls' /\ DoneIsLoaded'
      BY <1>1, <2>1, <3>1 DEF NoLateCalls, ErrorIsQuiet, DestroyedIsQuiet, RefreshFindsObject,
                              DoneIsLoaded
    <3> QED BY <1>1, <3>1, <3>3, <3>4, <3>5, <3>6 DEF IInv, StageStep
  <2> QED BY <2>2, <2>3
<1>5. CASE FetchFails
  <2>1. /\ status' = "ERROR"
        /\ UNCHANGED <<stage, fetched, active, aborted, item, timer, refreshes, used>>
    BY <1>5 DEF FetchFails
  <2>2. TypeOK'
    BY <1>1, <1>2, <2>1, StepTypes DEF IInv, TypeOK
  <2>3. Counts'
    <3>1. Owed(item') = Owed(item) /\ Document' = Document
      BY <2>1 DEF Document
    <3> QED BY <1>1, <2>1, <3>1 DEF IInv, Counts
  <2>5. Order'
    BY <1>1, <2>1 DEF Order
  <2>4. NoLateCalls' /\ DoneIsLoaded'
    BY <1>1, <2>1 DEF NoLateCalls, ErrorIsQuiet, DestroyedIsQuiet, RefreshFindsObject,
                      DoneIsLoaded, Held
  <2> QED BY <1>1, <2>1, <2>2, <2>3, <2>4, <2>5 DEF IInv, StageStep
<1> QED BY <1>4, <1>5

(* A script that is pending finds the page being parsed, and nothing of the *)
(* later stages fetched.                                                    *)
LEMMA ScriptFinds ==
  ASSUME IInv, NEW s \in Script, item[s] = "fetching", Alive
  PROVE  /\ stage = "parse" /\ item \in Kids /\ s \in Pending(item)
         /\ \A i \in Sheets \cup Object : item[i] = "none" /\ i # s
         /\ fetched \in BOOLEAN /\ active \in Nat
         /\ status \in {"LOADING", "READY", "DONE", "ERROR"}
<1>1. s \in Pending(item) /\ item \in Kids
  BY Kinds DEF Pending, IInv, TypeOK, Kids
<1>2. stage = "parse"
  BY <1>1 DEF IInv, TypeOK, Stages, Order, Alive
<1>3. \A i \in Sheets \cup Object : item[i] = "none" /\ i # s
  BY <1>2, Kinds DEF IInv, Order
<1>4. fetched \in BOOLEAN
  BY Zenon DEF IInv, TypeOK
<1> QED BY <1>1, <1>2, <1>3, <1>4 DEF IInv, TypeOK

(* A script callback leaves the count n with the handles kids.             *)
LEMMA ScriptEndStep ==
  ASSUME IInv, stage = "parse",
         NEW kids \in Kids, \A i \in Sheets \cup Object : kids[i] = "none",
         NEW n \in Nat, n >= Owed(kids) + Document,
         status # "ERROR" => n = Owed(kids) + Document,
         \/ item' = kids /\ active' = n /\ UNCHANGED <<status, stage>>
         \/ n = 0 /\ html_begin_conversion(kids, 0, status),
         UNCHANGED <<fetched, aborted, timer, refreshes, used>>
  PROVE  IInv' /\ StageStep
<1>1. fetched \in BOOLEAN /\ fetched' \in BOOLEAN
  BY Zenon DEF IInv, TypeOK
<1>2. Owed(kids) \in Nat /\ Document \in {0, 1} /\ Document' = Document
  BY PendingFinite DEF Document
<1>3. CASE n = 0 /\ html_begin_conversion(kids, 0, status)
  <2>1. Owed(kids) + Document = 0
    BY <1>2, <1>3
  <2>2. Owed(kids) + Document' = 0 /\ UNCHANGED <<aborted, timer, refreshes, used>>
    BY <1>2, <2>1
  <2>3. status \in {"LOADING", "READY", "DONE", "ERROR"}
    BY DEF IInv, TypeOK
  <2> QED BY <1>1, <1>3, <2>2, <2>3, BeginConversionStep
<1>4. CASE item' = kids /\ active' = n /\ UNCHANGED <<status, stage>>
  <2>1. TypeOK'
    BY <1>1, <1>4, StepTypes DEF IInv, TypeOK
  <2>2. Counts'
    BY <1>2, <1>4 DEF Counts
  <2>3. Order'
    BY <1>4 DEF Order
  <2>5. timer' = {}
    BY NoTimer DEF IInv, Order
  <2>4. NoLateCalls' /\ DoneIsLoaded'
    BY <1>4, <2>5 DEF NoLateCalls, ErrorIsQuiet, DestroyedIsQuiet, RefreshFindsObject,
                      DoneIsLoaded, Held
  <2> QED BY <1>4, <2>1, <2>2, <2>3, <2>4 DEF IInv, StageStep
<1> QED BY <1>3, <1>4

(* The callbacks of scripts.                                               *)
LEMMA ScriptStep ==
  ASSUME IInv, NEW s \in Script, ScriptSettles(s)
  PROVE  IInv' /\ StageStep
<1>1. /\ item[s] = "fetching" /\ Alive
      /\ UNCHANGED <<fetched, aborted, timer, refreshes, used>>
  BY DEF ScriptSettles, convert_script_async_cb, convert_script_defer_cb, convert_script_sync_cb
<1>2. /\ stage = "parse" /\ item \in Kids /\ s \in Pending(item)
      /\ \A i \in Sheets \cup Object : item[i] = "none" /\ i # s
      /\ fetched \in BOOLEAN /\ active \in Nat
  BY <1>1, ScriptFinds
<1>3. /\ Owed(item) \in Nat /\ Document \in {0, 1} /\ active >= Owed(item) + Document
      /\ status # "ERROR" => active = Owed(item) + Document
  BY <1>1, <1>2, PendingFinite DEF IInv, Counts, Document
<1>4. ASSUME NEW kids \in Ends(s, item)
      PROVE  /\ kids \in Kids
             /\ \A i \in Sheets \cup Object : kids[i] = "none"
             /\ active - 1 \in Nat /\ active - 1 >= Owed(kids) + Document
             /\ status # "ERROR" => active - 1 = Owed(kids) + Document
  <2>1. /\ kids \in Kids /\ Owed(kids) = Owed(item) - 1
        /\ Owed(kids) \in Nat
        /\ \A j \in Item \ {s} : kids[j] = item[j]
    BY <1>2, OneEnds
  <2>2. \A i \in Sheets \cup Object : kids[i] = "none"
    BY <1>2, <2>1, Kinds
  <2> QED BY <1>2, <1>3, <2>1, <2>2
<1>5. CASE convert_script_async_cb(s)
  <2>1. /\ item' \in Ends(s, item) /\ active' = active - 1
        /\ UNCHANGED <<status, stage>>
    BY <1>5 DEF convert_script_async_cb
  <2> QED BY <1>1, <1>2, <1>4, <2>1, ScriptEndStep
<1>6. CASE convert_script_defer_cb(s)
  <2>1. PICK kids \in Ends(s, item) : ScriptEnd(s, kids, active - 1)
    BY <1>6 DEF convert_script_defer_cb
  <2>2. \/ item' = kids /\ active' = active - 1 /\ UNCHANGED <<status, stage>>
        \/ active - 1 = 0 /\ html_begin_conversion(kids, 0, status)
    BY <2>1 DEF ScriptEnd
  <2> QED BY <1>1, <1>2, <1>4, <2>2, ScriptEndStep
<1>7. CASE convert_script_sync_cb(s)
  <2>1. PICK kids \in Ends(s, item) : \E found \in Found(kids) :
          ScriptEnd(s, Meet(kids, found), active - 1 + Cardinality(found.begun))
    BY <1>7 DEF convert_script_sync_cb
  <2>2. PICK found \in Found(kids) :
          ScriptEnd(s, Meet(kids, found), active - 1 + Cardinality(found.begun))
    BY <2>1
  <2>. DEFINE new == Meet(kids, found)
              n == active - 1 + Cardinality(found.begun)
  <2>3. kids \in Kids /\ \A i \in Sheets \cup Object : kids[i] = "none"
    BY <1>4
  <2>4. /\ new \in Kids /\ Cardinality(found.begun) \in Nat
        /\ Owed(new) = Owed(kids) + Cardinality(found.begun)
        /\ \A i \in Sheets \cup Object : new[i] = "none"
    BY <2>3, MeetOwed
  <2>5. Owed(kids) \in Nat
    BY <2>3, PendingFinite
  <2>6. /\ n \in Nat /\ n >= Owed(new) + Document
        /\ status # "ERROR" => n = Owed(new) + Document
    BY <1>2, <1>3, <1>4, <2>4, <2>5
  <2>8. \/ item' = new /\ active' = n /\ UNCHANGED <<status, stage>>
        \/ n = 0 /\ html_begin_conversion(new, 0, status)
    BY <2>2 DEF ScriptEnd
  <2>. HIDE DEF new, n
  <2> QED BY <1>1, <1>2, <2>4, <2>6, <2>8, ScriptEndStep
<1> QED BY <1>5, <1>6, <1>7 DEF ScriptSettles

(* A style sheet arrives, is parsed or fails.                              *)
LEMMA StyleStep ==
  ASSUME IInv, NEW s \in Sheets, StyleEnds(s)
  PROVE  IInv' /\ StageStep
<1>1. /\ item[s] = "fetching" /\ Alive
      /\ item' \in Ends(s, item) /\ active' = active - 1
      /\ IF active' = 0 THEN html_finish_conversion(item') ELSE UNCHANGED <<status, stage>>
      /\ UNCHANGED <<fetched, aborted, timer, refreshes, used>>
  BY DEF StyleEnds
<1>2. item \in Kids /\ s \in Pending(item) /\ active \in Nat
  BY <1>1, Kinds DEF Pending, IInv, TypeOK, Kids
<1>3. stage = "styles"
  BY <1>1, <1>2, Kinds DEF IInv, TypeOK, Stages, Order, Alive
<1>4. /\ (\A o \in Object : item[o] = "none") /\ timer = {}
      /\ fetched /\ item[Base] \in {"fetching", "DONE", "NULL"}
      /\ Pending(item) \cap Script = {}
  BY <1>3, NoTimer DEF IInv, Order
<1>5. fetched \in BOOLEAN /\ fetched' \in BOOLEAN
  BY <1>1, Zenon DEF IInv, TypeOK
<1>6. /\ item' \in Kids /\ Pending(item') = Pending(item) \ {s}
      /\ \A j \in Item \ {s} : item'[j] = item[j]
      /\ Owed(item') = Owed(item) - 1
      /\ Owed(item') \in Nat
  BY <1>1, <1>2, <1>5, OneEnds
<1>7. /\ active' \in Nat /\ active' >= Owed(item') + Document'
      /\ status # "ERROR" => active' = Owed(item') + Document'
  <2>1. Owed(item) \in Nat /\ Document = 0 /\ Document' = 0
    BY <1>1, <1>2, <1>4, PendingFinite DEF Document
  <2> QED BY <1>1, <1>2, <1>3, <1>6, <2>1 DEF IInv, Counts, Alive
<1>8. item'[s] \in {"DONE", "NULL"}
  BY <1>1, <1>2 DEF Ends, Set, Kids, Pending
<1>9. (\A o \in Object : item'[o] = "none") /\ item'[Base] \in {"fetching", "DONE", "NULL"}
  BY <1>4, <1>6, <1>8, Kinds
<1>10. active' = 0 => Pending(item') = {}
  <2>1. Document' \in {0, 1}
    BY DEF Document
  <2> QED BY <1>6, <1>7, <2>1, PendingFinite
<1>11. \/ status' = "ERROR" /\ UNCHANGED stage
       \/ UNCHANGED <<status, stage>>
       \/ active' = 0 /\ item'[Base] # "NULL" /\ stage' = "boxes" /\ UNCHANGED status
  BY <1>1 DEF html_finish_conversion
<1>12. stage' = "boxes" => Pending(item') = {} /\ item'[Base] = "DONE"
  <2>1. ASSUME stage' = "boxes" PROVE Pending(item') = {} /\ item'[Base] # "NULL"
    BY <1>3, <1>10, <1>11, <2>1
  <2>2. item'[Base] \in {"fetching", "READY"} => Base \in Pending(item')
    BY Kinds DEF Pending
  <2> QED BY <1>6, <1>9, <2>1, <2>2, Kinds DEF Kids
<1>13. TypeOK'
  <2>1. /\ status' \in {"LOADING", "READY", "DONE", "ERROR"}
        /\ stage' \in Stages
    BY <1>11 DEF IInv, TypeOK, Stages
  <2> QED BY <1>1, <1>5, <1>6, <1>7, <2>1, StepTypes DEF IInv
<1>14. Counts'
  <2>1. stage' # "rootless"
    BY <1>3, <1>11
  <2>2. status' # "ERROR" => status # "ERROR"
    BY <1>11
  <2> QED BY <1>7, <2>1, <2>2 DEF Counts
<1>15. Order'
  <2>1. Pending(item') \cap Script = {} /\ fetched'
    BY <1>1, <1>4, <1>6
  <2>2. stage' \in {"styles", "boxes"}
    BY <1>3, <1>11
  <2> QED BY <1>9, <1>12, <2>1, <2>2 DEF Order
<1>16. NoLateCalls' /\ DoneIsLoaded'
  BY <1>1, <1>3, <1>4, <1>9, <1>11 DEF NoLateCalls, ErrorIsQuiet, DestroyedIsQuiet,
                                       RefreshFindsObject, DoneIsLoaded, Held
<1> QED BY <1>3, <1>11, <1>12, <1>13, <1>14, <1>15, <1>16 DEF IInv, StageStep

(* An object whose message is taken finds the boxes begun and the page not  *)
(* in error, so that the count is exact.                                    *)
LEMMA ObjectFinds ==
  ASSUME IInv, NEW o \in Object, Held(o), Alive
  PROVE  /\ stage \in {"boxes", "shown", "rootless"}
         /\ status # "ERROR" \/ stage = "rootless"
         /\ item \in Kids /\ fetched /\ o # Base
         /\ active = Owed(item) /\ Owed(item) \in Nat /\ active \in Nat
         /\ Pending(item) \cap (Script \cup Sheets) = {} /\ item[Base] # "none"
         /\ stage = "shown" => status \in {"READY", "DONE"}
<1>1. stage \in {"boxes", "shown", "rootless"} /\ (status # "ERROR" \/ stage = "rootless")
  BY Kinds DEF IInv, TypeOK, Stages, Order, NoLateCalls, ErrorIsQuiet, Held, Alive
<1>2. /\ fetched /\ item[Base] # "none" /\ Pending(item) \cap (Script \cup Sheets) = {}
      /\ stage = "shown" => status \in {"READY", "DONE"}
  BY <1>1 DEF IInv, Order
<1>3. Document = 0 /\ Owed(item) \in Nat
  BY <1>2, PendingFinite DEF Document, IInv, TypeOK, Kids
<1>4. active = Owed(item)
  BY <1>1, <1>3 DEF IInv, Counts
<1> QED BY <1>1, <1>2, <1>3, <1>4, Kinds DEF IInv, TypeOK, Kids

(* A step of the objects of a page leaves the invariant true when it counts *)
(* what it does and finds a handle for every refresh.                       *)
LEMMA ObjectsMove ==
  ASSUME IInv, stage \in {"boxes", "shown", "rootless"},
         UNCHANGED <<stage, fetched, aborted, used>>, TypeOK',
         \A i \in Script \cup Sheets : item'[i] = item[i],
         active' = Owed(item'), RefreshFindsObject',
         status' # "ERROR" \/ stage = "rootless",
         stage = "shown" => /\ status' \in {"READY", "DONE"}
                            /\ status' = "DONE" => active' = 0
                            /\ active' = 0 => status' = "DONE" \/ Refused'
  PROVE  IInv' /\ StageStep
<1>1. /\ fetched /\ item[Base] # "none" /\ Pending(item) \cap Script = {}
      /\ Pending(item) \cap Sheets = {}
  BY DEF IInv, Order
<1>2. item' \in Kids
  BY DEF TypeOK, Kids
<1>3. Pending(item') \cap Script = {} /\ Pending(item') \cap Sheets = {} /\ item'[Base] # "none"
  BY <1>1, Kinds DEF Pending
<1>4. Order'
  BY <1>1, <1>3 DEF Order
<1>5. Counts'
  <2>1. Document' = 0 /\ active' \in Nat
    BY <1>1 DEF Document, TypeOK
  <2> QED BY <2>1 DEF Counts
<1>6. DoneIsLoaded'
  <2>1. active' = 0 <=> Pending(item') = {}
    BY <1>2, PendingFinite
  <2> QED BY <2>1 DEF DoneIsLoaded
<1>7. NoLateCalls'
  BY DEF NoLateCalls, ErrorIsQuiet, DestroyedIsQuiet
<1> QED BY <1>4, <1>5, <1>6, <1>7 DEF IInv, StageStep

(* html_fetch_object.                                                      *)
LEMMA FetchObjectStep ==
  ASSUME IInv, NEW o \in Object, html_fetch_object(o)
  PROVE  IInv' /\ StageStep
<1>1. /\ stage = "boxes" /\ status # "ERROR" /\ item[o] = "none"
      /\ item' = Set(item, {o}, "fetching") /\ active' = active + 1
      /\ UNCHANGED <<status, stage, fetched, aborted, timer, refreshes, used>>
  BY DEF html_fetch_object
<1>2. /\ item \in Kids /\ o \in Item /\ o \notin Pending(item) /\ active \in Nat
  BY <1>1, Kinds DEF IInv, TypeOK, Kids, Pending
<1>3. active = Owed(item) /\ Owed(item) \in Nat
  <2>1. Document = 0 /\ Owed(item) \in Nat /\ Alive
    BY <1>1, <1>2, PendingFinite DEF IInv, Order, Document, Alive
  <2> QED BY <1>1, <2>1 DEF IInv, Counts
<1>4. /\ item' \in Kids /\ Owed(item') = Owed(item) + 1
      /\ \A j \in Item \ {o} : item'[j] = item[j]
  BY <1>1, <1>2, OneStarts
<1>5. active' = Owed(item') /\ active' \in Nat
  BY <1>1, <1>2, <1>3, <1>4
<1>6. TypeOK'
  BY <1>1, <1>2, <1>4, <1>5, StepTypes DEF IInv, TypeOK
<1>7. \A i \in Script \cup Sheets : item'[i] = item[i]
  BY <1>4, Kinds
<1>8. RefreshFindsObject'
  <2>1. o \notin timer /\ \A p \in timer : p \in Item
    BY <1>1, Kinds DEF IInv, TypeOK, NoLateCalls, RefreshFindsObject, Held
  <2> QED BY <1>1, <1>4, <2>1 DEF IInv, NoLateCalls, RefreshFindsObject, Held
<1> QED BY <1>1, <1>5, <1>6, <1>7, <1>8, ObjectsMove

(* An object that ends, however it does, is a refresh's object still.      *)
LEMMA EndsKeepTimers ==
  ASSUME IInv, NEW S \in SUBSET Object, timer' = timer,
         \A o \in Object : item'[o] = IF o \in S THEN item'[o] ELSE item[o],
         \A o \in S : item'[o] \in {"READY", "DONE", "NULL"}
  PROVE  RefreshFindsObject'
BY DEF IInv, TypeOK, NoLateCalls, RefreshFindsObject, Held

(* The messages of an object other than REFRESH.                           *)
LEMMA ObjectStep ==
  ASSUME IInv, NEW o \in Object, ObjectReady(o) \/ ObjectEnds(o)
  PROVE  IInv' /\ StageStep
<1>. USE DEF Held
<1>1. CASE Crashes
  BY <1>1, CrashStep
<1>2. CASE /\ ObjectReady(o)
           /\ item' = Set(item, {o}, "READY")
           /\ UNCHANGED <<status, stage, fetched, active, aborted, timer, refreshes, used>>
  <2>1. item[o] = "fetching" /\ Alive /\ status # "ERROR"
    BY <1>2 DEF ObjectReady
  <2>2. /\ stage \in {"boxes", "shown", "rootless"}
        /\ item \in Kids /\ active = Owed(item) /\ active \in Nat
        /\ stage = "shown" => status \in {"READY", "DONE"}
    BY <2>1, ObjectFinds
  <2>3. item' \in Kids /\ Pending(item') = Pending(item)
    BY <1>2, <2>1, <2>2, Kinds DEF Set, Kids, ItemStates, Pending
  <2>4. active' = Owed(item') /\ (active' = 0 <=> Pending(item) = {})
    BY <1>2, <2>2, <2>3, PendingFinite DEF Owed
  <2>5. TypeOK'
    BY <1>2, <2>2, <2>3, StepTypes DEF IInv, TypeOK
  <2>6. \A i \in Item \ {o} : item'[i] = item[i]
    BY <1>2 DEF Set
  <2>7. Refused => Refused'
    BY <2>1, <2>6, Kinds DEF Refused
  <2>8. stage = "shown" => /\ status' \in {"READY", "DONE"}
                           /\ status' = "DONE" => active' = 0
                           /\ active' = 0 => status' = "DONE" \/ Refused'
    BY <1>2, <2>2, <2>4, <2>7 DEF IInv, DoneIsLoaded
  <2>9. RefreshFindsObject'
    <3>1. item'[o] = "READY"
      BY <1>2, Kinds DEF Set
    <3>2. /\ {o} \in SUBSET Object /\ timer' = timer
          /\ \A p \in Object : item'[p] = IF p \in {o} THEN item'[p] ELSE item[p]
          /\ \A p \in {o} : item'[p] \in {"READY", "DONE", "NULL"}
      BY <1>2, <2>6, <3>1, Kinds
    <3> QED BY <3>2, EndsKeepTimers
  <2>10. \A i \in Script \cup Sheets : item'[i] = item[i]
    BY <2>6, Kinds
  <2> QED BY <1>2, <2>1, <2>2, <2>4, <2>5, <2>8, <2>9, <2>10, ObjectsMove
<1>3. CASE /\ ObjectEnds(o)
           /\ item' \in Ends(o, item) /\ active' = active - 1
           /\ status' = AfterObjects(active')
           /\ UNCHANGED <<stage, fetched, aborted, timer, refreshes, used>>
  <2>1. item[o] \in {"fetching", "READY"} /\ Alive /\ status # "ERROR"
    BY <1>3 DEF ObjectEnds
  <2>2. /\ stage \in {"boxes", "shown", "rootless"}
        /\ item \in Kids /\ active = Owed(item) /\ active \in Nat
        /\ stage = "shown" => status \in {"READY", "DONE"}
    BY <2>1, ObjectFinds
  <2>3. o \in Pending(item)
    BY <2>1, Kinds DEF Pending
  <2>4. /\ item' \in Kids /\ Owed(item') = Owed(item) - 1
        /\ Owed(item') \in Nat
        /\ \A j \in Item \ {o} : item'[j] = item[j]
    BY <1>3, <2>2, <2>3, OneEnds
  <2>5. active' = Owed(item') /\ active' \in Nat
    BY <1>3, <2>2, <2>4
  <2>6. status' \in {"LOADING", "READY", "DONE"}
    BY <1>3, <2>1 DEF AfterObjects, IInv, TypeOK
  <2>7. TypeOK'
    BY <1>3, <2>2, <2>4, <2>5, <2>6, StepTypes DEF IInv, TypeOK
  <2>8. \A i \in Script \cup Sheets : item'[i] = item[i]
    BY <2>4, Kinds
  <2>9. stage = "shown" => (status' = "DONE" <=> active' = 0) /\ status' # "LOADING"
    <3>1. stage = "shown" => status = "READY"
      BY <2>2, <2>3 DEF IInv, DoneIsLoaded
    <3> QED BY <1>3, <3>1 DEF AfterObjects
  <2>10. RefreshFindsObject'
    <3>1. item'[o] \in {"DONE", "NULL"}
      BY <1>3, Kinds DEF Ends, Set
    <3>2. /\ {o} \in SUBSET Object /\ timer' = timer
          /\ \A p \in Object : item'[p] = IF p \in {o} THEN item'[p] ELSE item[p]
          /\ \A p \in {o} : item'[p] \in {"READY", "DONE", "NULL"}
      BY <1>3, <2>4, <3>1, Kinds
    <3> QED BY <3>2, EndsKeepTimers
  <2> QED BY <1>3, <2>2, <2>5, <2>6, <2>7, <2>8, <2>9, <2>10, ObjectsMove
<1> QED BY <1>1, <1>2, <1>3 DEF ObjectReady, ObjectEnds

(* The timer of a refresh runs, and replaces the object or loses it.       *)
LEMMA RefreshStep ==
  ASSUME IInv, NEW o \in Object, html_object_refresh(o)
  PROVE  IInv' /\ StageStep
<1>1. CASE Crashes
  BY <1>1, CrashStep
<1>2. CASE /\ Held(o) /\ timer' = timer \ {o} /\ html_replace_object(o)
           /\ UNCHANGED <<stage, fetched, aborted, refreshes, used>>
  <2>1. Alive
    BY <1>2, Kinds DEF html_object_refresh, Alive, IInv, NoLateCalls, DestroyedIsQuiet,
                       Held, Handles, Script
  <2>2. /\ stage \in {"boxes", "shown", "rootless"}
        /\ status # "ERROR" \/ stage = "rootless"
        /\ item \in Kids /\ active = Owed(item) /\ active \in Nat
        /\ stage = "shown" => status \in {"READY", "DONE"}
    BY <1>2, <2>1, ObjectFinds
  <2>. DEFINE n == active - (IF item[o] # "DONE" THEN 1 ELSE 0)
              rest == Pending(item) \ {o}
  <2>3. o \in Item
    BY Kinds
  <2>4. IsFiniteSet(rest) /\ Cardinality(rest) \in Nat /\ Cardinality(rest) = n
    <3>1. IsFiniteSet(Pending(item))
      BY <2>2, PendingFinite
    <3>2. IsFiniteSet(rest) /\ Cardinality(rest) \in Nat
      BY <3>1, FS_RemoveElement, FS_CardinalityType
    <3>3. CASE item[o] = "DONE"
      <4>1. rest = Pending(item)
        BY <3>3 DEF Pending
      <4>2. n = active
        BY <2>2, <3>3
      <4> QED BY <2>2, <3>2, <4>1, <4>2 DEF Owed
    <3>4. CASE item[o] # "DONE"
      <4>1. o \in Pending(item)
        BY <1>2, <2>3, <3>4 DEF Held, Pending
      <4>2. Cardinality(rest) = Cardinality(Pending(item)) - 1
        BY <3>1, <4>1, FS_RemoveElement
      <4>3. n = active - 1
        BY <3>4
      <4> QED BY <2>2, <3>2, <4>2, <4>3 DEF Owed
    <3> QED BY <3>2, <3>3, <3>4
  <2>5. /\ \A state \in {"fetching", "refused"} : Set(item, {o}, state) \in Kids
        /\ Pending(Set(item, {o}, "refused")) = rest
        /\ Pending(Set(item, {o}, "fetching")) = rest \cup {o}
        /\ \A state \in {"fetching", "refused"} :
              \A i \in Item \ {o} : Set(item, {o}, state)[i] = item[i]
    BY <2>2, <2>3 DEF Set, Kids, ItemStates, Pending
  <2>6. Owed(Set(item, {o}, "refused")) = n /\ Owed(Set(item, {o}, "fetching")) = n + 1
    <3>1. Cardinality(rest \cup {o}) = Cardinality(rest) + 1
      BY <2>4, FS_AddElement
    <3> QED BY <2>4, <2>5, <3>1 DEF Owed
  <2>7. \/ item' = Set(item, {o}, "fetching") /\ active' = n + 1 /\ status' = "READY"
        \/ item' = Set(item, {o}, "refused") /\ active' = n /\ UNCHANGED status
    BY <1>2 DEF html_replace_object
  <2>. HIDE DEF n, rest
  <2>8. item' \in Kids /\ active' = Owed(item') /\ \A i \in Item \ {o} : item'[i] = item[i]
    BY <2>5, <2>6, <2>7
  <2>9. active' \in Nat
    BY <2>8, PendingFinite
  <2>10. TypeOK'
    <3>1. timer' \subseteq Object /\ refreshes' \in 0..MaxRefresh
      BY <1>2 DEF IInv, TypeOK
    <3>2. fetched' \in BOOLEAN /\ aborted' \in BOOLEAN /\ used' \in BOOLEAN
      BY <1>2, Zenon DEF IInv, TypeOK
    <3>3. status' \in {"LOADING", "READY", "DONE", "ERROR"} /\ stage' \in Stages
      BY <1>2, <2>7 DEF IInv, TypeOK
    <3> QED BY <2>8, <2>9, <3>1, <3>2, <3>3, Zenon DEF TypeOK, Kids
  <2>11. \A i \in Script \cup Sheets : item'[i] = item[i]
    BY <2>8, Kinds
  <2>12. RefreshFindsObject'
    BY <1>2, <2>8, Kinds DEF IInv, TypeOK, NoLateCalls, RefreshFindsObject, Held
  <2>13. status' # "ERROR" \/ stage = "rootless"
    BY <2>2, <2>7
  <2>14. ASSUME stage = "shown"
         PROVE  /\ status' \in {"READY", "DONE"}
                /\ status' = "DONE" => active' = 0
                /\ active' = 0 => status' = "DONE" \/ Refused'
    <3>1. CASE item' = Set(item, {o}, "fetching") /\ active' = n + 1 /\ status' = "READY"
      <4>1. n \in Nat
        BY <2>4
      <4> QED BY <3>1, <4>1
    <3>2. CASE item' = Set(item, {o}, "refused") /\ active' = n /\ UNCHANGED status
      <4>1. status = "DONE" => Pending(item) = {}
        BY <2>14 DEF IInv, DoneIsLoaded
      <4>2. status = "DONE" => n = 0
        <5>1. rest \subseteq Pending(item)
          BY DEF rest
        <5>2. ASSUME status = "DONE" PROVE Pending(item') = {}
          BY <2>5, <3>2, <4>1, <5>1, <5>2
        <5> QED BY <2>8, <3>2, <5>2, PendingFinite
      <4>3. Refused'
        <5>1. item'[o] = "refused"
          BY <2>3, <3>2 DEF Set
        <5> QED BY <5>1 DEF Refused
      <4> QED BY <2>2, <2>14, <3>2, <4>2, <4>3
    <3> QED BY <2>7, <3>1, <3>2
  <2> QED BY <1>2, <2>2, <2>8, <2>10, <2>11, <2>12, <2>13, <2>14, ObjectsMove
<1> QED BY <1>1, <1>2 DEF html_object_refresh

(* An embedded document asks for a refresh, or a client leaves: neither      *)
(* changes what is fetched.                                                  *)
LEMMA QuietStep ==
  ASSUME IInv, ClientLeaves \/ \E o \in Object : ObjectRefreshes(o)
  PROVE  IInv' /\ StageStep
<1>1. UNCHANGED <<status, stage, fetched, active, aborted, item>>
  BY DEF ClientLeaves, ObjectRefreshes
<1>2. TypeOK'
  <2>1. fetched' \in BOOLEAN /\ aborted' \in BOOLEAN
    BY <1>1, Zenon DEF IInv, TypeOK
  <2>2. used' \in BOOLEAN
    BY Zenon DEF IInv, TypeOK, ClientLeaves, ObjectRefreshes
  <2>3. timer' \subseteq Object /\ refreshes' \in 0..MaxRefresh
    <3>1. CASE ClientLeaves
      BY <3>1 DEF IInv, TypeOK, ClientLeaves
    <3>2. CASE \E o \in Object : ObjectRefreshes(o)
      <4>1. MaxRefresh \in Nat
        BY HtmlAssumption DEF HtmlAssumption
      <4> QED BY <3>2, <4>1 DEF IInv, TypeOK, ObjectRefreshes
    <3> QED BY <3>1, <3>2
  <2>4. /\ status' \in {"LOADING", "READY", "DONE", "ERROR"}
        /\ stage' \in Stages
        /\ active' \in Nat /\ item' \in Kids
    BY <1>1 DEF IInv, TypeOK, Kids
  <2> QED BY <2>1, <2>2, <2>3, <2>4, Zenon DEF TypeOK, Kids
<1>3. RefreshFindsObject'
  <2>1. \A o \in timer' \ timer : item[o] = "fetching"
    BY DEF ClientLeaves, ObjectRefreshes
  <2> QED BY <1>1, <2>1 DEF IInv, NoLateCalls, RefreshFindsObject, Held
<1>4. Counts' /\ Order' /\ NoLateCalls' /\ DoneIsLoaded'
  BY <1>1, <1>3 DEF IInv, Counts, Alive, Order, NoLateCalls, ErrorIsQuiet, DestroyedIsQuiet,
              Handles, Held, DoneIsLoaded, Refused, Document
<1> QED BY <1>1, <1>2, <1>4 DEF IInv, StageStep

(* The types a step that only releases handles must give the variables.     *)
LEMMA ReleaseTypes ==
  ASSUME TypeOK, item' \in Kids, timer' \subseteq timer,
         UNCHANGED <<fetched, active, aborted, refreshes, used>>,
         status' \in {"LOADING", "READY", "DONE", "ERROR"},
         stage' \in Stages
  PROVE  TypeOK'
<1>1. fetched' \in BOOLEAN /\ aborted' \in BOOLEAN /\ used' \in BOOLEAN
  BY Zenon DEF TypeOK
<1>2. active' \in Nat /\ timer' \subseteq Object /\ refreshes' \in 0..MaxRefresh
  BY DEF TypeOK
<1> QED BY <1>1, <1>2, Zenon DEF TypeOK, Kids

(* An object that is destroyed takes its refresh with it, and one without    *)
(* handle is left alone with its refresh.                                    *)
LEMMA ObjectsDestroyed ==
  ASSUME IInv, NEW kids \in Kids, html_destroy_objects(kids),
         \A o \in Object : kids[o] = item[o]
  PROVE  /\ item' \in Kids
         /\ \A i \in Script \cup Sheets : item'[i] = kids[i]
         /\ \A o \in Object : ~Held(o)'
         /\ timer' \subseteq timer
         /\ RefreshFindsObject'
<1>1. /\ item' = Set(kids, Object \cap Handles(kids), "freed")
      /\ timer' = timer \ Handles(kids)
  BY DEF html_destroy_objects
<1>2. item' \in Kids
  BY <1>1 DEF Set, Kids, ItemStates
<1>3. \A i \in Script \cup Sheets : item'[i] = kids[i]
  BY <1>1, Kinds DEF Set
<1>4. \A o \in Object : ~Held(o)'
  BY <1>1, Kinds DEF Set, Handles, Held
<1>5. RefreshFindsObject'
  <2>1. SUFFICES ASSUME NEW o \in timer' PROVE item'[o] = "NULL"
    BY DEF RefreshFindsObject
  <2>2. o \in timer /\ o \in Object /\ o \in Item /\ o \notin Handles(kids)
    BY <1>1, Kinds DEF IInv, TypeOK
  <2>3. ~Held(o)
    BY <2>2 DEF Handles, Held
  <2>4. item[o] = "NULL"
    BY <2>2, <2>3 DEF IInv, NoLateCalls, RefreshFindsObject
  <2> QED BY <1>1, <2>2, <2>4 DEF Set
<1> QED BY <1>1, <1>2, <1>3, <1>4, <1>5

(* The boxes are built, or their conversion fails and the objects go, but    *)
(* for the document without root element.                                    *)
LEMMA BoxStep ==
  ASSUME IInv, NEW result \in Results, html_box_convert_done(result)
  PROVE  IInv' /\ StageStep
<1>1. /\ stage = "boxes" /\ status # "ERROR"
      /\ UNCHANGED <<fetched, active, aborted, refreshes, used>>
  BY DEF html_box_convert_done
<1>2. /\ fetched /\ item[Base] # "none" /\ item \in Kids
      /\ Pending(item) \cap Script = {} /\ Pending(item) \cap Sheets = {}
  BY <1>1 DEF IInv, Order, TypeOK, Kids
<1>3. /\ Document' = 0 /\ Document = 0 /\ Owed(item) \in Nat
      /\ active = Owed(item) /\ active' = Owed(item)
  <2>1. Document' = 0 /\ Document = 0 /\ Owed(item) \in Nat /\ Alive
    BY <1>1, <1>2, PendingFinite DEF Document, Alive
  <2> QED BY <1>1, <2>1 DEF IInv, Counts
<1>4. CASE status' = "ERROR" /\ html_destroy_objects(item) /\ UNCHANGED stage
  <2>1. /\ item' \in Kids
        /\ \A i \in Script \cup Sheets : item'[i] = item[i]
        /\ \A o \in Object : ~Held(o)'
        /\ timer' \subseteq timer
        /\ RefreshFindsObject'
    BY <1>2, <1>4, ObjectsDestroyed
  <2>2. TypeOK'
    BY <1>1, <1>4, <2>1, ReleaseTypes DEF IInv, TypeOK
  <2>3. Pending(item') = {} /\ Pending(item') \subseteq Pending(item)
    BY <1>2, <2>1, Kinds DEF Pending, Held
  <2>4. Counts'
    <3>1. Owed(item') <= Owed(item)
      BY <1>2, <2>1, <2>3, FewerOwed
    <3>2. active' >= Owed(item') + Document'
      <4>1. Owed(item') \in Nat
        BY <2>1, PendingFinite
      <4> QED BY <1>3, <3>1, <4>1
    <3> QED BY <1>1, <1>4, <3>2 DEF Counts
  <2>5. Order'
    BY <1>1, <1>2, <1>4, <2>1, <2>3, Kinds DEF Order
  <2>6. NoLateCalls' /\ DoneIsLoaded'
    BY <1>1, <1>4, <2>1 DEF NoLateCalls, ErrorIsQuiet, DestroyedIsQuiet, DoneIsLoaded
  <2> QED BY <1>1, <1>4, <2>2, <2>4, <2>5, <2>6 DEF IInv, StageStep
<1>5. CASE status' = "ERROR" /\ stage' = "rootless" /\ UNCHANGED <<item, timer>>
  <2>1. TypeOK'
    <3>1. fetched' \in BOOLEAN /\ stage' \in Stages
      BY <1>1, <1>5, Zenon DEF IInv, TypeOK, Stages
    <3> QED BY <1>1, <1>2, <1>5, <3>1, ReleaseTypes DEF IInv
  <2>2. Counts' /\ Order' /\ NoLateCalls' /\ DoneIsLoaded'
    BY <1>1, <1>2, <1>3, <1>5 DEF IInv, Counts, Order, NoLateCalls, ErrorIsQuiet,
          DestroyedIsQuiet, RefreshFindsObject, Held, DoneIsLoaded
  <2> QED BY <1>5, <2>1, <2>2 DEF IInv, StageStep
<1>6. CASE /\ status' = IF active = 0 THEN "DONE" ELSE "READY"
           /\ stage' = "shown" /\ UNCHANGED <<item, timer>>
  <2>1. status' \in {"READY", "DONE"} /\ (status' = "DONE" <=> active = 0)
    BY <1>6
  <2>2. TypeOK'
    BY <1>1, <1>2, <1>6, <2>1, ReleaseTypes DEF IInv, TypeOK, Stages
  <2>3. Counts' /\ Order'
    BY <1>1, <1>2, <1>3, <1>6, <2>1 DEF Counts, Order
  <2>4. NoLateCalls'
    BY <1>6, <2>1 DEF IInv, NoLateCalls, ErrorIsQuiet, DestroyedIsQuiet, RefreshFindsObject, Held
  <2>5. DoneIsLoaded'
    <3>1. active = 0 <=> Pending(item) = {}
      BY <1>2, <1>3, PendingFinite
    <3> QED BY <1>6, <2>1, <3>1 DEF DoneIsLoaded
  <2> QED BY <1>6, <2>1, <2>2, <2>3, <2>4, <2>5 DEF IInv, StageStep
<1> QED BY <1>4, <1>5, <1>6 DEF html_box_convert_done

(* The user stops the page.                                                *)
LEMMA StopStep ==
  ASSUME IInv, html_stop
  PROVE  IInv' /\ StageStep
<1>0. CASE Crashes
  BY <1>0, CrashStep
<1>1. status # "ERROR" /\ Alive
  BY DEF html_stop
<1>2. item \in Kids /\ active \in Nat /\ aborted \in BOOLEAN
  BY Zenon DEF IInv, TypeOK, Kids
<1>3. /\ Owed(item) \in Nat /\ Document \in {0, 1}
      /\ active = Owed(item) + Document
  BY <1>1, <1>2, PendingFinite DEF IInv, Counts, Document
<1>4. ASSUME UNCHANGED <<stage, fetched, timer, refreshes, used>>,
             aborted' \in BOOLEAN, status' \in {"LOADING", "READY", "DONE", "ERROR"},
             active' \in Nat, item' \in Kids
      PROVE  TypeOK'
  <2>1. fetched' \in BOOLEAN /\ used' \in BOOLEAN
    BY <1>4, Zenon DEF IInv, TypeOK
  <2>2. timer' \subseteq Object /\ refreshes' \in 0..MaxRefresh /\ stage' \in Stages
    BY <1>4 DEF IInv, TypeOK
  <2> QED BY <1>4, <2>1, <2>2, Zenon DEF TypeOK, Kids
<1>5. CASE /\ aborted' = TRUE
           /\ UNCHANGED <<status, stage, fetched, active, item, timer, refreshes, used>>
  <2>1. aborted' \in BOOLEAN
    BY <1>5, Zenon
  <2>2. TypeOK'
    BY <1>2, <1>4, <1>5, <2>1 DEF IInv, TypeOK
  <2>3. Counts' /\ Order' /\ NoLateCalls' /\ DoneIsLoaded'
    BY <1>1, <1>5 DEF IInv, Counts, Alive, Order, NoLateCalls, ErrorIsQuiet, DestroyedIsQuiet,
                      RefreshFindsObject, Held, DoneIsLoaded, Refused, Document
  <2> QED BY <1>5, <2>2, <2>3 DEF IInv, StageStep
<1>7. CASE /\ status = "READY" /\ UNCHANGED <<stage, fetched, aborted, timer, refreshes, used>>
           /\ LET loading == {o \in Object : item[o] = "fetching"}
              IN \E now \in SUBSET {o \in Object : item[o] = "READY"} :
                    /\ item' = Set(Set(item, loading, "NULL"), now, "DONE")
                    /\ active' = active - Cardinality(loading) - Cardinality(now)
                    /\ status' = AfterObjects(active')
  <2>. DEFINE loading == {o \in Object : item[o] = "fetching"}
              first == Set(item, loading, "NULL")
  <2>1. PICK now \in SUBSET {o \in Object : item[o] = "READY"} :
          /\ item' = Set(first, now, "DONE")
          /\ active' = active - Cardinality(loading) - Cardinality(now)
          /\ status' = AfterObjects(active')
    BY <1>7
  <2>2. /\ loading \in SUBSET Pending(item) /\ now \in SUBSET (Pending(item) \ loading)
        /\ loading \subseteq Object /\ now \subseteq Object
    BY Kinds DEF Pending
  <2>3. /\ first \in Kids /\ Pending(first) = Pending(item) \ loading
        /\ Cardinality(loading) \in Nat
        /\ Owed(first) = Owed(item) - Cardinality(loading)
    BY <1>2, <2>2, EndOwed
  <2>4. \A i \in Item : i \notin loading \cup now => item'[i] = item[i]
    BY <2>1 DEF Set
  <2>5. \A i \in Item : item[i] = "none" => item'[i] = "none"
    BY <2>2, <2>4 DEF Pending
  <2>6. item'[Base] = item[Base]
    BY <2>2, <2>4, Kinds
  <2>. HIDE DEF loading, first
  <2>7. /\ item' \in Kids /\ Pending(item') = Pending(first) \ now
        /\ Cardinality(now) \in Nat
        /\ Owed(item') = Owed(first) - Cardinality(now)
    BY <2>1, <2>2, <2>3, EndOwed
  <2>8. Owed(item') \in Nat
    BY <2>7, PendingFinite
  <2>9. active' = Owed(item') + Document' /\ active' \in Nat
    <3>1. Document' = Document
      BY <1>7 DEF Document
    <3> QED BY <3>1, <1>2, <1>3, <2>1, <2>3, <2>7, <2>8
  <2>10. status' \in {"READY", "DONE"} /\ (status' = "DONE" <=> active' = 0)
    BY <1>7, <2>1 DEF AfterObjects
  <2>11. TypeOK'
    BY <1>2, <1>4, <1>7, <2>7, <2>9, <2>10, Zenon
  <2>12. Counts'
    BY <2>9 DEF Counts
  <2>13. Order'
    BY <1>7, <2>3, <2>5, <2>6, <2>7, <2>10, Kinds DEF IInv, Order
  <2>14. NoLateCalls'
    <3>1. RefreshFindsObject'
      <4>1. /\ loading \cup now \in SUBSET Object /\ timer' = timer
            /\ \A o \in Object : item'[o] = IF o \in loading \cup now THEN item'[o] ELSE item[o]
        BY <1>7, <2>2, <2>4, Kinds
      <4>2. \A o \in loading \cup now : item'[o] \in {"READY", "DONE", "NULL"}
        BY <2>1, <2>2, Kinds DEF Set, first
      <4> QED BY <4>1, <4>2, EndsKeepTimers
    <3>2. stage # "gone"
      BY <1>1 DEF Alive
    <3> QED BY <1>7, <2>10, <3>1, <3>2 DEF NoLateCalls, ErrorIsQuiet, DestroyedIsQuiet
  <2>15. DoneIsLoaded'
    <3>1. stage = "shown" => Document' = 0
      BY <1>7 DEF IInv, Order, Document
    <3>2. stage = "shown" => (active' = 0 <=> Pending(item') = {})
      BY <2>7, <2>9, <3>1, PendingFinite
    <3> QED BY <1>7, <2>10, <3>2 DEF DoneIsLoaded
  <2> QED BY <1>7, <2>11, <2>12, <2>13, <2>14, <2>15 DEF IInv, StageStep
<1> QED BY <1>0, <1>5, <1>7 DEF html_stop

(* The page is destroyed.                                                  *)
LEMMA DestroyStep ==
  ASSUME IInv, html_destroy
  PROVE  IInv' /\ StageStep
<1>1. CASE Crashes
  BY <1>1, CrashStep
<1>2. CASE /\ stage' = "gone" /\ html_destroy_objects(html_free_scripts(FreeSheets(item)))
           /\ UNCHANGED <<status, fetched, active, aborted, refreshes, used>>
  <2>. DEFINE sheetless == FreeSheets(item)
              freed == html_free_scripts(sheetless)
  <2>1. item \in Kids
    BY DEF IInv, TypeOK, Kids
  <2>2. /\ sheetless \in Kids
        /\ \A s \in Sheets : s \notin Handles(sheetless)
        /\ \A i \in Script \cup Object : sheetless[i] = item[i]
    BY <2>1, Kinds DEF FreeSheets, Set, Kids, ItemStates, Handles
  <2>. HIDE DEF sheetless
  <2>3. /\ freed \in Kids
        /\ \A i \in Sheets \cup Sync : i \notin Handles(freed)
        /\ \A o \in Object : freed[o] = item[o]
    <3>1. freed = Set(sheetless, Sync \cap Handles(sheetless), "NULL")
      BY DEF html_free_scripts
    <3>2. freed \in Kids
      BY <2>2, <3>1 DEF Set, Kids, ItemStates
    <3>3. Sync \cap Object = {} /\ Sync \subseteq Item
      BY Kinds DEF Script
    <3>4. \A o \in Object : freed[o] = item[o]
      BY <2>2, <3>1, <3>3, Kinds DEF Set
    <3>5. \A i \in Sheets \cup Sync : i \notin Handles(freed)
      BY <2>2, <3>1, <3>3, Kinds DEF Set, Handles
    <3> QED BY <3>2, <3>4, <3>5
  <2>. HIDE DEF freed
  <2>4. /\ item' \in Kids
        /\ \A i \in Script \cup Sheets : item'[i] = freed[i]
        /\ \A o \in Object : ~Held(o)'
        /\ timer' \subseteq timer
        /\ RefreshFindsObject'
    <3>1. html_destroy_objects(freed)
      BY <1>2 DEF freed, sheetless
    <3> QED BY <2>3, <3>1, ObjectsDestroyed
  <2>5. TypeOK'
    BY <1>2, <2>4, ReleaseTypes DEF IInv, TypeOK, Stages
  <2>6. DestroyedIsQuiet'
    <3>1. \A i \in Sheets \cup Sync : i \notin Handles(item')
      BY <2>3, <2>4, Kinds DEF Handles, Script
    <3>2. \A o \in Object : o \notin Handles(item')
      BY <2>4 DEF Held, Handles
    <3>3. Item = Sheets \cup Sync \cup Object \cup Async \cup Defer
      BY DEF Item, Script
    <3>4. Handles(item') \subseteq Item
      BY DEF Handles
    <3> QED BY <3>1, <3>2, <3>3, <3>4 DEF DestroyedIsQuiet
  <2>7. Counts' /\ Order' /\ NoLateCalls' /\ DoneIsLoaded' /\ StageStep
    BY <1>2, <2>4, <2>6 DEF Counts, Alive, Order, NoLateCalls, ErrorIsQuiet, DoneIsLoaded, StageStep
  <2> QED BY <2>5, <2>7 DEF IInv
<1> QED BY <1>1, <1>2 DEF html_destroy

-----------------------------------------------------------------------------
(* The theorems                                                            *)

(* Every step preserves the invariant, and enters a stage as it should.    *)
LEMMA Step == IInv /\ [Next]_vars => IInv' /\ [StageStep]_vars
<1> SUFFICES ASSUME IInv, [Next]_vars PROVE IInv' /\ [StageStep]_vars
  OBVIOUS
<1>1. CASE UNCHANGED vars
  BY <1>1 DEF vars, IInv, TypeOK, Counts, Alive, Document, Order, NoLateCalls, ErrorIsQuiet,
              DestroyedIsQuiet, RefreshFindsObject, Held, DoneIsLoaded, Refused
<1>2. CASE Next
  <2>1. CASE html_process_data
    BY <2>1, ProcessDataStep
  <2>2. CASE html_convert \/ FetchFails
    BY <2>2, DocumentStep
  <2>3. CASE \E s \in Script : ScriptSettles(s)
    BY <2>3, ScriptStep
  <2>4. CASE \E s \in Sheets : StyleEnds(s)
    BY <2>4, StyleStep
  <2>5. CASE \E result \in Results : html_box_convert_done(result)
    BY <2>5, BoxStep
  <2>6. CASE \E o \in Object : ObjectReady(o) \/ ObjectEnds(o)
    BY <2>6, ObjectStep
  <2>7. CASE \E o \in Object : html_object_refresh(o)
    BY <2>7, RefreshStep
  <2>8. CASE ClientLeaves \/ \E o \in Object : ObjectRefreshes(o)
    BY <2>8, QuietStep
  <2>9. CASE html_stop
    BY <2>9, StopStep
  <2>10. CASE html_destroy
    BY <2>10, DestroyStep
  <2>11. CASE \E o \in Object : html_fetch_object(o)
    BY <2>11, FetchObjectStep
  <2>12. CASE (\E o \in Object : ObjectCallsError(o)) \/ (\E i \in Item : CallsFreedPage(i))
    BY <2>12, CrashStep DEF ObjectCallsError, CallsFreedPage
  <2> QED BY <1>2, <2>1, <2>2, <2>3, <2>4, <2>5, <2>6, <2>7, <2>8, <2>9, <2>10, <2>11, <2>12
          DEF Next
<1> QED BY <1>1, <1>2

(* The invariant holds in every page: each stage begins only when nothing   *)
(* of the earlier ones is pending, because the count misses no fetch.       *)
THEOREM InvariantHolds == Spec => []IInv
<1>1. Init => IInv
  BY InitHolds
<1>2. IInv /\ [Next]_vars => IInv'
  BY Step
<1> QED BY <1>1, <1>2, PTL DEF Spec

(* html.c raises and lowers c->base.active in every callback of a script, a *)
(* sheet or an object, in a stop and in a refresh, and it is the number of  *)
(* fetches there are until the page fails, is destroyed or has crashed.     *)
THEOREM ActiveCountsHolds == Spec => []ActiveCounts
<1>1. IInv => ActiveCounts
  BY DEF IInv, Counts, Owed, Document, ActiveCounts
<1> QED BY <1>1, InvariantHolds, PTL

(* html_destroy and the failing ends of html_box_convert_done leave no      *)
(* handle behind that could call back later, but for those the code forgets: *)
(* the objects of a document without root element, the scripts that are not *)
(* synchronous, and the refresh of an object that has lost its handle.       *)
THEOREM NoLateCallsHolds == Spec => []NoLateCalls
<1>1. IInv => NoLateCalls
  BY DEF IInv
<1> QED BY <1>1, InvariantHolds, PTL

(* The status a shown page has is DONE only when nothing is pending, and     *)
(* whenever nothing is, unless the replacement of an object was refused.     *)
THEOREM DoneIsLoadedHolds == Spec => []DoneIsLoaded
<1>1. IInv => DoneIsLoaded
  BY DEF IInv
<1> QED BY <1>1, InvariantHolds, PTL

(* The styles are asked for after the last script, the boxes built after    *)
(* the last style sheet and with the base style sheet at hand.              *)
THEOREM StagesInOrderHolds == Spec => StagesInOrder
<1>1. IInv /\ [Next]_vars => [StageStep]_vars
  BY Step
<1>2. Spec => [][StageStep]_vars
  BY <1>1, InvariantHolds, PTL DEF Spec
<1> QED BY <1>2 DEF StagesInOrder, StageStep
=============================================================================
