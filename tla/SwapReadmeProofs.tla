-------------------------- MODULE SwapReadmeProofs --------------------------
(***************************************************************************)
(* The two invariants of SwapReadme, for any number of packs, deaths and   *)
(* rewritings.  SwapInv is inductive.                                      *)
(***************************************************************************)
EXTENDS SwapReadme, TLAPS

Calls == Swapping \cup Restoring \cup Resting \cup {"pack"}

SwapTypes ==
    /\ tracked \in Names
    /\ readme \in [Names -> Contents]
    /\ backup \in Contents
    /\ pc \in Calls
    /\ target \in Names
    /\ latest \in Versions
    /\ unnamed \in BOOLEAN
    /\ byHand \in BOOLEAN

\* A README worth keeping: the latest, if nobody restored an older one.
Good(f) == f \in Versions /\ (byHand \/ f = latest)

\* The README is under one name, or is the backup.
OneFile ==
    /\ \A m, n \in Names : readme[m] # Absent /\ readme[n] # Absent => m = n
    /\ backup = Absent \/ Good(backup)
    /\ backup = Absent => \E n \in Names : Good(readme[n])
    /\ byHand \/ backup = Absent \/ \A n \in Names : readme[n] \notin Versions

\* No file bears the name, between a removal or renaming and what follows.
Nameless == {"swapPutBack", "swapCopy", "restorePutBack"}

\* What holds before each call of the script.
CallByCall ==
    /\ pc \in {"swapRemove", "swapCopying", "pack", "restoreRemove"} \cup Nameless =>
          backup # Absent
    /\ pc \in {"swapRename", "restored"} => backup = Absent
    /\ pc \in {"swapRemove", "swapRename", "swapCopying", "pack", "restoreRemove"} =>
          \A n \in Names : n = target \/ readme[n] = Absent
    /\ pc \in Nameless => \A n \in Names : readme[n] = Absent
    /\ pc = "swapRename" => Good(readme[target])
    /\ pc = "pack" => readme[target] = Npm

\* The name is kept as long as no process dies while no file bears it.
NameIsKept ==
    unnamed \/
      /\ target = tracked
      /\ \A n \in Names : n = tracked \/ readme[n] = Absent
      /\ pc \in Nameless \/ readme[tracked] # Absent

SwapInv ==
    /\ SwapTypes
    /\ (byHand /\ unnamed) \/ (OneFile /\ CallByCall /\ NameIsKept)

-----------------------------------------------------------------------------
(***************************************************************************)
(* Every step keeps the types.                                             *)
(***************************************************************************)
LEMMA SwapTypesKept ==
    ASSUME SwapTypes, [Next]_vars
    PROVE  SwapTypes'
<1> USE SwapAssumption DEF SwapTypes, Calls, Names, Contents, Versions, Absent, Npm, Torn,
        Swapping, Restoring, Resting, histories
<1>1. CASE Pack
  BY <1>1 DEF Pack, FindReadme, FirstOfSwap
<1>2. CASE Remove("swapRemove", "swapPutBack") \/ Remove("restoreRemove", "restorePutBack")
  BY <1>2 DEF Remove
<1>3. CASE PutBack("swapPutBack", "swapRename") \/ PutBack("restorePutBack", "restored")
  BY <1>3 DEF PutBack
<1>4. CASE Rename
  BY <1>4 DEF Rename
<1>5. CASE Copy
  BY <1>5 DEF Copy
<1>6. CASE Packed
  BY <1>6 DEF Packed
<1>7. CASE Restore
  BY <1>7 DEF Restore, FindReadme
<1>8. CASE Die
  BY <1>8 DEF Die
<1>9. CASE \E n \in Names : Edit(n)
  BY <1>9 DEF Edit
<1>10. CASE Checkout
  BY <1>10 DEF Checkout
<1>11. CASE UNCHANGED vars
  BY <1>11 DEF vars
<1> QED
  BY <1>1, <1>2, <1>3, <1>4, <1>5, <1>6, <1>7, <1>8, <1>9, <1>10, <1>11 DEF Next

(***************************************************************************)
(* Once by hand and nameless, for ever so.                                 *)
(***************************************************************************)
LEMMA HistoryStays ==
    ASSUME SwapTypes, [Next]_vars
    PROVE  (byHand => byHand') /\ (unnamed => unnamed')
<1>1. CASE Die
  BY <1>1 DEF Die
<1>2. CASE Checkout
  BY <1>2 DEF Checkout
<1>3. [Next]_vars => Die \/ Checkout \/ (byHand' = byHand /\ unnamed' = unnamed)
  BY DEF Next, Pack, Remove, PutBack, Rename, Copy, Packed, Restore, Edit, vars, histories
<1> QED
  BY <1>1, <1>2, <1>3

(***************************************************************************)
(* Every call of the script, every death and every edit keeps SwapInv.     *)
(***************************************************************************)
LEMMA SwapInvKept ==
    ASSUME SwapInv, [Next]_vars
    PROVE  SwapInv'
<1>1. SwapTypes /\ SwapTypes'
  BY SwapTypesKept DEF SwapInv
<1> DEFINE Calm == ~ (byHand /\ unnamed)
           Kept == OneFile /\ CallByCall /\ NameIsKept
<1> SUFFICES ASSUME Calm'
             PROVE  Kept'
  BY <1>1 DEF SwapInv
<1>2. Calm /\ Kept
  BY <1>1, HistoryStays DEF SwapInv
<1> USE SwapAssumption, <1>1, <1>2 DEF SwapTypes, Calls, Names, Contents, Versions,
        Absent, Npm, Torn, Swapping, Restoring, Resting, Nameless, histories,
        OneFile, CallByCall, NameIsKept, Good
<1>3. CASE Pack
  BY <1>3 DEF Pack, FindReadme, FirstOfSwap
<1>4. CASE Remove("swapRemove", "swapPutBack") \/ Remove("restoreRemove", "restorePutBack")
  BY <1>4 DEF Remove
<1>5. CASE PutBack("swapPutBack", "swapRename") \/ PutBack("restorePutBack", "restored")
  BY <1>5 DEF PutBack
<1>6. CASE Rename
  BY <1>6 DEF Rename
<1>7. CASE Copy
  BY <1>7 DEF Copy
<1>8. CASE Packed
  BY <1>8 DEF Packed
<1>9. CASE Restore
  BY <1>9 DEF Restore, FindReadme
<1>10. CASE Die
  BY <1>10 DEF Die
<1>11. CASE \E n \in Names : Edit(n)
  BY <1>11 DEF Edit
<1>12. CASE Checkout
  BY <1>12 DEF Checkout
<1>13. CASE UNCHANGED vars
  BY <1>13 DEF vars
<1> QED
  BY <1>3, <1>4, <1>5, <1>6, <1>7, <1>8, <1>9, <1>10, <1>11, <1>12, <1>13 DEF Next

-----------------------------------------------------------------------------
(***************************************************************************)
(* The inductive invariant of the packs.                                   *)
(***************************************************************************)
THEOREM SwapInvariant == Spec => []SwapInv
<1>1. ASSUME Init
      PROVE  SwapInv
  <2> USE SwapAssumption, <1>1 DEF Init, Names, Versions, Absent
  <2>1. /\ 1 \in Contents /\ 0 \in Contents /\ 1 \in Versions
        /\ tracked \in Names /\ target \in Names
    BY DEF Contents
  <2>2. SwapTypes
    <3>1. readme \in [Names -> Contents]
      BY <2>1 DEF Contents
    <3> QED
      BY <2>1, <3>1, Zenon DEF SwapTypes, Calls, Contents, Swapping, Restoring, Resting
  <2>3. OneFile
    BY DEF OneFile, Good
  <2>4. CallByCall
    BY DEF CallByCall, Nameless
  <2>5. NameIsKept
    BY DEF NameIsKept, Nameless
  <2> QED
    BY <2>2, <2>3, <2>4, <2>5 DEF SwapInv
<1>2. SwapInv /\ [Next]_vars => SwapInv'
  BY SwapInvKept
<1> QED
  BY <1>1, <1>2, PTL DEF Spec

(***************************************************************************)
(* FullReadmeSurvives (scripts/swap-readme.mjs, lines 38-57): whatever     *)
(* dies and wherever, the full README is there.                            *)
(***************************************************************************)
THEOREM ReadmeSurvives == Spec => []FullReadmeSurvives
<1>1. SwapInv => FullReadmeSurvives
  BY DEF SwapInv, SwapTypes, OneFile, Good, FullReadmeSurvives, Files
<1> QED
  BY <1>1, SwapInvariant, PTL

(***************************************************************************)
(* PackDoesItsJob (scripts/swap-readme.mjs, lines 31-57): the npm version  *)
(* is packed, the full one set aside and put back under its name.          *)
(***************************************************************************)
THEOREM PacksDoTheirJob == Spec => []PackDoesItsJob
<1>1. SwapInv => PackDoesItsJob
  BY DEF SwapInv, SwapTypes, OneFile, CallByCall, NameIsKept, Nameless, Good,
     Versions, Absent, Names, PackDoesItsJob, Readmes
<1> QED
  BY <1>1, SwapInvariant, PTL

=============================================================================
