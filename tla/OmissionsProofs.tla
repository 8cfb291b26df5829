-------------------------- MODULE OmissionsProofs --------------------------
(* What holds of the omissions of Omissions for any districts, lists,       *)
(* candidates, members and sequences of decisions.                          *)
EXTENDS Omissions, FiniteSetTheorems, WellFoundedInduction, TLAPS

(* Omissions by id.                                                         *)
Oms(oms) == DOMAIN oms \subseteq Ids /\ oms \in [DOMAIN oms -> OmissionRecords]
Covered(o) == CoveredParts(o.category)

-----------------------------------------------------------------------------
(* Records and categories.                                                  *)

LEMMA Least ==
    ASSUME NEW S \in SUBSET Nat, S # {}
    PROVE  Min(S) \in S
<1> DEFINE R == {ss \in Nat \X Nat : ss[1] < ss[2]}
<1>1. IsWellFoundedOn(R, Nat)
    BY NatLessThanWellFounded DEF OpToRel
<1> HIDE DEF R
<1>2. PICK x \in S : \A y \in S : <<y, x>> \notin R
    BY <1>1, WFMin
<1>3. \A y \in S : <<y, x>> \in R <=> y < x
    BY DEF R
<1>4. \A y \in S : ~(y < x) /\ y \in Nat /\ x \in Nat
    BY <1>2, <1>3
<1>5. \A y \in S : x <= y
    BY <1>4
<1> QED
    BY <1>5 DEF Min

LEMMA OmissionIs ==
    ASSUME NEW o \in OmissionRecords
    PROVE  /\ o.category \in Categories /\ o.text \in Texts /\ o.status \in Statuses
           /\ o.recoverable \in BOOLEAN
BY DEF OmissionRecords

LEMMA CategoryIs ==
    ASSUME NEW c \in Categories
    PROVE  /\ c.kind \in Scoped \cup {"group", "appellation"} /\ c.subject \in Persons \cup {NoPerson}
           /\ c.parts \subseteq Parts /\ c.parts \subseteq PartsOf(c.kind)
           /\ CoveredParts(c) \subseteq PartsOf(c.kind)
           /\ c.kind = "support" => CoveredParts(c) \subseteq Districts
<1>1. /\ c.kind \in Scoped \cup {"group", "appellation"} /\ c.subject \in Persons \cup {NoPerson}
      /\ c.parts \subseteq Parts /\ c.parts \subseteq PartsOf(c.kind)
    BY DEF Categories
<1>2. c.kind = "support" => PartsOf(c.kind) = Districts
    BY DEF PartsOf
<1> QED
    BY <1>1, <1>2 DEF CoveredParts

LEMMA WithStatus ==
    ASSUME NEW o \in OmissionRecords, NEW s \in Statuses
    PROVE  LET n == [o EXCEPT !.status = s] IN
           /\ n \in OmissionRecords /\ n.status = s /\ n.category = o.category
           /\ n.text = o.text /\ n.recoverable = o.recoverable
BY DEF OmissionRecords

LEMMA WithCategory ==
    ASSUME NEW o \in OmissionRecords, NEW c \in Categories
    PROVE  LET n == [o EXCEPT !.category = c] IN
           /\ n \in OmissionRecords /\ n.status = o.status /\ n.category = c
           /\ n.text = o.text /\ n.recoverable = o.recoverable
BY DEF OmissionRecords

LEMMA WithParts ==
    ASSUME NEW o \in OmissionRecords, NEW ps, ps \subseteq PartsOf(o.category.kind)
    PROVE  LET n == [o EXCEPT !.category.parts = ps] IN
           /\ n \in OmissionRecords /\ n.status = o.status /\ n.category.parts = ps
           /\ n.category.kind = o.category.kind /\ n.category.subject = o.category.subject
           /\ n.text = o.text /\ n.recoverable = o.recoverable
<1>1. PICK c : c = [o.category EXCEPT !.parts = ps]
    OBVIOUS
<1>2. PartsOf(o.category.kind) \subseteq Parts
    BY DEF PartsOf, Parts
<1>3. /\ c \in Categories /\ c.parts = ps /\ c.kind = o.category.kind
      /\ c.subject = o.category.subject
    BY <1>1, <1>2, OmissionIs DEF Categories
<1>4. [o EXCEPT !.category.parts = ps] = [o EXCEPT !.category = c]
    BY <1>1
<1>5. PICK n : n = [o EXCEPT !.category = c]
    OBVIOUS
<1>6. /\ n \in OmissionRecords /\ n.status = o.status /\ n.category = c
      /\ n.text = o.text /\ n.recoverable = o.recoverable
    BY <1>3, <1>5 DEF OmissionRecords
<1> QED
    BY <1>3, <1>4, <1>5, <1>6

LEMMA DetailsSame ==
    ASSUME NEW o, NEW q
    PROVE  /\ Details(o) = Details(q) <=>
                /\ o.text = q.text /\ o.recoverable = q.recoverable
                /\ o.category.kind = q.category.kind /\ o.category.subject = q.category.subject
           /\ HasSameDetails(o, q) <=> Details(o) = Details(q) /\ o.category.kind \in Scoped
BY DEF Details, HasSameDetails, HasSameScope

LEMMA MergedIs ==
    ASSUME NEW c \in Categories, NEW d \in Categories, c.kind = d.kind
    PROVE  LET n == MergedWith(c, d) IN
           /\ n \in Categories /\ n.kind = c.kind /\ n.subject = c.subject
           /\ CoveredParts(n) = CoveredParts(c) \cup CoveredParts(d)
           /\ c.parts # {} /\ d.parts # {} => n.parts # {}
<1> DEFINE ps == IF c.kind = "support" /\ (c.parts = {} \/ d.parts = {})
                 THEN {} ELSE c.parts \cup d.parts
<1>1. ps \subseteq PartsOf(c.kind) /\ ps \subseteq Parts
    BY CategoryIs
<1>2. MergedWith(c, d) = [c EXCEPT !.parts = ps]
    BY DEF MergedWith
<1>3. PICK n : n = [c EXCEPT !.parts = ps]
    OBVIOUS
<1>4. n \in Categories /\ n.kind = c.kind /\ n.subject = c.subject /\ n.parts = ps
    BY <1>1, <1>3 DEF Categories
<1>5. CoveredParts(n) = CoveredParts(c) \cup CoveredParts(d)
    <2>1. CASE c.kind = "support"
        <3>1. c.parts \subseteq Districts /\ d.parts \subseteq Districts
            BY <2>1, CategoryIs DEF PartsOf
        <3> QED
            BY <1>4, <2>1, <3>1 DEF CoveredParts
    <2>2. CASE c.kind # "support"
        BY <1>4, <2>2 DEF CoveredParts
    <2> QED
        BY <2>1, <2>2
<1> QED
    BY <1>2, <1>3, <1>4, <1>5

-----------------------------------------------------------------------------
(* Putting, removing, splitting and merging.                                *)

(* Either nothing is merged, because nothing else holds the decision, or a  *)
(* holder h takes the parts over.                                           *)
Unmerged(oms, id) == oms[id].status = "Pending" \/ Holders(oms, id) = {}
MergedInto(oms, id, new, h) ==
    /\ h \in Holders(oms, id) /\ oms[id].status # "Pending"
    /\ DOMAIN new = DOMAIN oms \ {id}
    /\ \A i \in DOMAIN new \ {h} : new[i] = oms[i]
    /\ new[h] \in OmissionRecords
    /\ new[h].status = oms[h].status /\ Details(new[h]) = Details(oms[h])
    /\ Covered(new[h]) = Covered(oms[h]) \cup Covered(oms[id])
    /\ oms[h].category.parts # {} /\ oms[id].category.parts # {} => new[h].category.parts # {}

LEMMA HolderIs ==
    ASSUME NEW oms, NEW id, NEW h \in Holders(oms, id)
    PROVE  /\ h \in DOMAIN oms /\ h # id /\ oms[h].status = oms[id].status
           /\ Details(oms[h]) = Details(oms[id]) /\ oms[h].category.kind \in Scoped
BY DetailsSame DEF Holders

LEMMA MergeIs ==
    ASSUME NEW oms, Oms(oms), NEW id \in DOMAIN oms
    PROVE  \/ Unmerged(oms, id) /\ MergeOmission(oms, id) = oms
           \/ \E h \in DOMAIN oms : /\ MergedInto(oms, id, MergeOmission(oms, id), h)
                                    /\ Oms(MergeOmission(oms, id))
<1>1. CASE Unmerged(oms, id)
    BY <1>1 DEF Unmerged, MergeOmission
<1>2. CASE ~Unmerged(oms, id)
    <2> DEFINE h == Min(Holders(oms, id))
               merged == MergedWith(oms[h].category, oms[id].category)
               o == [oms[h] EXCEPT !.category = merged]
               new == Remove(Put(oms, h, o), id)
    <2>1. MergeOmission(oms, id) = new
        BY <1>2 DEF Unmerged, MergeOmission
    <2>2. Holders(oms, id) \subseteq Nat
        BY BoundsAssumption DEF Holders, Oms, Ids
    <2>3. h \in Holders(oms, id)
        BY <1>2, <2>2, Least DEF Unmerged
    <2> HIDE DEF h
    <2>4. /\ h \in DOMAIN oms /\ h # id /\ oms[h].status = oms[id].status
          /\ Details(oms[h]) = Details(oms[id]) /\ oms[h].category.kind = oms[id].category.kind
        BY <2>3, HolderIs, DetailsSame
    <2>5. oms[h] \in OmissionRecords /\ oms[id] \in OmissionRecords
        BY <2>4 DEF Oms
    <2>6. oms[h].category \in Categories /\ oms[id].category \in Categories
        BY <2>5, OmissionIs
    <2>7. /\ merged \in Categories /\ merged.kind = oms[h].category.kind
          /\ merged.subject = oms[h].category.subject
          /\ CoveredParts(merged) = Covered(oms[h]) \cup Covered(oms[id])
          /\ oms[h].category.parts # {} /\ oms[id].category.parts # {} => merged.parts # {}
        BY <2>4, <2>6, MergedIs DEF Covered
    <2> HIDE DEF merged
    <2>8. /\ o \in OmissionRecords /\ o.status = oms[h].status /\ o.category = merged
          /\ o.text = oms[h].text /\ o.recoverable = oms[h].recoverable
        BY <2>5, <2>7, WithCategory
    <2> HIDE DEF o
    <2>9. Details(o) = Details(oms[h])
        BY <2>7, <2>8, DetailsSame
    <2>10. /\ DOMAIN new = DOMAIN oms \ {id} /\ new[h] = o
           /\ \A i \in DOMAIN new \ {h} : new[i] = oms[i]
        <3>1. PICK mid : mid = Put(oms, h, o)
            OBVIOUS
        <3>2. /\ DOMAIN mid = DOMAIN oms \cup {h} /\ mid[h] = o
              /\ \A i \in DOMAIN oms \ {h} : mid[i] = oms[i]
            BY <3>1 DEF Put
        <3>3. new = Remove(mid, id)
            BY <3>1
        <3> HIDE DEF new
        <3>4. DOMAIN new = DOMAIN mid \ {id} /\ \A i \in DOMAIN mid \ {id} : new[i] = mid[i]
            BY <3>3 DEF Remove
        <3> QED
            BY <2>4, <3>2, <3>4
    <2>11. MergedInto(oms, id, new, h)
        BY <1>2, <2>3, <2>7, <2>8, <2>9, <2>10 DEF MergedInto, Unmerged, Covered
    <2>12. Oms(new)
        <3>1. new = [i \in DOMAIN new |-> new[i]]
            BY DEF Remove
        <3> HIDE DEF new
        <3>2. \A i \in DOMAIN new : new[i] \in OmissionRecords
            BY <2>8, <2>10 DEF Oms
        <3>3. DOMAIN new \subseteq Ids
            BY <2>10 DEF Oms
        <3> QED
            BY <3>1, <3>2, <3>3 DEF Oms
    <2> QED
        BY <2>1, <2>4, <2>11, <2>12
<1> QED
    BY <1>1, <1>2

(* A decision is recorded: o is the omission with it.                       *)
LEMMA SetStatusIs ==
    ASSUME NEW oms, Oms(oms), NEW id \in DOMAIN oms, NEW s \in Statuses
    PROVE  LET o == [oms[id] EXCEPT !.status = s]
               mid == Put(oms, id, o)
               new == SetOmissionStatus(oms, id, s) IN
           /\ Oms(mid) /\ DOMAIN mid = DOMAIN oms
           /\ mid[id].status = s /\ Details(mid[id]) = Details(oms[id])
           /\ mid[id].category = oms[id].category
           /\ \A i \in DOMAIN oms \ {id} : mid[i] = oms[i]
           /\ \/ Unmerged(mid, id) /\ new = mid
              \/ \E h \in DOMAIN mid : MergedInto(mid, id, new, h)
           /\ Oms(new)
<1>1. oms[id] \in OmissionRecords /\ id \in Ids
    BY DEF Oms
<1>2. PICK o : o = [oms[id] EXCEPT !.status = s]
    OBVIOUS
<1>3. /\ o \in OmissionRecords /\ o.status = s /\ o.category = oms[id].category
      /\ o.text = oms[id].text /\ o.recoverable = oms[id].recoverable
    BY <1>1, <1>2, WithStatus
<1>4. Details(o) = Details(oms[id])
    BY <1>3, DetailsSame
<1>5. PICK mid : mid = Put(oms, id, o)
    OBVIOUS
<1>6. Oms(mid)
    BY <1>1, <1>3, <1>5 DEF Put, Oms
<1>7. /\ DOMAIN mid = DOMAIN oms /\ mid[id] = o
      /\ \A i \in DOMAIN oms \ {id} : mid[i] = oms[i]
    <2>1. /\ DOMAIN mid = DOMAIN oms \cup {id} /\ mid[id] = o
          /\ \A i \in DOMAIN oms \ {id} : mid[i] = oms[i]
        BY <1>5 DEF Put
    <2> QED
        BY <2>1
<1>8. SetOmissionStatus(oms, id, s) = MergeOmission(mid, id)
    BY <1>2, <1>5 DEF SetOmissionStatus
<1>9. \/ Unmerged(mid, id) /\ MergeOmission(mid, id) = mid
      \/ \E h \in DOMAIN mid : /\ MergedInto(mid, id, MergeOmission(mid, id), h)
                               /\ Oms(MergeOmission(mid, id))
    BY <1>6, <1>7, MergeIs
<1> QED
    BY <1>2, <1>3, <1>4, <1>5, <1>6, <1>7, <1>8, <1>9

(* A part is split off.                                                     *)
SplitFrom(oms, id, part, split, new) ==
    /\ Oms(new) /\ DOMAIN new = DOMAIN oms \cup {split}
    /\ \A i \in DOMAIN oms \ {id} : new[i] = oms[i]
    /\ new[id].status = oms[id].status /\ new[split].status = oms[id].status
    /\ Details(new[id]) = Details(oms[id]) /\ Details(new[split]) = Details(oms[id])
    /\ new[split].category.parts = {part}
    /\ new[id].category.parts = oms[id].category.parts \ {part} /\ new[id].category.parts # {}
    /\ Covered(new[split]) = {part} /\ Covered(new[id]) = Covered(oms[id]) \ {part}
    /\ Covered(oms[id]) = oms[id].category.parts

LEMMA SplitIs ==
    ASSUME NEW oms, Oms(oms), NEW id \in DOMAIN oms, NEW part \in oms[id].category.parts,
           NEW split \in Ids, split \notin DOMAIN oms, oms[id].category.parts # {part}
    PROVE  SplitFrom(oms, id, part, split, SplitOff(oms, id, part, split))
<1> DEFINE rest == oms[id].category.parts \ {part}
<1>1. oms[id] \in OmissionRecords /\ id \in Ids /\ oms[id].category \in Categories
    BY OmissionIs DEF Oms
<1>2. /\ {part} \subseteq PartsOf(oms[id].category.kind)
      /\ rest \subseteq PartsOf(oms[id].category.kind) /\ rest # {}
    BY <1>1, CategoryIs
<1>3. PICK a : a = [oms[id] EXCEPT !.category.parts = {part}]
    OBVIOUS
<1>4. PICK b : b = [oms[id] EXCEPT !.category.parts = rest]
    OBVIOUS
<1>5. SplitOff(oms, id, part, split) = Put(Put(oms, split, a), id, b)
    BY <1>3, <1>4 DEF SplitOff
<1> HIDE DEF rest
<1>6. /\ a \in OmissionRecords /\ a.status = oms[id].status /\ a.category.parts = {part}
      /\ a.category.kind = oms[id].category.kind /\ a.category.subject = oms[id].category.subject
      /\ a.text = oms[id].text /\ a.recoverable = oms[id].recoverable
    BY <1>1, <1>2, <1>3, WithParts, ZenonT(40)
<1>7. /\ b \in OmissionRecords /\ b.status = oms[id].status /\ b.category.parts = rest
      /\ b.category.kind = oms[id].category.kind /\ b.category.subject = oms[id].category.subject
      /\ b.text = oms[id].text /\ b.recoverable = oms[id].recoverable
    BY <1>1, <1>2, <1>4, WithParts
<1>8. Details(a) = Details(oms[id]) /\ Details(b) = Details(oms[id])
    BY <1>6, <1>7, DetailsSame
<1>9. /\ Covered(a) = {part} /\ Covered(b) = rest /\ Covered(oms[id]) = oms[id].category.parts
    BY <1>2, <1>6, <1>7 DEF Covered, CoveredParts
<1>10. PICK mid : mid = Put(oms, split, a)
    OBVIOUS
<1>11. /\ DOMAIN mid = DOMAIN oms \cup {split} /\ mid[split] = a /\ Oms(mid)
       /\ \A i \in DOMAIN oms \ {split} : mid[i] = oms[i]
    BY <1>6, <1>10 DEF Put, Oms
<1>12. PICK new : new = Put(mid, id, b)
    OBVIOUS
<1>13. /\ DOMAIN new = DOMAIN mid \cup {id} /\ new[id] = b /\ Oms(new)
       /\ \A i \in DOMAIN mid \ {id} : new[i] = mid[i]
    BY <1>1, <1>7, <1>11, <1>12 DEF Put, Oms
<1>14. /\ DOMAIN new = DOMAIN oms \cup {split} /\ new[split] = a
       /\ \A i \in DOMAIN oms \ {id} : new[i] = oms[i]
    BY <1>11, <1>13
<1>15. new = SplitOff(oms, id, part, split)
    BY <1>5, <1>10, <1>12
<1> QED
    BY <1>2, <1>6, <1>7, <1>8, <1>9, <1>13, <1>14, <1>15 DEF rest, SplitFrom

-----------------------------------------------------------------------------
(* What readers are told: which parts are reported, and with what decision. *)

Reports(oms, d, p) == \E i \in DOMAIN oms : Details(oms[i]) = d /\ p \in Covered(oms[i])
Says(oms, d, p, s) ==
    \E i \in DOMAIN oms : Details(oms[i]) = d /\ p \in Covered(oms[i]) /\ oms[i].status = s
(* The same is reported, and only what is said on parts ps of details e may *)
(* differ.                                                                  *)
Carried(old, new, e, ps) ==
    /\ \A d, p : Reports(new, d, p) <=> Reports(old, d, p)
    /\ \A d, p, s : (d = e /\ p \in ps) \/ (Says(new, d, p, s) <=> Says(old, d, p, s))

LEMMA CarriedSame == ASSUME NEW a, NEW e, NEW ps PROVE Carried(a, a, e, ps)
BY DEF Carried

LEMMA MergeCarries ==
    ASSUME NEW oms, NEW id \in DOMAIN oms, NEW new, NEW h, MergedInto(oms, id, new, h), NEW e
    PROVE  Carried(oms, new, e, {})
<1>1. /\ h \in DOMAIN oms /\ h # id /\ oms[h].status = oms[id].status
      /\ Details(oms[h]) = Details(oms[id])
    BY HolderIs DEF MergedInto
<1>2. /\ DOMAIN new = DOMAIN oms \ {id}
      /\ \A i \in DOMAIN new \ {h} : new[i] = oms[i]
      /\ new[h].status = oms[h].status /\ Details(new[h]) = Details(oms[h])
      /\ Covered(new[h]) = Covered(oms[h]) \cup Covered(oms[id])
    BY DEF MergedInto
<1>3. ASSUME NEW d, NEW p, NEW s
      PROVE  (Reports(new, d, p) <=> Reports(oms, d, p)) /\ (Says(new, d, p, s) <=> Says(oms, d, p, s))
    BY <1>1, <1>2 DEF Reports, Says
<1> QED
    BY <1>3 DEF Carried

LEMMA SetStatusCarries ==
    ASSUME NEW oms, Oms(oms), NEW id \in DOMAIN oms, NEW s \in Statuses
    PROVE  Carried(oms, SetOmissionStatus(oms, id, s), Details(oms[id]), Covered(oms[id]))
<1>1. PICK mid : mid = Put(oms, id, [oms[id] EXCEPT !.status = s])
    OBVIOUS
<1>2. PICK new : new = SetOmissionStatus(oms, id, s)
    OBVIOUS
<1>3. /\ DOMAIN mid = DOMAIN oms
      /\ Details(mid[id]) = Details(oms[id]) /\ mid[id].category = oms[id].category
      /\ \A i \in DOMAIN oms \ {id} : mid[i] = oms[i]
    BY <1>1, SetStatusIs
<1>4. new = mid \/ \E h \in DOMAIN mid : MergedInto(mid, id, new, h)
    BY <1>1, <1>2, SetStatusIs
<1>5. PICK e, ps : e = Details(oms[id]) /\ ps = Covered(oms[id])
    OBVIOUS
<1>6. Carried(oms, mid, e, ps)
    <2>1. Covered(mid[id]) = ps /\ Details(mid[id]) = e
        BY <1>3, <1>5 DEF Covered
    <2>2. ASSUME NEW d, NEW p
          PROVE  Reports(mid, d, p) <=> Reports(oms, d, p)
        BY <1>3, <1>5, <2>1 DEF Reports
    <2>3. ASSUME NEW d, NEW p, NEW t, ~(d = e /\ p \in ps)
          PROVE  Says(mid, d, p, t) <=> Says(oms, d, p, t)
        BY <1>3, <1>5, <2>1, <2>3 DEF Says
    <2> QED
        BY <2>2, <2>3 DEF Carried
<1>7. Carried(oms, new, e, ps)
    <2>1. CASE new = mid
        BY <1>6, <2>1
    <2>2. CASE \E h \in DOMAIN mid : MergedInto(mid, id, new, h)
        <3>1. Carried(mid, new, e, {})
            BY <1>3, <2>2, MergeCarries
        <3> QED
            BY <1>6, <3>1 DEF Carried
    <2> QED
        BY <1>4, <2>1, <2>2
<1> QED
    BY <1>2, <1>5, <1>7

LEMMA SplitCarries ==
    ASSUME NEW oms, NEW id \in DOMAIN oms, NEW part \in oms[id].category.parts,
           NEW split, split \notin DOMAIN oms, NEW new, SplitFrom(oms, id, part, split, new), NEW e
    PROVE  Carried(oms, new, e, {})
<1>2. /\ DOMAIN new = DOMAIN oms \cup {split}
      /\ \A i \in DOMAIN oms \ {id} : new[i] = oms[i]
      /\ new[id].status = oms[id].status /\ new[split].status = oms[id].status
      /\ Details(new[id]) = Details(oms[id]) /\ Details(new[split]) = Details(oms[id])
      /\ Covered(new[split]) = {part} /\ Covered(new[id]) = Covered(oms[id]) \ {part}
      /\ Covered(oms[id]) = oms[id].category.parts
    BY DEF SplitFrom
<1>3. ASSUME NEW d, NEW p
      PROVE  Reports(new, d, p) <=> Reports(oms, d, p)
    <2>1. Reports(new, d, p) => Reports(oms, d, p)
        BY <1>2 DEF Reports
    <2>2. ASSUME NEW i \in DOMAIN oms, Details(oms[i]) = d, p \in Covered(oms[i])
          PROVE  Reports(new, d, p)
        <3>1. CASE i # id
            BY <1>2, <2>2, <3>1 DEF Reports
        <3>2. CASE i = id
            BY <1>2, <2>2, <3>2 DEF Reports
        <3> QED
            BY <3>1, <3>2
    <2> QED
        BY <2>1, <2>2 DEF Reports
<1>4. ASSUME NEW d, NEW p, NEW s
      PROVE  Says(new, d, p, s) <=> Says(oms, d, p, s)
    BY <1>2 DEF Says
<1> QED
    BY <1>3, <1>4 DEF Carried

-----------------------------------------------------------------------------
(* What recording a decision does.                                          *)

AlikeBut(oms, S) ==
    \A i, j \in DOMAIN oms \ S :
        /\ oms[i].status # "Pending" /\ oms[i].status = oms[j].status
        /\ Details(oms[i]) = Details(oms[j]) /\ oms[i].category.kind \in Scoped
        => i = j
Spelled(category) == ~(category.kind = "support" /\ category.parts = {})
AllSpelled(oms) == \A i \in DOMAIN oms : Spelled(oms[i].category)
DetailsKept(old, new) == \A i \in DOMAIN old \cap DOMAIN new : Details(new[i]) = Details(old[i])
(* Some omission that stands for one with details e, which had this id,     *)
(* holds the decision s on parts ps.                                        *)
HeldFor(oms, id, e, ps, s) ==
    \E i \in DOMAIN oms : /\ Details(oms[i]) = e /\ oms[i].status = s
                          /\ i = id \/ oms[i].category.kind \in Scoped
                          /\ ps \subseteq Covered(oms[i])

LEMMA KindOfDetails ==
    ASSUME NEW o, NEW q, Details(o) = Details(q)
    PROVE  o.category.kind = q.category.kind /\ o.recoverable = q.recoverable
BY DetailsSame

LEMMA ScopedHasParts ==
    ASSUME NEW o \in OmissionRecords, o.category.parts # {}
    PROVE  o.category.kind \in Scoped
BY OmissionIs, CategoryIs DEF PartsOf, Scoped

LEMMA SetStatusKeeps ==
    ASSUME NEW oms, Oms(oms), NEW id \in DOMAIN oms, NEW s \in Statuses,
           NEW new, new = SetOmissionStatus(oms, id, s)
    PROVE  /\ Oms(new) /\ DOMAIN new \subseteq DOMAIN oms /\ DetailsKept(oms, new)
           /\ HeldFor(new, id, Details(oms[id]), Covered(oms[id]), s)
           /\ AllSpelled(oms) => AllSpelled(new)
           /\ AlikeBut(oms, {id}) => AlikeBut(new, {})
<1>1. PICK mid : mid = Put(oms, id, [oms[id] EXCEPT !.status = s])
    OBVIOUS
<1>2. /\ Oms(mid) /\ DOMAIN mid = DOMAIN oms /\ mid[id].status = s
      /\ Details(mid[id]) = Details(oms[id]) /\ mid[id].category = oms[id].category
      /\ \A i \in DOMAIN oms \ {id} : mid[i] = oms[i]
    BY <1>1, SetStatusIs
<1>3. /\ \/ Unmerged(mid, id) /\ new = mid
         \/ \E h \in DOMAIN mid : MergedInto(mid, id, new, h)
      /\ Oms(new)
    BY <1>1, SetStatusIs
<1>4. Covered(mid[id]) = Covered(oms[id]) /\ DetailsKept(oms, mid)
    BY <1>2 DEF Covered, DetailsKept
<1>5. AllSpelled(oms) => AllSpelled(mid)
    BY <1>2 DEF AllSpelled
<1>6. AlikeBut(oms, {id}) => AlikeBut(mid, {id})
    BY <1>2 DEF AlikeBut
<1>7. CASE Unmerged(mid, id) /\ new = mid
    <2>1. HeldFor(new, id, Details(oms[id]), Covered(oms[id]), s)
        BY <1>2, <1>4, <1>7 DEF HeldFor
    <2>2. ASSUME AlikeBut(mid, {id}) PROVE AlikeBut(mid, {})
        <3> SUFFICES ASSUME NEW i \in DOMAIN mid, NEW j \in DOMAIN mid,
                            mid[i].status # "Pending", mid[i].status = mid[j].status,
                            Details(mid[i]) = Details(mid[j]), mid[i].category.kind \in Scoped,
                            i # j
                     PROVE  FALSE
            BY DEF AlikeBut
        <3>1. mid[j].category.kind \in Scoped
            BY KindOfDetails
        <3>2. CASE i # id /\ j # id
            BY <2>2, <3>2 DEF AlikeBut
        <3>3. CASE i = id
            <4>1. j \in Holders(mid, id)
                BY <3>1, <3>3, DetailsSame DEF Holders
            <4> QED
                BY <1>7, <3>3, <4>1 DEF Unmerged
        <3>4. CASE j = id
            <4>1. i \in Holders(mid, id)
                BY <3>4, DetailsSame DEF Holders
            <4> QED
                BY <1>7, <3>4, <4>1 DEF Unmerged
        <3> QED
            BY <3>2, <3>3, <3>4
    <2> QED
        BY <1>2, <1>3, <1>4, <1>5, <1>6, <1>7, <2>1, <2>2
<1>8. CASE \E h \in DOMAIN mid : MergedInto(mid, id, new, h)
    <2>1. PICK h \in DOMAIN mid : MergedInto(mid, id, new, h)
        BY <1>8
    <2>2. /\ h \in Holders(mid, id) /\ DOMAIN new = DOMAIN mid \ {id}
          /\ \A i \in DOMAIN new \ {h} : new[i] = mid[i]
          /\ new[h].status = mid[h].status /\ Details(new[h]) = Details(mid[h])
          /\ Covered(new[h]) = Covered(mid[h]) \cup Covered(mid[id])
          /\ mid[h].category.parts # {} /\ mid[id].category.parts # {} => new[h].category.parts # {}
        BY <2>1 DEF MergedInto
    <2>3. /\ h \in DOMAIN mid /\ h # id /\ mid[h].status = mid[id].status
          /\ Details(mid[h]) = Details(mid[id]) /\ mid[h].category.kind \in Scoped
        BY <2>2, HolderIs
    <2>4. /\ new[h].category.kind = mid[h].category.kind /\ mid[id].category.kind = mid[h].category.kind
          /\ h \in DOMAIN new
        BY <2>2, <2>3, KindOfDetails
    <2>5. HeldFor(new, id, Details(oms[id]), Covered(oms[id]), s)
        BY <1>2, <1>4, <2>2, <2>3, <2>4 DEF HeldFor
    <2>6. DetailsKept(oms, new)
        BY <1>2, <1>4, <2>2, <2>3 DEF DetailsKept
    <2>7. AllSpelled(mid) => AllSpelled(new)
        <3>1. ASSUME AllSpelled(mid), NEW i \in DOMAIN new PROVE Spelled(new[i].category)
            <4>1. CASE i # h
                BY <2>2, <3>1, <4>1 DEF AllSpelled
            <4>2. CASE i = h
                <5>1. Spelled(mid[h].category) /\ Spelled(mid[id].category)
                    BY <1>2, <2>3, <3>1 DEF AllSpelled
                <5>2. CASE mid[h].category.kind = "support"
                    <6>1. mid[h].category.parts # {} /\ mid[id].category.parts # {}
                        BY <2>4, <5>1, <5>2 DEF Spelled
                    <6>2. new[h].category.parts # {}
                        BY <2>2, <6>1
                    <6> QED
                        BY <4>2, <6>2 DEF Spelled
                <5>3. CASE mid[h].category.kind # "support"
                    BY <2>4, <4>2, <5>3 DEF Spelled
                <5> QED
                    BY <5>2, <5>3
            <4> QED
                BY <4>1, <4>2
        <3> QED
            BY <3>1 DEF AllSpelled
    <2>8. ASSUME AlikeBut(mid, {id}) PROVE AlikeBut(new, {})
        <3>1. \A i \in DOMAIN new : /\ i \in DOMAIN mid \ {id} /\ new[i].status = mid[i].status
                                    /\ Details(new[i]) = Details(mid[i])
                                    /\ new[i].category.kind = mid[i].category.kind
            BY <2>2, <2>3, <2>4
        <3> QED
            BY <2>8, <3>1 DEF AlikeBut
    <2> QED
        BY <1>2, <1>3, <1>5, <1>6, <2>2, <2>5, <2>6, <2>7, <2>8
<1> QED
    BY <1>3, <1>7, <1>8

(* A decision on a part: on all of the omission, or on a copy split off.    *)
PartRecorded(oms, id, part, s, split, new) ==
    \E base, at : /\ new = SetOmissionStatus(base, at, s)
                  /\ \/ base = oms /\ at = id /\ oms[id].category.parts = {part}
                     \/ SplitFrom(oms, id, part, split, base) /\ at = split

LEMMA PartIs ==
    ASSUME NEW oms, Oms(oms), NEW id, NEW part, NEW s, NEW split \in Ids, split \notin DOMAIN oms,
           NEW new, new = SetOmissionPartStatus(oms, id, part, s, split)
    PROVE  \/ ~(id \in DOMAIN oms /\ part \in oms[id].category.parts) /\ new = oms
           \/ /\ id \in DOMAIN oms /\ part \in oms[id].category.parts
              /\ PartRecorded(oms, id, part, s, split, new)
<1>1. CASE ~(id \in DOMAIN oms /\ part \in oms[id].category.parts)
    BY <1>1 DEF SetOmissionPartStatus, Decides
<1>2. CASE /\ id \in DOMAIN oms /\ part \in oms[id].category.parts
           /\ oms[id].category.parts = {part}
    <2>1. new = SetOmissionStatus(oms, id, s)
        BY <1>2 DEF SetOmissionPartStatus, Decides, DecidesWhole
    <2> QED
        BY <1>2, <2>1 DEF PartRecorded
<1>3. CASE /\ id \in DOMAIN oms /\ part \in oms[id].category.parts
           /\ oms[id].category.parts # {part}
    <2>1. new = SetOmissionStatus(SplitOff(oms, id, part, split), split, s)
        BY <1>3 DEF SetOmissionPartStatus, Decides, DecidesWhole
    <2>2. SplitFrom(oms, id, part, split, SplitOff(oms, id, part, split))
        BY <1>3, SplitIs
    <2> QED
        BY <1>3, <2>1, <2>2 DEF PartRecorded
<1> QED
    BY <1>1, <1>2, <1>3

PartKept(oms, id, part, s, split, new) ==
    /\ Oms(new) /\ DOMAIN new \subseteq DOMAIN oms \cup {split} /\ DetailsKept(oms, new)
    /\ HeldFor(new, id, Details(oms[id]), {part}, s)
    /\ AllSpelled(oms) => AllSpelled(new)
    /\ AlikeBut(oms, {}) => AlikeBut(new, {})
    /\ Carried(oms, new, Details(oms[id]), {part})

LEMMA PartKeeps ==
    ASSUME NEW oms, Oms(oms), NEW id \in DOMAIN oms, NEW part \in oms[id].category.parts,
           NEW s \in Statuses, NEW split \in Ids, split \notin DOMAIN oms,
           NEW new, PartRecorded(oms, id, part, s, split, new)
    PROVE  PartKept(oms, id, part, s, split, new)
<1>1. PICK base, at : /\ new = SetOmissionStatus(base, at, s)
                      /\ \/ base = oms /\ at = id /\ oms[id].category.parts = {part}
                         \/ SplitFrom(oms, id, part, split, base) /\ at = split
    BY DEF PartRecorded
<1>2. CASE base = oms /\ at = id /\ oms[id].category.parts = {part}
    <2>1. Covered(oms[id]) = {part}
        BY <1>2 DEF Covered, CoveredParts
    <2>2. AlikeBut(oms, {}) => AlikeBut(oms, {id})
        BY DEF AlikeBut
    <2>3. Carried(oms, new, Details(oms[id]), {part})
        BY <1>1, <1>2, <2>1, SetStatusCarries
    <2>4. new = SetOmissionStatus(oms, id, s)
        BY <1>1, <1>2
    <2>5. /\ Oms(new) /\ DOMAIN new \subseteq DOMAIN oms /\ DetailsKept(oms, new)
          /\ HeldFor(new, id, Details(oms[id]), Covered(oms[id]), s)
          /\ AllSpelled(oms) => AllSpelled(new)
          /\ AlikeBut(oms, {id}) => AlikeBut(new, {})
        BY <2>4, SetStatusKeeps
    <2> QED
        BY <2>1, <2>2, <2>3, <2>5 DEF PartKept
<1>3. CASE SplitFrom(oms, id, part, split, base) /\ at = split
    <2>1. /\ Oms(base) /\ DOMAIN base = DOMAIN oms \cup {split}
          /\ \A i \in DOMAIN oms \ {id} : base[i] = oms[i]
          /\ base[id].status = oms[id].status /\ base[split].status = oms[id].status
          /\ Details(base[id]) = Details(oms[id]) /\ Details(base[split]) = Details(oms[id])
          /\ base[split].category.parts = {part}
          /\ base[id].category.parts = oms[id].category.parts \ {part} /\ base[id].category.parts # {}
          /\ Covered(base[split]) = {part} /\ Covered(base[id]) = Covered(oms[id]) \ {part}
          /\ Covered(oms[id]) = oms[id].category.parts
        BY <1>3 DEF SplitFrom
    <2>2. split \in DOMAIN base /\ new = SetOmissionStatus(base, split, s)
        BY <1>1, <1>3, <2>1
    <2>3. /\ Oms(new) /\ DOMAIN new \subseteq DOMAIN base /\ DetailsKept(base, new)
          /\ HeldFor(new, split, Details(base[split]), Covered(base[split]), s)
          /\ AllSpelled(base) => AllSpelled(new)
          /\ AlikeBut(base, {split}) => AlikeBut(new, {})
        BY <2>1, <2>2, SetStatusKeeps
    <2>4. DetailsKept(oms, new)
        BY <2>1, <2>3 DEF DetailsKept
    <2>5. /\ oms[id].category.kind \in Scoped /\ base[id].category.kind = oms[id].category.kind
          /\ base[split].category.kind = oms[id].category.kind
        BY <2>1, ScopedHasParts, KindOfDetails DEF Oms
    <2>6. HeldFor(new, id, Details(oms[id]), {part}, s)
        <3>1. PICK i \in DOMAIN new : /\ Details(new[i]) = Details(oms[id]) /\ new[i].status = s
                                      /\ {part} \subseteq Covered(new[i])
            BY <2>1, <2>3 DEF HeldFor
        <3>2. new[i].category.kind \in Scoped
            BY <2>5, <3>1, KindOfDetails
        <3> QED
            BY <3>1, <3>2 DEF HeldFor
    <2>7. AllSpelled(oms) => AllSpelled(base)
        BY <2>1 DEF AllSpelled, Spelled
    <2>8. ASSUME AlikeBut(oms, {}) PROVE AlikeBut(base, {split})
        <3>1. \A i \in DOMAIN base \ {split} :
                /\ i \in DOMAIN oms /\ base[i].status = oms[i].status
                /\ Details(base[i]) = Details(oms[i])
                /\ base[i].category.kind = oms[i].category.kind
            BY <2>1, <2>5
        <3> QED
            BY <2>8, <3>1 DEF AlikeBut
    <2>9. Carried(oms, new, Details(oms[id]), {part})
        <3>1. PICK e : e = Details(oms[id])
            OBVIOUS
        <3>2. Carried(oms, base, e, {})
            BY <1>3, SplitCarries
        <3>3. Carried(base, new, e, {part})
            BY <2>1, <2>2, <3>1, SetStatusCarries
        <3>4. Carried(oms, new, e, {part})
            BY <3>2, <3>3 DEF Carried
        <3> QED
            BY <3>1, <3>4
    <2> QED
        BY <2>1, <2>3, <2>4, <2>6, <2>7, <2>8, <2>9 DEF PartKept
<1> QED
    BY <1>1, <1>2, <1>3

-----------------------------------------------------------------------------
(* The invariant.                                                           *)

PaperOk(data) ==
    /\ data.blank \in BOOLEAN
    /\ DOMAIN data.lists \subseteq Lists
    /\ data.lists \in [DOMAIN data.lists -> SUBSET Districts]

(* A request knows an omission that was there, and the omission under that  *)
(* id still has the details it read.  Undisturbed, the omission is what it  *)
(* read, then what it spelled out, then held by the omission answered with. *)
DecidedParts(x) == {x.part} \ {NoPart}
ReqOk(x, oms, iss) ==
    x.pc # "idle" =>
        /\ x.id \in iss /\ x.copy \in OmissionRecords
        /\ x.part \in Controls(x.copy.category)
        /\ x.id \in DOMAIN oms => Details(oms[x.id]) = Details(x.copy)
        /\ x.pc = "spelled" => MayAssess(x) /\ NeedsSpelling(x)
        /\ x.clean => /\ x.pc = "open" => x.id \in DOMAIN oms /\ oms[x.id] = x.copy
                      /\ x.pc = "spelled" => /\ x.id \in DOMAIN oms
                                             /\ oms[x.id].category.parts = Districts
                      /\ x.pc = "recorded" => HeldFor(oms, x.id, Details(x.copy), DecidedParts(x), x.status)

(* No declaration of support without its districts.                         *)
SpelledScene(s) ==
    (\A i \in DOMAIN s.existing : Spelled(s.existing[i].category)) /\ (\A c \in s.reports : Spelled(c))
(* Either one member works at a time, or no declaration of support has to   *)
(* be spelled out first: set_part_status writes the copy it read back when  *)
(* it spells the districts out, and that copy must not be old.              *)
NoRace == \A s \in Scenes : s.members <= 1 \/ SpelledScene(s)

SpelledOk ==
    SpelledScene(scene) => /\ AllSpelled(omissions)
                           /\ \A r \in Requests : req[r].pc # "idle" => Spelled(req[r].copy.category)
SoloOk ==
    scene.members <= 1 => \A r \in Requests : req[r].pc # "idle" =>
                              req[r].clean /\ \A q \in Requests : req[q].pc # "idle" => q = r
OmissionsInv ==
    /\ TypeOK
    /\ scrapped = Derive(paper, omissions)
    /\ \A r \in Requests : ReqOk(req[r], omissions, issued)
    /\ SpelledOk
    /\ SoloOk
    /\ NoRace => AlikeBut(omissions, {})

LEMMA NoRequestIs == NoRequest \in ReqRecords /\ NoRequest.pc = "idle"
BY DEF NoRequest, ReqRecords, PCs, Statuses

LEMMA TypeIs ==
    ASSUME OmissionsInv
    PROVE  /\ Oms(omissions) /\ DOMAIN omissions \subseteq issued /\ issued \subseteq Ids
           /\ PaperOk(paper) /\ scene \in Scenes /\ events \in 0 .. scene.events
           /\ \A r \in Requests : req[r] \in ReqRecords
BY DEF OmissionsInv, TypeOK, Oms, PaperOk

(* Only one request at a time where one member works at a time.             *)
Turn(r) == r \in Busy \/ Cardinality(Busy) < scene.members
LEMMA OthersIdle ==
    ASSUME OmissionsInv, NEW r \in Requests, Turn(r), scene.members <= 1, NEW q \in Requests, q # r
    PROVE  req[q].pc = "idle"
<1>1. CASE r \in Busy
    BY <1>1 DEF OmissionsInv, SoloOk, Busy
<1>2. CASE Cardinality(Busy) < scene.members
    <2>1. IsFiniteSet(Busy)
        BY BoundsAssumption, FS_Subset DEF Busy
    <2>2. scene.members \in Nat
        BY TypeIs, ScenesAssumption
    <2>3. Cardinality(Busy) \in Nat
        BY <2>1, FS_CardinalityType
    <2>4. Cardinality(Busy) = 0
        BY <1>2, <2>2, <2>3
    <2>5. Busy = {}
        BY <2>1, <2>4, FS_EmptySet
    <2> QED
        BY <2>5 DEF Busy
<1> QED
    BY <1>1, <1>2 DEF Turn

(* A request that another event overtook.                                   *)
LEMMA OvertakenOk ==
    ASSUME NEW x \in ReqRecords, NEW n, n = [x EXCEPT !.clean = @ /\ x.pc = "idle"],
           NEW old, NEW oms, NEW iss, NEW iss2, ReqOk(x, old, iss),
           iss \subseteq iss2, DOMAIN oms \cap iss \subseteq DOMAIN old, DetailsKept(old, oms)
    PROVE  n \in ReqRecords /\ n.pc = x.pc /\ n.copy = x.copy /\ ReqOk(n, oms, iss2)
<1>1. /\ n \in ReqRecords /\ n.pc = x.pc /\ n.op = x.op /\ n.id = x.id /\ n.copy = x.copy
      /\ n.part = x.part /\ n.status = x.status
      /\ n.pc # "idle" => n.clean = FALSE
    BY DEF ReqRecords
<1>2. MayAssess(n) = MayAssess(x) /\ NeedsSpelling(n) = NeedsSpelling(x)
    BY <1>1 DEF MayAssess, NeedsSpelling
<1>3. x.pc # "idle" /\ x.id \in DOMAIN oms => Details(oms[x.id]) = Details(x.copy)
    BY DEF ReqOk, DetailsKept
<1> QED
    BY <1>1, <1>2, <1>3 DEF ReqOk

(* The clean request of the only member stays clean.                        *)
StaysClean(x, n) == n.pc # "idle" => n.clean \/ (x.pc # "idle" /\ (x.clean => n.clean))

LEMMA StepKeeps ==
    ASSUME OmissionsInv, NEW r \in Requests, Turn(r), NEW x \in ReqRecords, Step(r, x),
           ReqOk(x, omissions, issued), StaysClean(req[r], x),
           x.pc # "idle" => x.copy = omissions[x.id] /\ x.id \in DOMAIN omissions
    PROVE  OmissionsInv'
<1>1. UNCHANGED <<omissions, paper, scrapped, issued, events, scene>> /\ req' = [req EXCEPT ![r] = x]
    BY DEF Step
<1>2. DOMAIN req = Requests /\ req \in [Requests -> ReqRecords]
    BY DEF OmissionsInv, TypeOK
<1>3. req'[r] = x /\ (\A q \in Requests \ {r} : req'[q] = req[q]) /\ req' \in [Requests -> ReqRecords]
    BY <1>1, <1>2
<1>4. TypeOK'
    BY <1>1, <1>3 DEF OmissionsInv, TypeOK
<1>5. \A q \in Requests : ReqOk(req'[q], omissions, issued)
    BY <1>3 DEF OmissionsInv
<1>6. SpelledOk'
    <2>1. ASSUME SpelledScene(scene), NEW q \in Requests, req'[q].pc # "idle"
          PROVE  Spelled(req'[q].copy.category)
        <3>1. CASE q = r
            BY <1>3, <2>1, <3>1 DEF OmissionsInv, SpelledOk, AllSpelled
        <3>2. CASE q # r
            BY <1>3, <2>1, <3>2 DEF OmissionsInv, SpelledOk
        <3> QED
            BY <3>1, <3>2
    <2>2. SpelledScene(scene) => AllSpelled(omissions)
        BY DEF OmissionsInv, SpelledOk
    <2> QED
        BY <1>1, <2>1, <2>2 DEF SpelledOk, SpelledScene, AllSpelled
<1>7. SoloOk'
    <2>1. ASSUME scene.members <= 1, NEW q \in Requests, req'[q].pc # "idle"
          PROVE  q = r /\ req'[q].clean
        <3>1. q = r
            BY <1>3, <2>1, OthersIdle
        <3>2. req[r].pc # "idle" => req[r].clean
            BY <2>1 DEF OmissionsInv, SoloOk
        <3> QED
            BY <1>3, <2>1, <3>1, <3>2 DEF StaysClean
    <2> QED
        BY <1>1, <2>1 DEF SoloOk
<1>8. scrapped' = Derive(paper', omissions')
    BY <1>1 DEF OmissionsInv
<1>9. (NoRace => AlikeBut(omissions, {}))'
    BY <1>1 DEF OmissionsInv, AlikeBut
<1>10. (\A q \in Requests : ReqOk(req[q], omissions, issued))'
    BY <1>1, <1>5
<1> QED
    BY <1>4, <1>6, <1>7, <1>8, <1>9, <1>10 DEF OmissionsInv

LEMMA ApplyKeeps ==
    ASSUME OmissionsInv, NEW r \in Requests, Turn(r),
           NEW oms, NEW data, NEW x \in ReqRecords, Apply(r, oms, data, x),
           NEW iss, issued' = iss, issued \subseteq iss, iss \subseteq Ids,
           Oms(oms), DOMAIN oms \subseteq iss, DOMAIN oms \cap issued \subseteq DOMAIN omissions,
           DetailsKept(omissions, oms), PaperOk(data),
           ReqOk(x, oms, iss), StaysClean(req[r], x),
           x.pc # "idle" => req[r].pc # "idle" /\ x.copy = req[r].copy,
           SpelledScene(scene) => AllSpelled(oms),
           NoRace => AlikeBut(oms, {})
    PROVE  OmissionsInv'
<1>1. /\ events < scene.events /\ events' = events + 1 /\ omissions' = oms /\ paper' = data
      /\ scrapped' = Derive(data, oms) /\ scene' = scene
    BY DEF Apply
<1>2. req' = [q \in Requests |-> IF q = r THEN x
                                 ELSE [req[q] EXCEPT !.clean = @ /\ req[q].pc = "idle"]]
    BY DEF Apply
<1>3. \A q \in Requests : req[q] \in ReqRecords /\ ReqOk(req[q], omissions, issued)
    BY TypeIs DEF OmissionsInv
<1>4. ASSUME NEW q \in Requests, q # r
      PROVE  /\ req'[q] \in ReqRecords /\ req'[q].pc = req[q].pc /\ req'[q].copy = req[q].copy
             /\ ReqOk(req'[q], oms, iss)
    <2>1. PICK y, n : y = req[q] /\ n = req'[q]
        OBVIOUS
    <2>2. n = [y EXCEPT !.clean = @ /\ y.pc = "idle"]
        BY <1>2, <1>4, <2>1
    <2>3. PICK old, was : old = omissions /\ was = issued
        OBVIOUS
    <2>4. /\ y \in ReqRecords /\ ReqOk(y, old, was) /\ was \subseteq iss
          /\ DOMAIN oms \cap was \subseteq DOMAIN old /\ DetailsKept(old, oms)
        BY <1>3, <2>1, <2>3
    <2>5. n \in ReqRecords /\ n.pc = y.pc /\ n.copy = y.copy /\ ReqOk(n, oms, iss)
        BY <2>2, <2>4, OvertakenOk
    <2> QED
        BY <2>1, <2>5
<1>5. req'[r] = x
    BY <1>2
<1>6. req' \in [Requests -> ReqRecords]
    <2>1. \A q \in Requests : req'[q] \in ReqRecords
        BY <1>4, <1>5
    <2>2. req' = [q \in Requests |-> req'[q]]
        BY <1>2
    <2> QED
        BY <2>1, <2>2
<1>7. TypeOK'
    <2>1. events \in 0 .. scene.events /\ scene \in Scenes /\ scene.events \in Nat
        BY TypeIs, ScenesAssumption
    <2>2. events' \in 0 .. scene'.events /\ scene' \in Scenes
        BY <1>1, <2>1
    <2> QED
        BY <1>1, <1>6, <2>2 DEF TypeOK, Oms, PaperOk
<1>8. (\A q \in Requests : ReqOk(req[q], omissions, issued))'
    BY <1>1, <1>4, <1>5
<1>9. SpelledOk'
    <2>1. ASSUME SpelledScene(scene), NEW q \in Requests, req'[q].pc # "idle"
          PROVE  Spelled(req'[q].copy.category)
        <3>1. CASE q = r
            BY <1>5, <2>1, <3>1 DEF OmissionsInv, SpelledOk
        <3>2. CASE q # r
            BY <1>4, <2>1, <3>2 DEF OmissionsInv, SpelledOk
        <3> QED
            BY <3>1, <3>2
    <2>2. SpelledScene(scene)' => SpelledScene(scene)
        BY <1>1 DEF SpelledScene
    <2>3. SpelledScene(scene)' => AllSpelled(omissions)'
        BY <1>1, <2>2 DEF AllSpelled
    <2> QED
        BY <2>1, <2>2, <2>3 DEF SpelledOk
<1>10. SoloOk'
    <2>1. ASSUME scene.members <= 1, NEW q \in Requests, req'[q].pc # "idle"
          PROVE  q = r /\ req'[q].clean
        <3>1. q = r
            BY <1>4, <2>1, OthersIdle
        <3>2. req[r].pc # "idle" => req[r].clean
            BY <2>1 DEF OmissionsInv, SoloOk
        <3> QED
            BY <1>5, <2>1, <3>1, <3>2 DEF StaysClean
    <2> QED
        BY <1>1, <2>1 DEF SoloOk
<1>11. scrapped' = Derive(paper', omissions')
    BY <1>1
<1>12. (NoRace => AlikeBut(omissions, {}))'
    BY <1>1 DEF AlikeBut
<1> QED
    BY <1>7, <1>8, <1>9, <1>10, <1>11, <1>12 DEF OmissionsInv

-----------------------------------------------------------------------------
(* One lemma for every action.                                              *)

LEMMA WithPc ==
    ASSUME NEW x \in ReqRecords, NEW p \in PCs, NEW n, n = [x EXCEPT !.pc = p]
    PROVE  /\ n \in ReqRecords /\ n.pc = p /\ n.op = x.op /\ n.id = x.id /\ n.copy = x.copy
           /\ n.part = x.part /\ n.status = x.status /\ n.clean = x.clean
BY DEF ReqRecords

LEMMA IdleOk == ASSUME NEW oms, NEW iss, NEW x PROVE ReqOk(NoRequest, oms, iss) /\ StaysClean(x, NoRequest)
BY NoRequestIs DEF ReqOk, StaysClean

LEMMA InitInv == ASSUME Init PROVE OmissionsInv
<1>1. /\ scene \in Scenes /\ DOMAIN scene.existing \subseteq Ids
      /\ scene.existing \in [DOMAIN scene.existing -> {o \in OmissionRecords : o.status = "Pending"}]
      /\ scene.events \in Nat
    BY ScenesAssumption DEF Init
<1>2. omissions = scene.existing /\ issued = DOMAIN omissions
    BY DEF Init
<1>3. \A i \in DOMAIN omissions : omissions[i] \in OmissionRecords /\ omissions[i].status = "Pending"
    BY <1>1, <1>2
<1>4. \A r \in Requests : req[r] = NoRequest
    BY DEF Init
<1>5. TypeOK
    <2>1. req \in [Requests -> ReqRecords]
        BY NoRequestIs DEF Init
    <2>2. omissions \in [DOMAIN omissions -> OmissionRecords]
        BY <1>1, <1>2
    <2>3. /\ paper.blank \in BOOLEAN /\ DOMAIN paper.lists \subseteq Lists
          /\ paper.lists \in [DOMAIN paper.lists -> SUBSET Districts]
        BY SubmittedAssumption DEF Init
    <2>4. events \in 0 .. scene.events
        BY <1>1 DEF Init
    <2> QED
        BY <1>1, <1>2, <2>1, <2>2, <2>3, <2>4 DEF TypeOK
<1>6. \A r \in Requests : ReqOk(req[r], omissions, issued)
    BY <1>4, IdleOk
<1>7. SpelledOk /\ SoloOk
    BY <1>2, <1>4, NoRequestIs DEF SpelledOk, SoloOk, SpelledScene, AllSpelled
<1>8. AlikeBut(omissions, {})
    BY <1>3 DEF AlikeBut
<1>9. scrapped = Derive(paper, omissions)
    BY DEF Init
<1> QED
    BY <1>5, <1>6, <1>7, <1>8, <1>9 DEF OmissionsInv

LEMMA StutterInv == ASSUME OmissionsInv, UNCHANGED vars PROVE OmissionsInv'
<1>1. UNCHANGED <<omissions, paper, scrapped, issued, events, req, scene>>
    BY DEF vars
<1>2. TypeOK'
    BY <1>1 DEF OmissionsInv, TypeOK
<1>3. SpelledOk'
    BY <1>1 DEF OmissionsInv, SpelledOk, SpelledScene, AllSpelled
<1>4. SoloOk'
    BY <1>1 DEF OmissionsInv, SoloOk
<1>5. (NoRace => AlikeBut(omissions, {}))'
    BY <1>1 DEF OmissionsInv, AlikeBut
<1>6. (\A r \in Requests : ReqOk(req[r], omissions, issued))'
    BY <1>1 DEF OmissionsInv
<1> QED
    BY <1>1, <1>2, <1>3, <1>4, <1>5, <1>6 DEF OmissionsInv

LEMMA AddOmissionInv ==
    ASSUME OmissionsInv, NEW r \in Requests, Turn(r),
           NEW id \in 1 .. scene.ids, NEW c \in scene.reports, NEW t \in Texts, NEW rec \in BOOLEAN,
           AddOmission(r, id, c, t, rec)
    PROVE  OmissionsInv'
<1>1. PICK o : o = [category |-> c, text |-> t, recoverable |-> rec, status |-> "Pending"]
    OBVIOUS
<1>2. scene \in Scenes /\ c \in Categories /\ id \in Ids
    <2>1. scene \in Scenes
        BY TypeIs
    <2>2. scene.ids \in 0 .. MaxIds /\ scene.reports \subseteq Categories
        BY <2>1, ScenesAssumption
    <2> QED
        BY <2>1, <2>2, BoundsAssumption DEF Ids
<1>3. o \in OmissionRecords /\ o.category = c /\ o.status = "Pending"
    BY <1>1, <1>2 DEF OmissionRecords, Statuses
<1>4. PICK oms : oms = Put(omissions, id, o)
    OBVIOUS
<1>5. PICK iss : iss = issued \cup {id}
    OBVIOUS
<1>6. Apply(r, oms, paper, NoRequest) /\ id \notin issued /\ issued' = iss
    BY <1>1, <1>4, <1>5 DEF AddOmission
<1>7. /\ Oms(omissions) /\ DOMAIN omissions \subseteq issued /\ issued \subseteq Ids /\ PaperOk(paper)
    BY TypeIs
<1>8. /\ DOMAIN oms = DOMAIN omissions \cup {id} /\ oms[id] = o
      /\ \A i \in DOMAIN omissions : oms[i] = omissions[i]
    BY <1>4, <1>6, <1>7 DEF Put
<1>9. Oms(oms)
    BY <1>2, <1>3, <1>4, <1>7 DEF Put, Oms
<1>10. DetailsKept(omissions, oms)
    BY <1>8 DEF DetailsKept
<1>11. SpelledScene(scene) => AllSpelled(oms)
    BY <1>3, <1>8 DEF OmissionsInv, SpelledOk, SpelledScene, AllSpelled
<1>12. NoRace => AlikeBut(oms, {})
    BY <1>3, <1>8 DEF OmissionsInv, AlikeBut
<1>13. PICK data : data = paper
    OBVIOUS
<1> QED
    BY <1>2, <1>5, <1>6, <1>7, <1>8, <1>9, <1>10, <1>11, <1>12, <1>13, NoRequestIs, IdleOk, ApplyKeeps

LEMMA PaperCorrectInv ==
    ASSUME OmissionsInv, NEW r \in Requests, Turn(r),
           NEW lists \in scene.papers, NEW blank \in BOOLEAN,
           PaperCorrect(r, [blank |-> blank, lists |-> lists])
    PROVE  OmissionsInv'
<1>1. PICK data : data = [blank |-> blank, lists |-> lists]
    OBVIOUS
<1>2. PaperOk(data)
    BY <1>1, TypeIs, ScenesAssumption DEF PaperOk
<1>3. Apply(r, omissions, data, NoRequest) /\ issued' = issued
    BY <1>1 DEF PaperCorrect
<1>4. /\ Oms(omissions) /\ DOMAIN omissions \subseteq issued /\ issued \subseteq Ids
    BY TypeIs
<1>5. PICK oms, iss : oms = omissions /\ iss = issued
    OBVIOUS
<1>6. DetailsKept(omissions, oms)
    BY <1>5 DEF DetailsKept
<1>7. (SpelledScene(scene) => AllSpelled(oms)) /\ (NoRace => AlikeBut(oms, {}))
    BY <1>5 DEF OmissionsInv, SpelledOk
<1> QED
    BY <1>2, <1>3, <1>4, <1>5, <1>6, <1>7, NoRequestIs, IdleOk, ApplyKeeps

LEMMA OpenInv ==
    ASSUME OmissionsInv, NEW r \in Requests, Turn(r), NEW id \in DOMAIN omissions,
           NEW op \in {"assess", "delete"}, NEW p \in Controls(omissions[id].category),
           NEW s \in Statuses, Open(r, id, op, p, s)
    PROVE  OmissionsInv'
<1>1. PICK x : x = [pc |-> "open", op |-> op, id |-> id, copy |-> omissions[id],
                    part |-> p, status |-> s, clean |-> TRUE]
    OBVIOUS
<1>2. Step(r, x)
    BY <1>1 DEF Open
<1>3. omissions[id] \in OmissionRecords /\ id \in issued /\ id \in Ids
    BY TypeIs DEF Oms
<1>4. p \in Parts \cup {NoPart}
    BY DEF Controls, PartsOf, Parts
<1>5. /\ x \in ReqRecords /\ x.pc = "open" /\ x.id = id /\ x.copy = omissions[id] /\ x.part = p
      /\ x.clean
    BY <1>1, <1>3, <1>4 DEF ReqRecords, PCs
<1>6. ReqOk(x, omissions, issued) /\ StaysClean(req[r], x)
    BY <1>3, <1>5 DEF ReqOk, StaysClean
<1> QED
    BY <1>2, <1>5, <1>6, StepKeeps

LEMMA DoneInv ==
    ASSUME OmissionsInv, NEW r \in Requests, Turn(r), Refuse(r) \/ Answer(r)
    PROVE  OmissionsInv'
<1>1. Step(r, NoRequest)
    BY DEF Refuse, Answer
<1> QED
    BY <1>1, NoRequestIs, IdleOk, StepKeeps

LEMMA DeleteOmissionInv ==
    ASSUME OmissionsInv, NEW r \in Requests, Turn(r), DeleteOmission(r)
    PROVE  OmissionsInv'
<1>1. PICK id, oms : id = req[r].id /\ oms = Remove(omissions, id)
    OBVIOUS
<1>2. Apply(r, oms, paper, NoRequest) /\ issued' = issued
    BY <1>1 DEF DeleteOmission
<1>3. /\ Oms(omissions) /\ DOMAIN omissions \subseteq issued /\ issued \subseteq Ids /\ PaperOk(paper)
    BY TypeIs
<1>4. /\ DOMAIN oms = DOMAIN omissions \ {id} /\ \A i \in DOMAIN oms : oms[i] = omissions[i]
    BY <1>1 DEF Remove
<1>5. Oms(oms)
    BY <1>1, <1>3 DEF Remove, Oms
<1>6. DetailsKept(omissions, oms)
    BY <1>4 DEF DetailsKept
<1>7. SpelledScene(scene) => AllSpelled(oms)
    BY <1>4 DEF OmissionsInv, SpelledOk, AllSpelled
<1>8. NoRace => AlikeBut(oms, {})
    BY <1>4 DEF OmissionsInv, AlikeBut
<1>9. PICK data, iss : data = paper /\ iss = issued
    OBVIOUS
<1> QED
    BY <1>2, <1>3, <1>4, <1>5, <1>6, <1>7, <1>8, <1>9, NoRequestIs, IdleOk, ApplyKeeps

(* The copy that is written back when its districts are spelled out is the  *)
(* omission as it is, unless members race over one that has to be.          *)
LEMMA SpellingIsFresh ==
    ASSUME OmissionsInv, NoRace, NEW r \in Requests, req[r].pc = "open", NeedsSpelling(req[r])
    PROVE  /\ req[r].id \in DOMAIN omissions /\ omissions[req[r].id] = req[r].copy
           /\ ~SpelledScene(scene)
<1>1. ~SpelledScene(scene)
    BY DEF OmissionsInv, SpelledOk, NeedsSpelling, Spelled
<1>2. scene.members <= 1
    BY <1>1, TypeIs DEF NoRace
<1>3. req[r].clean
    BY <1>2 DEF OmissionsInv, SoloOk
<1>4. ReqOk(req[r], omissions, issued)
    BY DEF OmissionsInv
<1> QED
    BY <1>1, <1>3, <1>4 DEF ReqOk

(* The omission with its districts spelled out.                             *)
LEMMA SpelledOutIs ==
    ASSUME NEW o \in OmissionRecords, o.category.kind = "support", o.category.parts = {},
           NEW n, n = [o EXCEPT !.category.parts = Districts]
    PROVE  /\ n \in OmissionRecords /\ n.status = o.status /\ Details(n) = Details(o)
           /\ n.category.parts = Districts /\ Covered(n) = Covered(o)
           /\ n.category.kind = "support"
<1>1. Districts \subseteq PartsOf(o.category.kind)
    BY DEF PartsOf
<1>2. /\ n \in OmissionRecords /\ n.status = o.status /\ n.category.parts = Districts
      /\ n.category.kind = o.category.kind /\ n.category.subject = o.category.subject
      /\ n.text = o.text /\ n.recoverable = o.recoverable
    BY <1>1, WithParts
<1>3. Details(n) = Details(o)
    BY <1>2, DetailsSame
<1> QED
    BY <1>2, <1>3 DEF Covered, CoveredParts

LEMMA SpellOutInv ==
    ASSUME OmissionsInv, NEW r \in Requests, Turn(r), SpellOut(r)
    PROVE  OmissionsInv'
<1>1. PICK y, n : y = req[r] /\ n = [req[r] EXCEPT !.pc = "spelled"]
    OBVIOUS
<1>2. PICK o : o = [y.copy EXCEPT !.category.parts = Districts]
    OBVIOUS
<1>3. PICK oms : oms = UpdateOmission(omissions, y.id, o)
    OBVIOUS
<1>4. /\ y.pc = "open" /\ y.op = "assess" /\ MayAssess(y) /\ NeedsSpelling(y)
      /\ Apply(r, oms, paper, n) /\ issued' = issued
    BY <1>1, <1>2, <1>3 DEF SpellOut
<1>5. y \in ReqRecords /\ ReqOk(y, omissions, issued)
    BY <1>1, TypeIs DEF OmissionsInv
<1>6. /\ n \in ReqRecords /\ n.pc = "spelled" /\ n.op = y.op /\ n.id = y.id /\ n.copy = y.copy
      /\ n.part = y.part /\ n.status = y.status /\ n.clean = y.clean
    BY <1>1, <1>5, WithPc DEF PCs
<1>7. y.copy \in OmissionRecords /\ y.copy.category.kind = "support" /\ y.copy.category.parts = {}
    BY <1>4, <1>5 DEF ReqOk, NeedsSpelling
<1>8. /\ o \in OmissionRecords /\ o.status = y.copy.status /\ Details(o) = Details(y.copy)
      /\ o.category.parts = Districts /\ o.category.kind = "support"
    BY <1>2, <1>7, SpelledOutIs
<1>9. /\ Oms(omissions) /\ DOMAIN omissions \subseteq issued /\ issued \subseteq Ids /\ PaperOk(paper)
    BY TypeIs
<1>10. /\ DOMAIN oms = DOMAIN omissions
       /\ y.id \in DOMAIN omissions => oms[y.id] = o
       /\ \A i \in DOMAIN omissions \ {y.id} : oms[i] = omissions[i]
    BY <1>3 DEF UpdateOmission, Put
<1>11. Oms(oms)
    BY <1>3, <1>8, <1>9 DEF UpdateOmission, Put, Oms
<1>12. y.id \in DOMAIN omissions => Details(omissions[y.id]) = Details(y.copy)
    BY <1>4, <1>5 DEF ReqOk
<1>13. DetailsKept(omissions, oms)
    BY <1>8, <1>10, <1>12 DEF DetailsKept
<1>14. SpelledScene(scene) => AllSpelled(oms)
    BY <1>1, <1>4 DEF OmissionsInv, SpelledOk, NeedsSpelling, Spelled
<1>15. ASSUME NoRace PROVE AlikeBut(oms, {})
    <2>1. y.id \in DOMAIN omissions /\ omissions[y.id] = y.copy
        BY <1>1, <1>4, <1>15, SpellingIsFresh
    <2>2. \A i \in DOMAIN oms : /\ i \in DOMAIN omissions /\ oms[i].status = omissions[i].status
                                /\ Details(oms[i]) = Details(omissions[i])
                                /\ oms[i].category.kind = omissions[i].category.kind
        BY <1>7, <1>8, <1>10, <2>1
    <2>3. AlikeBut(omissions, {})
        BY <1>15 DEF OmissionsInv
    <2> QED
        BY <2>2, <2>3 DEF AlikeBut
<1>16. ReqOk(n, oms, issued)
    <2>1. MayAssess(n) /\ NeedsSpelling(n)
        BY <1>4, <1>6 DEF MayAssess, NeedsSpelling
    <2>2. y.clean => y.id \in DOMAIN omissions
        BY <1>4, <1>5 DEF ReqOk
    <2>3. y.id \in issued /\ y.part \in Controls(y.copy.category)
        BY <1>4, <1>5 DEF ReqOk
    <2> QED
        BY <1>6, <1>7, <1>8, <1>10, <2>1, <2>2, <2>3 DEF ReqOk
<1>17. StaysClean(req[r], n) /\ req[r].pc # "idle" /\ n.copy = req[r].copy
    BY <1>1, <1>4, <1>6 DEF StaysClean
<1>18. PICK data, iss : data = paper /\ iss = issued
    OBVIOUS
<1> QED
    BY <1>4, <1>6, <1>9, <1>10, <1>11, <1>13, <1>14, <1>15, <1>16, <1>17, <1>18, ApplyKeeps

(* What a request that is ready to record knows.                            *)
LEMMA ReadyIs ==
    ASSUME OmissionsInv, NEW r \in Requests, ReadyToRecord(r), NEW y, y = req[r]
    PROVE  /\ y \in ReqRecords /\ ReqOk(y, omissions, issued) /\ y.pc \in {"open", "spelled"}
           /\ y.id \in issued /\ y.copy \in OmissionRecords /\ y.part \in Controls(y.copy.category)
           /\ y.status \in Statuses
           /\ y.id \in DOMAIN omissions => Details(omissions[y.id]) = Details(y.copy)
           /\ y.clean => /\ y.id \in DOMAIN omissions
                         /\ y.part # NoPart => y.part \in omissions[y.id].category.parts
<1>1. y \in ReqRecords /\ ReqOk(y, omissions, issued)
    BY TypeIs DEF OmissionsInv
<1>2. y.pc \in {"open", "spelled"} /\ y.status \in Statuses
    BY <1>1 DEF ReadyToRecord, ReqRecords
<1>3. /\ y.id \in issued /\ y.copy \in OmissionRecords /\ y.part \in Controls(y.copy.category)
      /\ y.id \in DOMAIN omissions => Details(omissions[y.id]) = Details(y.copy)
    BY <1>1, <1>2 DEF ReqOk
<1>4. ASSUME y.clean
      PROVE  /\ y.id \in DOMAIN omissions
             /\ y.part # NoPart => y.part \in omissions[y.id].category.parts
    <2>1. CASE y.pc = "open" /\ MayAssess(y) /\ ~NeedsSpelling(y)
        <3>1. y.id \in DOMAIN omissions /\ omissions[y.id] = y.copy
            BY <1>1, <1>4, <2>1 DEF ReqOk
        <3>2. y.part # NoPart => y.part \in y.copy.category.parts
            BY <2>1 DEF MayAssess, NeedsSpelling, CoveredParts
        <3> QED
            BY <3>1, <3>2
    <2>2. CASE y.pc = "spelled"
        <3>1. /\ y.id \in DOMAIN omissions /\ omissions[y.id].category.parts = Districts
              /\ MayAssess(y) /\ NeedsSpelling(y)
            BY <1>1, <1>4, <2>2 DEF ReqOk
        <3>2. y.part \in Districts
            BY <3>1 DEF MayAssess, NeedsSpelling, CoveredParts
        <3> QED
            BY <3>1, <3>2
    <2> QED
        BY <2>1, <2>2 DEF ReadyToRecord
<1> QED
    BY <1>1, <1>2, <1>3, <1>4

LEMMA RecordedOk ==
    ASSUME NEW y \in ReqRecords, NEW n, n = [y EXCEPT !.pc = "recorded"], y.pc \in {"open", "spelled"},
           NEW oms, NEW iss, y.id \in iss, y.copy \in OmissionRecords,
           y.part \in Controls(y.copy.category),
           y.id \in DOMAIN oms => Details(oms[y.id]) = Details(y.copy),
           y.clean => HeldFor(oms, y.id, Details(y.copy), DecidedParts(y), y.status)
    PROVE  /\ n \in ReqRecords /\ ReqOk(n, oms, iss) /\ StaysClean(y, n) /\ n.copy = y.copy
<1>1. /\ n \in ReqRecords /\ n.pc = "recorded" /\ n.op = y.op /\ n.id = y.id /\ n.copy = y.copy
      /\ n.part = y.part /\ n.status = y.status /\ n.clean = y.clean
    BY WithPc DEF PCs
<1>2. DecidedParts(n) = DecidedParts(y)
    BY <1>1 DEF DecidedParts
<1>3. StaysClean(y, n)
    BY <1>1 DEF StaysClean
<1> QED
    BY <1>1, <1>2, <1>3 DEF ReqOk

LEMMA RecordWholeInv ==
    ASSUME OmissionsInv, NEW r \in Requests, Turn(r), RecordWhole(r)
    PROVE  OmissionsInv'
<1>1. PICK y, n : y = req[r] /\ n = [y EXCEPT !.pc = "recorded"]
    OBVIOUS
<1>2. PICK oms : oms = SetOmissionStatus(omissions, y.id, y.status)
    OBVIOUS
<1>3. ReadyToRecord(r) /\ y.part = NoPart /\ Apply(r, oms, paper, n) /\ issued' = issued
    BY <1>1, <1>2 DEF RecordWhole
<1>4. /\ y \in ReqRecords /\ y.pc \in {"open", "spelled"}
      /\ y.id \in issued /\ y.copy \in OmissionRecords /\ y.part \in Controls(y.copy.category)
      /\ y.status \in Statuses
      /\ y.id \in DOMAIN omissions => Details(omissions[y.id]) = Details(y.copy)
      /\ y.clean => y.id \in DOMAIN omissions
    BY <1>1, <1>3, ReadyIs
<1>5. /\ Oms(omissions) /\ DOMAIN omissions \subseteq issued /\ issued \subseteq Ids /\ PaperOk(paper)
    BY TypeIs
<1>6. /\ NoRace => AlikeBut(omissions, {})
      /\ SpelledScene(scene) => AllSpelled(omissions)
    BY DEF OmissionsInv, SpelledOk
<1>7. /\ Oms(oms) /\ DOMAIN oms \subseteq DOMAIN omissions /\ DetailsKept(omissions, oms)
      /\ AllSpelled(omissions) => AllSpelled(oms)
      /\ AlikeBut(omissions, {}) => AlikeBut(oms, {})
      /\ y.id \in DOMAIN omissions => HeldFor(oms, y.id, Details(y.copy), DecidedParts(y), y.status)
    <2>1. CASE y.id \notin DOMAIN omissions
        <3>1. oms = omissions
            BY <1>2, <2>1 DEF SetOmissionStatus
        <3> QED
            BY <1>5, <2>1, <3>1 DEF DetailsKept
    <2>2. CASE y.id \in DOMAIN omissions
        <3>1. PICK old, id : old = omissions /\ id = y.id
            OBVIOUS
        <3>2. Oms(old) /\ id \in DOMAIN old /\ oms = SetOmissionStatus(old, id, y.status)
            BY <1>2, <1>5, <2>2, <3>1
        <3>3. /\ Oms(oms) /\ DOMAIN oms \subseteq DOMAIN old /\ DetailsKept(old, oms)
              /\ HeldFor(oms, id, Details(old[id]), Covered(old[id]), y.status)
              /\ AllSpelled(old) => AllSpelled(oms)
              /\ AlikeBut(old, {id}) => AlikeBut(oms, {})
            BY <1>4, <3>2, SetStatusKeeps
        <3>4. AlikeBut(old, {}) => AlikeBut(old, {id})
            BY DEF AlikeBut
        <3>5. HeldFor(oms, id, Details(y.copy), DecidedParts(y), y.status)
            BY <1>3, <1>4, <2>2, <3>1, <3>3 DEF HeldFor, DecidedParts
        <3> QED
            BY <3>1, <3>3, <3>4, <3>5
    <2> QED
        BY <2>1, <2>2
<1>8. PICK iss, data : iss = issued /\ data = paper
    OBVIOUS
<1>9. y.id \in DOMAIN oms => Details(oms[y.id]) = Details(y.copy)
    BY <1>4, <1>7 DEF DetailsKept
<1>10. /\ y \in ReqRecords /\ n = [y EXCEPT !.pc = "recorded"] /\ y.pc \in {"open", "spelled"}
       /\ y.id \in iss /\ y.copy \in OmissionRecords /\ y.part \in Controls(y.copy.category)
       /\ y.id \in DOMAIN oms => Details(oms[y.id]) = Details(y.copy)
       /\ y.clean => HeldFor(oms, y.id, Details(y.copy), DecidedParts(y), y.status)
    BY <1>1, <1>4, <1>7, <1>8, <1>9
<1>11. n \in ReqRecords /\ ReqOk(n, oms, iss) /\ StaysClean(y, n) /\ n.copy = y.copy
    BY <1>10, RecordedOk
<1> QED
    BY <1>1, <1>3, <1>4, <1>5, <1>6, <1>7, <1>8, <1>11, ApplyKeeps

LEMMA RecordPartInv ==
    ASSUME OmissionsInv, NEW r \in Requests, Turn(r), NEW split \in 1 .. scene.ids, RecordPart(r, split)
    PROVE  OmissionsInv'
<1>1. PICK y, n : y = req[r] /\ n = [y EXCEPT !.pc = "recorded"]
    OBVIOUS
<1>2. PICK oms : oms = SetOmissionPartStatus(omissions, y.id, y.part, y.status, split)
    OBVIOUS
<1>3. PICK iss : iss = issued \cup (DOMAIN oms \ DOMAIN omissions)
    OBVIOUS
<1>4. ReadyToRecord(r) /\ y.part # NoPart /\ split \notin issued /\ Apply(r, oms, paper, n)
    BY <1>1, <1>2 DEF RecordPart
<1>5. issued' = iss
    BY <1>3, <1>4 DEF RecordPart, Apply
<1>6. /\ y \in ReqRecords /\ y.pc \in {"open", "spelled"}
      /\ y.id \in issued /\ y.copy \in OmissionRecords /\ y.part \in Controls(y.copy.category)
      /\ y.status \in Statuses
      /\ y.id \in DOMAIN omissions => Details(omissions[y.id]) = Details(y.copy)
      /\ y.clean => y.id \in DOMAIN omissions /\ y.part \in omissions[y.id].category.parts
    BY <1>1, <1>4, ReadyIs
<1>7. /\ Oms(omissions) /\ DOMAIN omissions \subseteq issued /\ issued \subseteq Ids /\ PaperOk(paper)
      /\ split \in Ids
    <2>1. /\ Oms(omissions) /\ DOMAIN omissions \subseteq issued /\ issued \subseteq Ids /\ PaperOk(paper)
          /\ scene \in Scenes
        BY TypeIs
    <2>2. scene.ids \in 0 .. MaxIds
        BY <2>1, ScenesAssumption
    <2> QED
        BY <2>1, <2>2, BoundsAssumption DEF Ids
<1>8. /\ NoRace => AlikeBut(omissions, {})
      /\ SpelledScene(scene) => AllSpelled(omissions)
    BY DEF OmissionsInv, SpelledOk
<1>9. PICK old, id, part : old = omissions /\ id = y.id /\ part = y.part
    OBVIOUS
<1>10. Oms(old) /\ split \notin DOMAIN old /\ oms = SetOmissionPartStatus(old, id, part, y.status, split)
    BY <1>2, <1>4, <1>7, <1>9
<1>11. /\ Oms(oms) /\ DOMAIN oms \subseteq DOMAIN old \cup {split} /\ DetailsKept(old, oms)
       /\ AllSpelled(old) => AllSpelled(oms)
       /\ AlikeBut(old, {}) => AlikeBut(oms, {})
       /\ y.clean => HeldFor(oms, id, Details(y.copy), DecidedParts(y), y.status)
    <2>1. \/ ~(id \in DOMAIN old /\ part \in old[id].category.parts) /\ oms = old
          \/ /\ id \in DOMAIN old /\ part \in old[id].category.parts
             /\ PartRecorded(old, id, part, y.status, split, oms)
        BY <1>7, <1>10, PartIs
    <2>2. CASE ~(id \in DOMAIN old /\ part \in old[id].category.parts) /\ oms = old
        <3>1. ~y.clean
            BY <1>6, <1>9, <2>2
        <3>2. DetailsKept(old, oms)
            BY <2>2 DEF DetailsKept
        <3> QED
            BY <1>10, <2>2, <3>1, <3>2
    <2>3. CASE /\ id \in DOMAIN old /\ part \in old[id].category.parts
               /\ PartRecorded(old, id, part, y.status, split, oms)
        <3>1. /\ Oms(oms) /\ DOMAIN oms \subseteq DOMAIN old \cup {split} /\ DetailsKept(old, oms)
              /\ HeldFor(oms, id, Details(old[id]), {part}, y.status)
              /\ AllSpelled(old) => AllSpelled(oms)
              /\ AlikeBut(old, {}) => AlikeBut(oms, {})
            <4>1. PartKept(old, id, part, y.status, split, oms)
                BY <1>6, <1>7, <1>10, <2>3, PartKeeps
            <4> QED
                BY <4>1 DEF PartKept
        <3>2. Details(old[id]) = Details(y.copy) /\ DecidedParts(y) = {part}
            BY <1>4, <1>6, <1>9, <2>3 DEF DecidedParts
        <3> QED
            BY <3>1, <3>2
    <2> QED
        BY <2>1, <2>2, <2>3
<1>12. PICK was, data : was = issued /\ data = paper
    OBVIOUS
<1>13. /\ was \subseteq iss /\ iss \subseteq Ids /\ DOMAIN oms \subseteq iss
       /\ DOMAIN oms \cap was \subseteq DOMAIN old
    BY <1>3, <1>4, <1>7, <1>9, <1>11, <1>12 DEF Oms
<1>14. id \in DOMAIN oms => Details(oms[id]) = Details(y.copy)
    BY <1>4, <1>6, <1>9, <1>11, <1>12, <1>13 DEF DetailsKept
<1>15. /\ y \in ReqRecords /\ n = [y EXCEPT !.pc = "recorded"] /\ y.pc \in {"open", "spelled"}
       /\ y.id \in iss /\ y.copy \in OmissionRecords /\ y.part \in Controls(y.copy.category)
       /\ y.id \in DOMAIN oms => Details(oms[y.id]) = Details(y.copy)
       /\ y.clean => HeldFor(oms, y.id, Details(y.copy), DecidedParts(y), y.status)
    BY <1>1, <1>6, <1>9, <1>11, <1>12, <1>13, <1>14
<1>16. n \in ReqRecords /\ ReqOk(n, oms, iss) /\ StaysClean(y, n) /\ n.copy = y.copy
    BY <1>15, RecordedOk
<1> QED
    BY <1>1, <1>4, <1>5, <1>6, <1>7, <1>8, <1>9, <1>11, <1>12, <1>13, <1>16, ApplyKeeps

LEMMA NextInv == ASSUME OmissionsInv, [Next]_vars PROVE OmissionsInv'
<1>1. CASE UNCHANGED vars
    BY <1>1, StutterInv
<1>2. CASE Next
    <2>1. PICK r \in Requests : Turn(r) /\ MemberStep(r)
        BY <1>2 DEF Next, Turn
    <2>2. CASE \E id \in 1 .. scene.ids, c \in scene.reports, t \in Texts, rec \in BOOLEAN :
                   AddOmission(r, id, c, t, rec)
        BY <2>1, <2>2, AddOmissionInv
    <2>3. CASE \E lists \in scene.papers, blank \in BOOLEAN :
                   PaperCorrect(r, [blank |-> blank, lists |-> lists])
        BY <2>1, <2>3, PaperCorrectInv
    <2>4. CASE \E id \in DOMAIN omissions, s \in FormValues :
               \E p \in Controls(omissions[id].category) : Open(r, id, "assess", p, s)
        <3>1. FormValues \subseteq Statuses
            BY DEF FormValues, Statuses
        <3> QED
            BY <2>1, <2>4, <3>1, OpenInv
    <2>5. CASE \E id \in DOMAIN omissions : Open(r, id, "delete", NoPart, "Pending")
        <3>1. "Pending" \in Statuses /\ \A id \in DOMAIN omissions : NoPart \in Controls(omissions[id].category)
            BY DEF Statuses, Controls
        <3> QED
            BY <2>1, <2>5, <3>1, OpenInv
    <2>6. CASE Refuse(r) \/ Answer(r)
        BY <2>1, <2>6, DoneInv
    <2>7. CASE SpellOut(r)
        BY <2>1, <2>7, SpellOutInv
    <2>8. CASE RecordWhole(r)
        BY <2>1, <2>8, RecordWholeInv
    <2>9. CASE \E split \in 1 .. scene.ids : RecordPart(r, split)
        BY <2>1, <2>9, RecordPartInv
    <2>10. CASE DeleteOmission(r)
        BY <2>1, <2>10, DeleteOmissionInv
    <2> QED
        BY <2>1, <2>2, <2>3, <2>4, <2>5, <2>6, <2>7, <2>8, <2>9, <2>10 DEF MemberStep
<1> QED
    BY <1>1, <1>2

-----------------------------------------------------------------------------
(* The theorems.                                                            *)

(* The inductive invariant: requests know an omission that was there, its   *)
(* details under that id never change, undisturbed requests have read the   *)
(* current omission, and what is scrapped is derived from the projection.   *)
THEOREM OmissionsHold == Spec => []OmissionsInv
<1>1. Init => OmissionsInv
    BY InitInv
<1>2. OmissionsInv /\ [Next]_vars => OmissionsInv'
    BY NextInv
<1> QED
    BY <1>1, <1>2, PTL DEF Spec

(* Omissions, paper data, issued ids and requests keep their types, under   *)
(* splitting, merging and overtaken requests.                               *)
THEOREM TypeCorrect == Spec => []TypeOK
<1>1. OmissionsInv => TypeOK
    BY DEF OmissionsInv
<1> QED
    BY <1>1, OmissionsHold, PTL

(* merge_omission: parts decided alike are one omission, for any reports    *)
(* and any sequence of decisions, when NoRace holds.                        *)
THEOREM DecidedAlike == ASSUME NoRace PROVE Spec => []DecidedAlikeIsOne
<1>1. OmissionsInv => DecidedAlikeIsOne
    <2> SUFFICES ASSUME OmissionsInv, NEW i \in DOMAIN omissions, NEW j \in DOMAIN omissions,
                        omissions[i].status # "Pending", omissions[i].status = omissions[j].status,
                        HasSameDetails(omissions[i], omissions[j])
                 PROVE  i = j
        BY DEF DecidedAlikeIsOne
    <2>1. Details(omissions[i]) = Details(omissions[j]) /\ omissions[i].category.kind \in Scoped
        BY DetailsSame
    <2>2. AlikeBut(omissions, {})
        BY DEF OmissionsInv
    <2> QED
        BY <2>1, <2>2 DEF AlikeBut
<1> QED
    BY <1>1, OmissionsHold, PTL

(* set_status: the answer to a member whose omission nobody else touched    *)
(* highlights an omission that holds the decision (decided_omission).       *)
THEOREM DecisionHeld == Spec => []UndisturbedDecisionHolds
<1>1. OmissionsInv => UndisturbedDecisionHolds
    <2> SUFFICES ASSUME OmissionsInv, NEW r \in Requests, req[r].pc = "recorded", req[r].clean
                 PROVE  DecidedOmission(req[r]) # {}
        BY DEF UndisturbedDecisionHolds
    <2>1. PICK x : x = req[r]
        OBVIOUS
    <2>2. HeldFor(omissions, x.id, Details(x.copy), DecidedParts(x), x.status)
        BY <2>1 DEF OmissionsInv, ReqOk
    <2>3. PICK i \in DOMAIN omissions :
                 /\ Details(omissions[i]) = Details(x.copy) /\ omissions[i].status = x.status
                 /\ i = x.id \/ omissions[i].category.kind \in Scoped
                 /\ DecidedParts(x) \subseteq Covered(omissions[i])
        BY <2>2 DEF HeldFor
    <2>4. HoldsDecision(x, omissions[i])
        BY <2>3 DEF HoldsDecision, DecidedParts, Covered
    <2>5. CASE i = x.id
        BY <2>1, <2>4, <2>5 DEF DecidedOmission
    <2>6. CASE omissions[i].category.kind \in Scoped
        <3>1. HasSameDetails(omissions[i], x.copy)
            BY <2>3, <2>6, DetailsSame
        <3> QED
            BY <2>1, <2>4, <3>1 DEF DecidedOmission
    <2> QED
        BY <2>3, <2>5, <2>6
<1> QED
    BY <1>1, OmissionsHold, PTL

(* Scrapped::derive, refreshed after every event: what is scrapped follows  *)
(* from the decisions on lists, districts and candidates.                   *)
THEOREM ScrappedFollows == Spec => []ScrappedFollowsDecisions
<1>1. ASSUME OmissionsInv PROVE ScrappedFollowsDecisions
    <2> DEFINE Kind(kind) == {i \in DOMAIN omissions : /\ IsUnresolved(omissions[i])
                                                       /\ omissions[i].category.kind = kind}
               Parted(kind) == UNION {omissions[i].category.parts : i \in Kind(kind)}
               all == \E i \in Kind("support") : omissions[i].category.parts = {}
               districts == IF all THEN Districts ELSE Parted("support")
    <2>1. /\ scrapped.whole = Parted("list")
          /\ scrapped.allDistricts = {l \in DOMAIN paper.lists :
                 paper.lists[l] \cap districts # {} /\ paper.lists[l] \cap districts = paper.lists[l]}
          /\ scrapped.candidates =
                 UNION {{<<l, omissions[i].category.subject>> : l \in omissions[i].category.parts}
                        : i \in Kind("candidate")}
        BY <1>1 DEF OmissionsInv, Derive
    <2>3. ASSUME NEW d \in Districts PROVE d \in districts <=> Unresolved("support", d)
        <3>1. CASE all
            BY <3>1 DEF Unresolved, CoveredParts
        <3>2. CASE ~all
            BY <3>2 DEF Unresolved, CoveredParts
        <3> QED
            BY <3>1, <3>2
    <2>4. ASSUME NEW l \in Lists PROVE l \in scrapped.whole <=> Unresolved("list", l)
        BY <2>1 DEF Unresolved, CoveredParts
    <2> HIDE DEF districts, all
    <2>5. ASSUME NEW l \in Lists
          PROVE  l \in scrapped.allDistricts <=>
                    /\ l \in DOMAIN paper.lists /\ paper.lists[l] # {}
                    /\ \A d \in paper.lists[l] : Unresolved("support", d)
        <3>1. l \in DOMAIN paper.lists => paper.lists[l] \subseteq Districts
            BY <1>1, TypeIs DEF PaperOk
        <3> QED
            BY <2>1, <2>3, <3>1
    <2>6. ASSUME NEW l \in Lists, NEW p \in Persons
          PROVE  IsCandidateScrapped(l, p) <=>
                     \E i \in DOMAIN omissions :
                        /\ IsUnresolved(omissions[i]) /\ omissions[i].category.kind = "candidate"
                        /\ omissions[i].category.subject = p /\ l \in omissions[i].category.parts
        BY <2>1 DEF IsCandidateScrapped
    <2> QED
        BY <2>4, <2>5, <2>6 DEF ScrappedFollowsDecisions, IsListScrapped
<1> QED
    BY <1>1, OmissionsHold, PTL

LEMMA ReportedIs ==
    ASSUME NEW oms, NEW report
    PROVE  report \in Reported(oms) <=> \E d, p : report = <<d, p>> /\ Reports(oms, d, p)
BY DEF Reported, Reports, Covered

LEMMA HeldIs ==
    ASSUME NEW oms, NEW d, NEW p, NEW s
    PROVE  s \in Held(oms, d, p) <=> Says(oms, d, p, s)
BY DEF Held, Says, Covered

LEMMA CarriedMeans ==
    ASSUME NEW old, NEW new, NEW e, NEW ps, Carried(old, new, e, ps)
    PROVE  /\ Reported(new) = Reported(old)
           /\ \A report \in Reported(old) :
                 \/ report[1] = e /\ report[2] \in ps /\ report = <<report[1], report[2]>>
                 \/ Held(new, report[1], report[2]) = Held(old, report[1], report[2])
<1>1. \A d, p : Reports(new, d, p) <=> Reports(old, d, p)
    BY DEF Carried
<1>2. \A report : report \in Reported(new) <=> report \in Reported(old)
    BY <1>1, ReportedIs
<1>3. ASSUME NEW report \in Reported(old), ~(report[1] = e /\ report[2] \in ps)
      PROVE  Held(new, report[1], report[2]) = Held(old, report[1], report[2])
    <2>1. \A s : Says(new, report[1], report[2], s) <=> Says(old, report[1], report[2], s)
        BY <1>3 DEF Carried
    <2>2. \A s : s \in Held(new, report[1], report[2]) <=> s \in Held(old, report[1], report[2])
        BY <2>1, HeldIs
    <2> QED
        BY <2>2
<1>4. \A report \in Reported(old) : report = <<report[1], report[2]>>
    BY ReportedIs
<1> QED
    BY <1>2, <1>3, <1>4

(* A step that assesses changes what is said on the decided part only.      *)
LEMMA AssessmentCarries ==
    ASSUME OmissionsInv, NoRace, NEW r \in Requests, Assesses(r)
    PROVE  \E ps : /\ Carried(omissions, omissions', Details(req[r].copy), ps)
                   /\ req[r].part # NoPart => ps \subseteq {req[r].part}
<1>1. PICK y, old : y = req[r] /\ old = omissions
    OBVIOUS
<1>2. Oms(old) /\ DOMAIN old \subseteq issued
    BY <1>1, TypeIs
<1>3. CASE SpellOut(r)
    <2>1. PICK o : o = [y.copy EXCEPT !.category.parts = Districts]
        OBVIOUS
    <2>2. PICK new : new = UpdateOmission(old, y.id, o)
        OBVIOUS
    <2>3. y.pc = "open" /\ NeedsSpelling(y) /\ omissions' = new
        BY <1>1, <1>3, <2>1, <2>2 DEF SpellOut, Apply
    <2>4. y.id \in DOMAIN old /\ old[y.id] = y.copy
        BY <1>1, <2>3, SpellingIsFresh
    <2>5. /\ y.copy \in OmissionRecords /\ y.copy.category.kind = "support"
          /\ y.copy.category.parts = {}
        BY <1>2, <2>3, <2>4 DEF NeedsSpelling, Oms
    <2>6. o.status = y.copy.status /\ Details(o) = Details(y.copy) /\ Covered(o) = Covered(y.copy)
        BY <2>1, <2>5, SpelledOutIs
    <2>7. /\ DOMAIN new = DOMAIN old /\ new[y.id] = o
          /\ \A i \in DOMAIN old \ {y.id} : new[i] = old[i]
        BY <2>2, <2>4 DEF UpdateOmission, Put
    <2>8. \A i \in DOMAIN old : /\ new[i].status = old[i].status /\ Details(new[i]) = Details(old[i])
                                /\ Covered(new[i]) = Covered(old[i])
        BY <2>4, <2>6, <2>7
    <2>9. Carried(old, new, Details(y.copy), {})
        BY <2>7, <2>8 DEF Carried, Reports, Says
    <2> QED
        BY <1>1, <2>3, <2>9
<1>4. CASE RecordWhole(r)
    <2>1. PICK new : new = SetOmissionStatus(old, y.id, y.status)
        OBVIOUS
    <2>2. ReadyToRecord(r) /\ y.part = NoPart /\ omissions' = new
        BY <1>1, <1>4, <2>1 DEF RecordWhole, Apply
    <2>3. y.status \in Statuses /\ (y.id \in DOMAIN old => Details(old[y.id]) = Details(y.copy))
        BY <1>1, <2>2, ReadyIs
    <2>4. CASE y.id \in DOMAIN old
        <3>1. Carried(old, new, Details(y.copy), Covered(old[y.id]))
            BY <1>2, <2>1, <2>3, <2>4, SetStatusCarries
        <3> QED
            BY <1>1, <2>2, <3>1
    <2>5. CASE y.id \notin DOMAIN old
        <3>1. new = old
            BY <2>1, <2>5 DEF SetOmissionStatus
        <3>2. Carried(old, new, Details(y.copy), {})
            BY <3>1, CarriedSame
        <3> QED
            BY <1>1, <2>2, <3>2
    <2> QED
        BY <2>4, <2>5
<1>5. CASE \E split \in Ids : RecordPart(r, split)
    <2>1. PICK split \in Ids : RecordPart(r, split)
        BY <1>5
    <2>2. PICK new : new = SetOmissionPartStatus(old, y.id, y.part, y.status, split)
        OBVIOUS
    <2>3. /\ ReadyToRecord(r) /\ y.part # NoPart /\ omissions' = new /\ split \notin DOMAIN old
        BY <1>1, <1>2, <2>1, <2>2 DEF RecordPart, Apply
    <2>4. y.status \in Statuses /\ (y.id \in DOMAIN old => Details(old[y.id]) = Details(y.copy))
        BY <1>1, <2>3, ReadyIs
    <2>5. Carried(old, new, Details(y.copy), {y.part})
        <3>1. \/ new = old
              \/ /\ y.id \in DOMAIN old /\ y.part \in old[y.id].category.parts
                 /\ PartRecorded(old, y.id, y.part, y.status, split, new)
            BY <1>2, <2>2, <2>3, PartIs
        <3>2. CASE new = old
            BY <3>2, CarriedSame
        <3>3. CASE /\ y.id \in DOMAIN old /\ y.part \in old[y.id].category.parts
                   /\ PartRecorded(old, y.id, y.part, y.status, split, new)
            <4>1. PartKept(old, y.id, y.part, y.status, split, new)
                BY <1>2, <2>3, <2>4, <3>3, PartKeeps
            <4> QED
                BY <2>4, <3>3, <4>1 DEF PartKept
        <3> QED
            BY <3>1, <3>2, <3>3
    <2> QED
        BY <1>1, <2>3, <2>5
<1> QED
    BY <1>3, <1>4, <1>5 DEF Assesses

(* Splitting and merging never lose or add a reported part, and a decision  *)
(* on one part changes the decision on no other, when NoRace holds.         *)
THEOREM Independent == ASSUME NoRace PROVE Spec => DecisionsIndependent
<1> DEFINE Kept == \A r \in Requests : Assesses(r) =>
               /\ Reported(omissions') = Reported(omissions)
               /\ req[r].part # NoPart =>
                     \A report \in Reported(omissions) :
                         \/ report = <<Details(req[r].copy), req[r].part>>
                         \/ Held(omissions', report[1], report[2])
                                = Held(omissions, report[1], report[2])
<1>1. ASSUME OmissionsInv PROVE Kept
    <2> SUFFICES ASSUME NEW r \in Requests, Assesses(r)
                 PROVE  /\ Reported(omissions') = Reported(omissions)
                        /\ req[r].part # NoPart =>
                              \A report \in Reported(omissions) :
                                  \/ report = <<Details(req[r].copy), req[r].part>>
                                  \/ Held(omissions', report[1], report[2])
                                         = Held(omissions, report[1], report[2])
        OBVIOUS
    <2>1. PICK ps : /\ Carried(omissions, omissions', Details(req[r].copy), ps)
                    /\ req[r].part # NoPart => ps \subseteq {req[r].part}
        BY <1>1, AssessmentCarries
    <2>2. PICK old, new, e, part : /\ old = omissions /\ new = omissions'
                                   /\ e = Details(req[r].copy) /\ part = req[r].part
        OBVIOUS
    <2>3. Carried(old, new, e, ps)
        BY <2>1, <2>2
    <2>4. /\ Reported(new) = Reported(old)
          /\ \A report \in Reported(old) :
                \/ report[1] = e /\ report[2] \in ps /\ report = <<report[1], report[2]>>
                \/ Held(new, report[1], report[2]) = Held(old, report[1], report[2])
        BY <2>3, CarriedMeans
    <2>5. part # NoPart => \A report \in Reported(old) :
                              \/ report = <<e, part>>
                              \/ Held(new, report[1], report[2]) = Held(old, report[1], report[2])
        BY <2>1, <2>2, <2>4
    <2> QED
        BY <2>2, <2>4, <2>5
<1>2. OmissionsInv => [Kept]_vars
    BY <1>1
<1>3. DecisionsIndependent <=> [][Kept]_vars
    BY DEF DecisionsIndependent
<1> QED
    BY <1>2, <1>3, OmissionsHold, PTL

-----------------------------------------------------------------------------
(* Progress: what is asked after a decision maps one to one to what was     *)
(* asked before it.                                                         *)

LEMMA FewerBy ==
    ASSUME NEW S, NEW T, IsFiniteSet(T), NEW f \in [S -> T],
           \A x, y \in S : f[x] = f[y] => x = y
    PROVE  Cardinality(S) <= Cardinality(T)
<1>1. f \in Injection(S, T)
    BY DEF Injection, IsInjective
<1> QED
    BY <1>1, FS_Injection

LEMMA QuestionIs ==
    ASSUME NEW oms, NEW ids, NEW x
    PROVE  x \in Questions(oms, ids) <=>
               /\ x = <<x[1], x[2]>> /\ x[1] \in ids /\ x[2] \in Parts \cup {NoPart}
               /\ x[2] \in Asked(oms[x[1]])
BY DEF Questions

LEMMA QuestionsFinite ==
    ASSUME NEW oms, NEW ids, ids \subseteq Ids
    PROVE  IsFiniteSet(Questions(oms, ids)) /\ Decisions(oms, ids) \in Nat
<1>1. IsFiniteSet(Ids)
    BY BoundsAssumption, FS_Interval DEF Ids
<1>2. IsFiniteSet(ids)
    BY <1>1, FS_Subset
<1>3. IsFiniteSet(Parts \cup {NoPart})
    BY BoundsAssumption, FS_AddElement
<1>4. IsFiniteSet(ids \X (Parts \cup {NoPart}))
    BY <1>2, <1>3, FS_Product
<1>5. IsFiniteSet(Questions(oms, ids))
    BY <1>4, FS_Subset DEF Questions
<1> QED
    BY <1>5, FS_CardinalityType DEF Decisions

(* Nothing new is asked of omissions that cover what they covered.          *)
LEMMA SameAsks ==
    ASSUME NEW oms, NEW ids, ids \subseteq Ids, NEW new, NEW kept, kept \subseteq ids,
           \A i \in kept : Asked(new[i]) = Asked(oms[i])
    PROVE  Decisions(new, kept) <= Decisions(oms, ids)
<1>1. \A x \in Questions(new, kept) : x \in Questions(oms, ids)
    BY QuestionIs
<1>2. IsFiniteSet(Questions(oms, ids))
    BY QuestionsFinite
<1>3. Questions(new, kept) \in SUBSET Questions(oms, ids)
    BY <1>1
<1> QED
    BY <1>2, <1>3, FS_Subset DEF Decisions

(* The question about the part that is split off was asked before.          *)
LEMMA SplitAsks ==
    ASSUME NEW oms, Oms(oms), NEW id \in DOMAIN oms, NEW part \in oms[id].category.parts,
           NEW split, split \notin DOMAIN oms, NEW new, SplitFrom(oms, id, part, split, new),
           NEW ids, ids \subseteq DOMAIN oms, \A i \in ids : oms[i].recoverable,
           NEW kept, kept \subseteq ids \cup {split}, split \in kept => id \in ids
    PROVE  Decisions(new, kept) <= Decisions(oms, ids)
<1> DEFINE old == Questions(oms, ids)
           now == Questions(new, kept)
           f == [x \in now |-> IF x[1] = split THEN <<id, part>> ELSE x]
<1>1. id # split /\ part \in Parts
    <2>1. oms[id].category \in Categories
        BY OmissionIs DEF Oms
    <2> QED
        BY <2>1, CategoryIs
<1>2. ASSUME id \in ids
      PROVE  /\ Asked(oms[id]) = Covered(oms[id]) /\ part \in Covered(oms[id])
             /\ Asked(new[id]) = Covered(oms[id]) \ {part} /\ Asked(new[split]) = {part}
    <2>1. /\ oms[id].recoverable /\ new[id].recoverable = oms[id].recoverable
          /\ new[split].recoverable = oms[id].recoverable
        BY <1>2, KindOfDetails DEF SplitFrom
    <2>2. Covered(new[id]) # {}
        BY DEF SplitFrom
    <2> QED
        BY <2>1, <2>2 DEF SplitFrom, Asked, IsActionable, Covered
<1>3. \A x \in now : x[1] = split => x = <<split, part>> /\ id \in ids
    BY <1>2, QuestionIs
<1>4. \A x \in now : x[1] # split => x \in old
    <2> SUFFICES ASSUME NEW x \in now, x[1] # split PROVE x \in old
        OBVIOUS
    <2>1. x[1] \in ids /\ x[2] \in Asked(new[x[1]])
        BY QuestionIs
    <2>2. x[2] \in Asked(oms[x[1]])
        BY <1>2, <2>1 DEF SplitFrom
    <2> QED
        BY <2>1, <2>2, QuestionIs
<1>5. \A x \in now : x[1] # split => x # <<id, part>>
    BY <1>1, <1>2, QuestionIs
<1>6. id \in ids => <<id, part>> \in old
    BY <1>1, <1>2, QuestionIs
<1>7. IsFiniteSet(old)
    BY QuestionsFinite DEF Oms
<1> HIDE DEF old, now
<1>8. f \in [now -> old]
    BY <1>3, <1>4, <1>6
<1>9. \A x, y \in now : f[x] = f[y] => x = y
    BY <1>3, <1>5
<1>10. Cardinality(now) <= Cardinality(old)
    BY <1>7, <1>8, <1>9, FewerBy
<1> QED
    BY <1>10 DEF Decisions, now, old

(* What the holder is asked after it took the parts over, it or the merged  *)
(* omission was asked before.                                               *)
LEMMA MergedAsks ==
    ASSUME NEW oms, Oms(oms), NEW id \in DOMAIN oms, NEW new, NEW h, MergedInto(oms, id, new, h),
           NEW ids, ids \subseteq DOMAIN oms,
           NEW kept, kept \subseteq ids \ {id}, h \in kept => id \in ids
    PROVE  Decisions(new, kept) <= Decisions(oms, ids)
<1> DEFINE old == Questions(oms, ids)
           now == Questions(new, kept)
           f == [x \in now |-> IF x \in old THEN x ELSE <<id, x[2]>>]
<1>1. Asked(new[h]) \subseteq Asked(oms[h]) \cup Asked(oms[id])
    <2>1. new[h].recoverable = oms[h].recoverable /\ oms[h].recoverable = oms[id].recoverable
        BY KindOfDetails, HolderIs DEF MergedInto
    <2> QED
        BY <2>1 DEF MergedInto, Asked, IsActionable, Covered
<1>2. kept \subseteq DOMAIN new
    BY DEF MergedInto
<1>3. \A x \in now : x \notin old => <<id, x[2]>> \in old
    <2> SUFFICES ASSUME NEW x \in now, x \notin old PROVE <<id, x[2]>> \in old
        OBVIOUS
    <2>1. /\ x = <<x[1], x[2]>> /\ x[1] \in kept /\ x[2] \in Parts \cup {NoPart}
          /\ x[2] \in Asked(new[x[1]])
        BY QuestionIs
    <2>2. x[2] \notin Asked(oms[x[1]])
        BY <2>1, QuestionIs
    <2>3. x[1] = h
        BY <1>2, <2>1, <2>2 DEF MergedInto
    <2>4. x[2] \in Asked(oms[id]) /\ id \in ids
        BY <1>1, <2>1, <2>2, <2>3
    <2> QED
        BY <2>1, <2>4, QuestionIs
<1>4. \A x \in now : x = <<x[1], x[2]>> /\ x[1] # id /\ (x \notin old => x[1] = h)
    <2> SUFFICES ASSUME NEW x \in now
                 PROVE  x = <<x[1], x[2]>> /\ x[1] # id /\ (x \notin old => x[1] = h)
        OBVIOUS
    <2>1. /\ x = <<x[1], x[2]>> /\ x[1] \in kept /\ x[2] \in Parts \cup {NoPart}
          /\ x[2] \in Asked(new[x[1]])
        BY QuestionIs
    <2>2. x \notin old => x[2] \notin Asked(oms[x[1]])
        BY <2>1, QuestionIs
    <2> QED
        BY <1>2, <2>1, <2>2 DEF MergedInto
<1>5. IsFiniteSet(old)
    BY QuestionsFinite DEF Oms
<1> HIDE DEF old, now
<1>6. f \in [now -> old]
    BY <1>3
<1>7. \A x, y \in now : f[x] = f[y] => x = y
    <2> SUFFICES ASSUME NEW x \in now, NEW y \in now, f[x] = f[y] PROVE x = y
        OBVIOUS
    <2>1. /\ f[x] = IF x \in old THEN x ELSE <<id, x[2]>>
          /\ f[y] = IF y \in old THEN y ELSE <<id, y[2]>>
        OBVIOUS
    <2> HIDE DEF f
    <2>2. /\ x = <<x[1], x[2]>> /\ x[1] # id /\ (x \notin old => x[1] = h)
          /\ y = <<y[1], y[2]>> /\ y[1] # id /\ (y \notin old => y[1] = h)
        BY <1>4, Zenon
    <2>3. CASE x \in old /\ y \in old
        BY <2>1, <2>3
    <2>4. CASE x \in old /\ y \notin old
        <3>1. x = <<id, y[2]>>
            BY <2>1, <2>4
        <3> QED
            BY <2>2, <3>1
    <2>5. CASE x \notin old /\ y \in old
        <3>1. y = <<id, x[2]>>
            BY <2>1, <2>5
        <3> QED
            BY <2>2, <3>1
    <2>6. CASE x \notin old /\ y \notin old
        <3>1. <<id, x[2]>> = <<id, y[2]>>
            BY <2>1, <2>6
        <3>2. x[2] = y[2]
            BY <3>1
        <3>3. x[1] = y[1]
            BY <2>2, <2>6
        <3> QED
            BY <2>2, <3>2, <3>3
    <2> QED
        BY <2>3, <2>4, <2>5, <2>6
<1>8. Cardinality(now) <= Cardinality(old)
    BY <1>5, <1>6, <1>7, FewerBy
<1> QED
    BY <1>8 DEF Decisions, now, old

Actionable(oms) == {i \in DOMAIN oms : IsActionable(oms[i])}
Waiting(oms) == {i \in DOMAIN oms : IsPending(oms[i])}
Fewer(old, new) ==
    /\ TotalDecisions(new) <= TotalDecisions(old)
    /\ PendingDecisions(new) <= PendingDecisions(old)

LEMMA FewerMeans ==
    ASSUME NEW oms, NEW new
    PROVE  Fewer(oms, new) <=>
               /\ Decisions(new, Actionable(new)) <= Decisions(oms, Actionable(oms))
               /\ Decisions(new, Waiting(new)) <= Decisions(oms, Waiting(oms))
BY DEF Fewer, TotalDecisions, PendingDecisions, Actionable, Waiting

LEMMA AskedIds ==
    ASSUME NEW oms
    PROVE  /\ Actionable(oms) \subseteq DOMAIN oms /\ Waiting(oms) \subseteq Actionable(oms)
           /\ \A i \in Actionable(oms) : oms[i].recoverable
           /\ \A i \in Waiting(oms) : oms[i].status = "Pending"
BY DEF Actionable, Waiting, IsActionable, IsPending

LEMMA FewerSteps ==
    ASSUME NEW a, NEW b, NEW c, Oms(a), Oms(b), Oms(c), Fewer(a, b), Fewer(b, c)
    PROVE  Fewer(a, c)
<1>1. \A oms \in {a, b, c} : TotalDecisions(oms) \in Nat /\ PendingDecisions(oms) \in Nat
    BY QuestionsFinite DEF Oms, TotalDecisions, PendingDecisions
<1> QED
    BY <1>1 DEF Fewer

(* Omissions that cover what they covered and wait only if they waited.     *)
LEMMA SameFewer ==
    ASSUME NEW oms, Oms(oms), NEW new, DOMAIN new \subseteq DOMAIN oms,
           \A i \in DOMAIN new : /\ Details(new[i]) = Details(oms[i])
                                 /\ Covered(new[i]) = Covered(oms[i])
                                 /\ new[i].status = "Pending" => oms[i].status = "Pending"
    PROVE  Fewer(oms, new)
<1>1. \A i \in DOMAIN new : new[i].recoverable = oms[i].recoverable
    BY KindOfDetails
<1>2. \A i \in DOMAIN new : Asked(new[i]) = Asked(oms[i])
    BY <1>1 DEF Asked, IsActionable, Covered
<1>3. Actionable(new) \subseteq Actionable(oms)
    BY <1>1 DEF Actionable, IsActionable
<1>4. Waiting(new) \subseteq Waiting(oms)
    BY <1>1 DEF Waiting, IsPending
<1>5. /\ Actionable(oms) \subseteq Ids /\ Waiting(oms) \subseteq Ids
      /\ Actionable(new) \subseteq DOMAIN new /\ Waiting(new) \subseteq DOMAIN new
    BY AskedIds DEF Oms
<1>6. Decisions(new, Actionable(new)) <= Decisions(oms, Actionable(oms))
    BY <1>2, <1>3, <1>5, SameAsks
<1>7. Decisions(new, Waiting(new)) <= Decisions(oms, Waiting(oms))
    BY <1>2, <1>4, <1>5, SameAsks
<1> QED
    BY <1>6, <1>7, FewerMeans

LEMMA SplitFewer ==
    ASSUME NEW oms, Oms(oms), NEW id \in DOMAIN oms, NEW part \in oms[id].category.parts,
           NEW split, split \notin DOMAIN oms, NEW new, SplitFrom(oms, id, part, split, new)
    PROVE  Fewer(oms, new)
<1>1. /\ new[id].recoverable = oms[id].recoverable /\ new[split].recoverable = oms[id].recoverable
      /\ new[id].status = oms[id].status /\ new[split].status = oms[id].status
    BY KindOfDetails DEF SplitFrom
<1>2. DOMAIN new = DOMAIN oms \cup {split} /\ \A i \in DOMAIN oms \ {id} : new[i] = oms[i]
    BY DEF SplitFrom
<1>3. Actionable(new) \subseteq Actionable(oms) \cup {split}
    BY <1>1, <1>2 DEF Actionable, IsActionable
<1>4. split \in Actionable(new) => id \in Actionable(oms)
    BY <1>1 DEF Actionable, IsActionable
<1>5. Waiting(new) \subseteq Waiting(oms) \cup {split}
    BY <1>1, <1>2 DEF Waiting, IsPending
<1>6. split \in Waiting(new) => id \in Waiting(oms)
    BY <1>1 DEF Waiting, IsPending
<1>7. /\ Actionable(oms) \subseteq DOMAIN oms /\ Waiting(oms) \subseteq DOMAIN oms
      /\ \A i \in Actionable(oms) : oms[i].recoverable
      /\ \A i \in Waiting(oms) : oms[i].recoverable
    BY AskedIds
<1>8. Decisions(new, Actionable(new)) <= Decisions(oms, Actionable(oms))
    BY <1>3, <1>4, <1>7, SplitAsks
<1>9. Decisions(new, Waiting(new)) <= Decisions(oms, Waiting(oms))
    BY <1>5, <1>6, <1>7, SplitAsks
<1> QED
    BY <1>8, <1>9, FewerMeans

LEMMA MergedFewer ==
    ASSUME NEW oms, Oms(oms), NEW id \in DOMAIN oms, NEW new, NEW h, MergedInto(oms, id, new, h)
    PROVE  Fewer(oms, new)
<1>1. /\ h \in DOMAIN oms /\ h # id /\ new[h].recoverable = oms[h].recoverable
      /\ oms[h].recoverable = oms[id].recoverable /\ new[h].status = oms[h].status
      /\ oms[h].status # "Pending"
    BY KindOfDetails, HolderIs DEF MergedInto
<1>2. DOMAIN new = DOMAIN oms \ {id} /\ \A i \in DOMAIN new \ {h} : new[i] = oms[i]
    BY DEF MergedInto
<1>3. Actionable(new) \subseteq Actionable(oms) \ {id}
    BY <1>1, <1>2 DEF Actionable, IsActionable
<1>4. h \in Actionable(new) => id \in Actionable(oms)
    BY <1>1 DEF Actionable, IsActionable
<1>5. Waiting(new) \subseteq Waiting(oms) \ {id} /\ h \notin Waiting(new)
    BY <1>1, <1>2 DEF Waiting, IsPending
<1>6. Actionable(oms) \subseteq DOMAIN oms /\ Waiting(oms) \subseteq DOMAIN oms
    BY AskedIds
<1>7. Decisions(new, Actionable(new)) <= Decisions(oms, Actionable(oms))
    BY <1>3, <1>4, <1>6, MergedAsks
<1>8. Decisions(new, Waiting(new)) <= Decisions(oms, Waiting(oms))
    BY <1>5, <1>6, MergedAsks
<1> QED
    BY <1>7, <1>8, FewerMeans

LEMMA SetStatusFewer ==
    ASSUME NEW oms, Oms(oms), NEW id \in DOMAIN oms, NEW s \in FormValues,
           NEW new, new = SetOmissionStatus(oms, id, s)
    PROVE  Oms(new) /\ Fewer(oms, new)
<1>1. s \in Statuses /\ s # "Pending"
    BY DEF FormValues, Statuses
<1>2. PICK mid : mid = Put(oms, id, [oms[id] EXCEPT !.status = s])
    OBVIOUS
<1>3. /\ Oms(mid) /\ DOMAIN mid = DOMAIN oms
      /\ mid[id].status = s /\ Details(mid[id]) = Details(oms[id])
      /\ mid[id].category = oms[id].category
      /\ \A i \in DOMAIN oms \ {id} : mid[i] = oms[i]
      /\ new = mid \/ \E h \in DOMAIN mid : MergedInto(mid, id, new, h)
      /\ Oms(new)
    BY <1>1, <1>2, SetStatusIs
<1>4. Fewer(oms, mid)
    <2>1. \A i \in DOMAIN mid : /\ Details(mid[i]) = Details(oms[i])
                                /\ Covered(mid[i]) = Covered(oms[i])
                                /\ mid[i].status = "Pending" => oms[i].status = "Pending"
        BY <1>1, <1>3 DEF Covered
    <2> QED
        BY <1>3, <2>1, SameFewer
<1>5. CASE new = mid
    BY <1>3, <1>4, <1>5
<1>6. CASE \E h \in DOMAIN mid : MergedInto(mid, id, new, h)
    <2>1. Fewer(mid, new)
        BY <1>3, <1>6, MergedFewer
    <2> QED
        BY <1>3, <1>4, <2>1, FewerSteps
<1> QED
    BY <1>3, <1>5, <1>6

LEMMA PartFewer ==
    ASSUME NEW oms, Oms(oms), NEW id \in DOMAIN oms, NEW part \in oms[id].category.parts,
           NEW s \in FormValues, NEW split \in Ids, split \notin DOMAIN oms,
           NEW new, PartRecorded(oms, id, part, s, split, new)
    PROVE  Fewer(oms, new)
<1>1. PICK base, at : /\ new = SetOmissionStatus(base, at, s)
                      /\ \/ base = oms /\ at = id /\ oms[id].category.parts = {part}
                         \/ SplitFrom(oms, id, part, split, base) /\ at = split
    BY DEF PartRecorded
<1>2. CASE base = oms /\ at = id
    BY <1>1, <1>2, SetStatusFewer
<1>3. CASE SplitFrom(oms, id, part, split, base) /\ at = split
    <2>1. Oms(base) /\ split \in DOMAIN base
        BY <1>3 DEF SplitFrom
    <2>2. Fewer(oms, base)
        BY <1>3, SplitFewer
    <2>3. Oms(new) /\ Fewer(base, new)
        BY <1>1, <1>3, <2>1, SetStatusFewer
    <2> QED
        BY <2>1, <2>2, <2>3, FewerSteps
<1> QED
    BY <1>1, <1>2, <1>3

(* A member decides with one of the two answers of the form.                *)
FormInv ==
    \A r \in Requests : req[r].pc # "idle" /\ req[r].op = "assess" => req[r].status \in FormValues
(* What one request becomes: idle, or a request with the form it had.       *)
KeepsForm(x, n) == n.pc = "idle" \/ (x.pc # "idle" /\ n.op = x.op /\ n.status = x.status)

LEMMA FormKeeps ==
    ASSUME TypeOK, FormInv, \A q \in Requests : req'[q] = req[q] \/ KeepsForm(req[q], req'[q])
    PROVE  FormInv'
BY DEF FormInv, KeepsForm

LEMMA AppliedForm ==
    ASSUME TypeOK, FormInv, NEW r \in Requests, NEW oms, NEW data, NEW x, Apply(r, oms, data, x),
           KeepsForm(req[r], x)
    PROVE  FormInv'
<1>1. ASSUME NEW q \in Requests, q # r
      PROVE  KeepsForm(req[q], req'[q])
    <2>1. req[q] \in ReqRecords
        BY DEF TypeOK
    <2>2. req'[q] = [req[q] EXCEPT !.clean = @ /\ req[q].pc = "idle"]
        BY <1>1 DEF Apply
    <2>3. /\ req'[q].pc = req[q].pc /\ req'[q].op = req[q].op /\ req'[q].status = req[q].status
        BY <2>1, <2>2 DEF ReqRecords
    <2> QED
        BY <2>3 DEF KeepsForm
<1>2. KeepsForm(req[r], req'[r])
    BY DEF Apply
<1> QED
    BY <1>1, <1>2, FormKeeps

LEMMA SteppedForm ==
    ASSUME TypeOK, FormInv, NEW r \in Requests, NEW x, Step(r, x),
           KeepsForm(req[r], x) \/ (x.op = "assess" => x.status \in FormValues)
    PROVE  FormInv'
<1>1. req' = [req EXCEPT ![r] = x] /\ req \in [Requests -> ReqRecords]
    BY DEF Step, TypeOK
<1>2. req'[r] = x /\ \A q \in Requests \ {r} : req'[q] = req[q]
    BY <1>1
<1> QED
    BY <1>2 DEF FormInv, KeepsForm

LEMMA FormStep == ASSUME TypeOK, FormInv, [Next]_vars PROVE FormInv'
<1>1. CASE UNCHANGED vars
    BY <1>1 DEF vars, FormInv
<1>2. ASSUME NEW r \in Requests, MemberStep(r) PROVE FormInv'
    <2>1. \A x : KeepsForm(x, NoRequest)
        BY DEF KeepsForm, NoRequest
    <2>2. ASSUME NEW pc \in PCs, req[r].pc # "idle"
          PROVE  KeepsForm(req[r], [req[r] EXCEPT !.pc = pc])
        <3>1. req[r] \in ReqRecords
            BY DEF TypeOK
        <3> QED
            BY <2>2, <3>1, WithPc DEF KeepsForm
    <2>3. CASE \E id \in 1 .. scene.ids, c \in scene.reports, t \in Texts, rec \in BOOLEAN :
                   AddOmission(r, id, c, t, rec)
        BY <2>1, <2>3, AppliedForm DEF AddOmission
    <2>4. CASE \E lists \in scene.papers, blank \in BOOLEAN :
                   PaperCorrect(r, [blank |-> blank, lists |-> lists])
        BY <2>1, <2>4, AppliedForm DEF PaperCorrect
    <2>5. CASE \E id \in DOMAIN omissions, s \in FormValues :
               \E p \in Controls(omissions[id].category) : Open(r, id, "assess", p, s)
        BY <2>5, SteppedForm DEF Open
    <2>6. CASE \E id \in DOMAIN omissions : Open(r, id, "delete", NoPart, "Pending")
        BY <2>6, SteppedForm DEF Open
    <2>7. CASE Refuse(r) \/ Answer(r)
        BY <2>1, <2>7, SteppedForm DEF Refuse, Answer
    <2>8. CASE SpellOut(r)
        <3>1. req[r].pc # "idle" /\ "spelled" \in PCs
            BY <2>8 DEF SpellOut, PCs
        <3> QED
            BY <2>2, <2>8, <3>1, AppliedForm DEF SpellOut
    <2>9. CASE RecordWhole(r) \/ \E split \in 1 .. scene.ids : RecordPart(r, split)
        <3>1. req[r].pc # "idle" /\ "recorded" \in PCs
            BY <2>9 DEF RecordWhole, RecordPart, ReadyToRecord, PCs
        <3> QED
            BY <2>2, <2>9, <3>1, AppliedForm DEF RecordWhole, RecordPart
    <2>10. CASE DeleteOmission(r)
        BY <2>1, <2>10, AppliedForm DEF DeleteOmission
    <2> QED
        BY <1>2, <2>3, <2>4, <2>5, <2>6, <2>7, <2>8, <2>9, <2>10 DEF MemberStep
<1> QED
    BY <1>1, <1>2 DEF Next

LEMMA FormHolds == Spec => []FormInv
<1>1. Init => FormInv
    BY NoRequestIs DEF Init, FormInv
<1> QED
    BY <1>1, FormStep, TypeCorrect, PTL DEF Spec

LEMMA AssessmentFewer ==
    ASSUME OmissionsInv, FormInv, NoRace, NEW r \in Requests, Assesses(r)
    PROVE  Fewer(omissions, omissions')
<1>1. PICK y, old : y = req[r] /\ old = omissions
    OBVIOUS
<1>2. Oms(old) /\ DOMAIN old \subseteq issued
    BY <1>1, TypeIs
<1>3. Fewer(old, old)
    BY <1>2, SameFewer
<1>4. CASE SpellOut(r)
    <2>1. PICK o : o = [y.copy EXCEPT !.category.parts = Districts]
        OBVIOUS
    <2>2. PICK new : new = UpdateOmission(old, y.id, o)
        OBVIOUS
    <2>3. y.pc = "open" /\ NeedsSpelling(y) /\ omissions' = new
        BY <1>1, <1>4, <2>1, <2>2 DEF SpellOut, Apply
    <2>4. y.id \in DOMAIN old /\ old[y.id] = y.copy
        BY <1>1, <2>3, SpellingIsFresh
    <2>5. /\ y.copy \in OmissionRecords /\ y.copy.category.kind = "support"
          /\ y.copy.category.parts = {}
        BY <1>2, <2>3, <2>4 DEF NeedsSpelling, Oms
    <2>6. o.status = y.copy.status /\ Details(o) = Details(y.copy) /\ Covered(o) = Covered(y.copy)
        BY <2>1, <2>5, SpelledOutIs
    <2>7. /\ DOMAIN new = DOMAIN old /\ new[y.id] = o
          /\ \A i \in DOMAIN old \ {y.id} : new[i] = old[i]
        BY <2>2, <2>4 DEF UpdateOmission, Put
    <2>8. \A i \in DOMAIN new : /\ Details(new[i]) = Details(old[i])
                                /\ Covered(new[i]) = Covered(old[i])
                                /\ new[i].status = "Pending" => old[i].status = "Pending"
        BY <2>4, <2>6, <2>7
    <2>9. Fewer(old, new)
        BY <1>2, <2>7, <2>8, SameFewer
    <2> QED
        BY <1>1, <2>3, <2>9
<1>5. ASSUME ReadyToRecord(r) PROVE y.status \in FormValues
    BY <1>1, <1>5 DEF ReadyToRecord, FormInv
<1>6. CASE RecordWhole(r)
    <2>1. PICK new : new = SetOmissionStatus(old, y.id, y.status)
        OBVIOUS
    <2>2. y.status \in FormValues /\ omissions' = new
        BY <1>1, <1>5, <1>6, <2>1 DEF RecordWhole, Apply
    <2>3. y.id \notin DOMAIN old => new = old
        BY <2>1 DEF SetOmissionStatus
    <2>4. Fewer(old, new)
        BY <1>2, <1>3, <2>1, <2>2, <2>3, SetStatusFewer
    <2> QED
        BY <1>1, <2>2, <2>4
<1>7. CASE \E split \in Ids : RecordPart(r, split)
    <2>1. PICK split \in Ids : RecordPart(r, split)
        BY <1>7
    <2>2. PICK new : new = SetOmissionPartStatus(old, y.id, y.part, y.status, split)
        OBVIOUS
    <2>3. /\ ReadyToRecord(r) /\ omissions' = new /\ split \notin DOMAIN old
        BY <1>1, <1>2, <2>1, <2>2 DEF RecordPart, Apply
    <2>4. y.status \in FormValues
        BY <1>5, <2>3
    <2>5. \/ new = old
          \/ /\ y.id \in DOMAIN old /\ y.part \in old[y.id].category.parts
             /\ PartRecorded(old, y.id, y.part, y.status, split, new)
        BY <1>2, <2>2, <2>3, PartIs
    <2>6. Fewer(old, new)
        BY <1>2, <1>3, <2>3, <2>4, <2>5, PartFewer
    <2> QED
        BY <1>1, <2>3, <2>6
<1> QED
    BY <1>4, <1>6, <1>7 DEF Assesses

(* Recording a decision asks for no decision that was not asked for before, *)
(* when NoRace holds: neither the total of the recovery progress nor what   *)
(* is pending of it grows (decision_count).                                 *)
THEOREM ProgressHolds == ASSUME NoRace PROVE Spec => ProgressNeverGrows
<1> DEFINE Kept == (\E r \in Requests : Assesses(r)) =>
               /\ TotalDecisions(omissions') <= TotalDecisions(omissions)
               /\ PendingDecisions(omissions') <= PendingDecisions(omissions)
<1>1. ASSUME OmissionsInv, FormInv PROVE Kept
    BY <1>1, AssessmentFewer DEF Fewer
<1>2. OmissionsInv /\ FormInv => [Kept]_vars
    BY <1>1
<1>3. ProgressNeverGrows <=> [][Kept]_vars
    BY DEF ProgressNeverGrows
<1> QED
    BY <1>2, <1>3, OmissionsHold, FormHolds, PTL

=============================================================================
