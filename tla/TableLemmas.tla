---------------------------- MODULE TableLemmas ----------------------------
(***************************************************************************)
(* Facts about tables of rows, as the sequences the modules model them by  *)
(* (the id of a row is its place), and about counting ids against a cap.   *)
(***************************************************************************)
EXTENDS Integers, Sequences, FiniteSets, FiniteSetTheorems, SequenceTheorems, TLAPS

\* Replacing a row by a row keeps a table a table of the same length.
LEMMA ReplaceRow ==
    ASSUME NEW Row, NEW T \in Seq(Row), NEW i \in DOMAIN T, NEW row \in Row
    PROVE  /\ [T EXCEPT ![i] = row] \in Seq(Row)
           /\ DOMAIN [T EXCEPT ![i] = row] = DOMAIN T
           /\ [T EXCEPT ![i] = row][i] = row
           /\ \A j \in DOMAIN T : j # i => [T EXCEPT ![i] = row][j] = T[j]
  BY ExceptSeq, LenProperties

\* Appending a row keeps every row and adds one id.
LEMMA AppendRow ==
    ASSUME NEW Row, NEW T \in Seq(Row), NEW row \in Row
    PROVE  /\ Append(T, row) \in Seq(Row)
           /\ DOMAIN Append(T, row) = DOMAIN T \cup {Len(T) + 1}
           /\ Len(T) + 1 \notin DOMAIN T
           /\ Append(T, row)[Len(T) + 1] = row
           /\ \A j \in DOMAIN T : Append(T, row)[j] = T[j]
  BY AppendProperties, LenProperties

\* Some ids of a table are finitely many.
LEMMA RowsAreFinite ==
    ASSUME NEW Row, NEW T \in Seq(Row), NEW Ids \in SUBSET DOMAIN T
    PROVE  IsFiniteSet(Ids) /\ Cardinality(Ids) \in Nat
<1>1. IsFiniteSet(1 .. Len(T))
  BY FS_Interval, LenProperties
<1>2. QED
  BY <1>1, FS_Subset, FS_CardinalityType, LenProperties

\* One more id takes a count that is below a cap no further than the cap.
LEMMA CountOneMore ==
    ASSUME NEW A, IsFiniteSet(A), NEW x, NEW B \in SUBSET (A \cup {x}),
           NEW cap \in Nat, Cardinality(A) < cap
    PROVE  Cardinality(B) <= cap
<1>1. /\ IsFiniteSet(A \cup {x})
      /\ Cardinality(A \cup {x}) \in {Cardinality(A), Cardinality(A) + 1}
  BY FS_AddElement
<1>2. /\ Cardinality(B) \in Nat
      /\ Cardinality(A) \in Nat
      /\ Cardinality(B) <= Cardinality(A \cup {x})
  BY <1>1, FS_Subset, FS_CardinalityType
<1>3. QED
  BY <1>1, <1>2

\* Fewer ids keep a count within a cap.
LEMMA CountNoMore ==
    ASSUME NEW A, IsFiniteSet(A), NEW B \in SUBSET A,
           NEW cap \in Nat, Cardinality(A) <= cap
    PROVE  Cardinality(B) <= cap
<1>1. /\ Cardinality(A) \in Nat
      /\ Cardinality(B) \in Nat
      /\ Cardinality(B) <= Cardinality(A)
  BY FS_Subset, FS_CardinalityType
<1>2. QED
  BY <1>1

\* Two counts with one bound on their sum: fewer of both keep it.
LEMMA SumNoMore ==
    ASSUME NEW A, NEW B, IsFiniteSet(A), IsFiniteSet(B),
           NEW C \in SUBSET A, NEW D \in SUBSET B
    PROVE  /\ Cardinality(A) \in Nat /\ Cardinality(B) \in Nat
           /\ Cardinality(C) \in Nat /\ Cardinality(D) \in Nat
           /\ Cardinality(C) + Cardinality(D) <= Cardinality(A) + Cardinality(B)
<1>1. /\ Cardinality(A) \in Nat /\ Cardinality(C) \in Nat
      /\ Cardinality(C) <= Cardinality(A)
  BY FS_Subset, FS_CardinalityType
<1>2. /\ Cardinality(B) \in Nat /\ Cardinality(D) \in Nat
      /\ Cardinality(D) <= Cardinality(B)
  BY FS_Subset, FS_CardinalityType
<1>3. QED
  BY <1>1, <1>2

\* ... and so does one element that passes from the second to the first.
LEMMA SumOfPassing ==
    ASSUME NEW A, NEW B, IsFiniteSet(A), IsFiniteSet(B), NEW x, NEW b \in B,
           NEW C \in SUBSET (A \cup {x}), NEW D \in SUBSET (B \ {b})
    PROVE  /\ Cardinality(A) \in Nat /\ Cardinality(B) \in Nat
           /\ Cardinality(C) \in Nat /\ Cardinality(D) \in Nat
           /\ Cardinality(C) + Cardinality(D) <= Cardinality(A) + Cardinality(B)
<1>1. /\ IsFiniteSet(A \cup {x}) /\ Cardinality(A) \in Nat
      /\ Cardinality(A \cup {x}) \in {Cardinality(A), Cardinality(A) + 1}
  BY FS_AddElement, FS_CardinalityType
<1>2. /\ IsFiniteSet(B \ {b}) /\ Cardinality(B) \in Nat
      /\ Cardinality(B \ {b}) = Cardinality(B) - 1
  BY FS_RemoveElement, FS_CardinalityType
<1>3. /\ Cardinality(C) \in Nat /\ Cardinality(D) \in Nat
      /\ Cardinality(C) + Cardinality(D)
           <= Cardinality(A \cup {x}) + Cardinality(B \ {b})
  BY <1>1, <1>2, SumNoMore
<1>4. QED
  BY <1>1, <1>2, <1>3
=============================================================================
