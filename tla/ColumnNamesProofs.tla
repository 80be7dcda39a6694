------------------------- MODULE ColumnNamesProofs -------------------------
(***************************************************************************)
(* The names of columns, for every list of fields of any length.           *)
(***************************************************************************)
EXTENDS ColumnNames, TLAPS

\* The column has the name that the second loop gave it.
Generated(k) == k < i /\ columns[k].alias = Blank

\* The names in use are the aliases and the names that were given.
NamesInUse ==
  \A k \in DOMAIN columns :
     k < i \/ columns[k].alias # Blank => columnNames[k] \in DOMAIN names

\* A name that was given is no other column's.
GivenOnce ==
  \A j, k \in DOMAIN columns :
     /\ Generated(j) /\ j # k
     /\ k < i \/ columns[k].alias # Blank
     => columnNames[j] # columnNames[k]

\* Aliases stay, and the columns from i on are as the first loop left them.
AliasesStay ==
  \A k \in DOMAIN columns :
     k >= i \/ columns[k].alias # Blank => columnNames[k] = columns[k].alias

NamingTypeOK ==
  /\ columns \in Seq(Column)
  /\ columnNames = [k \in DOMAIN columns |-> columnNames[k]]
  /\ names \in [DOMAIN names -> Nat]
  /\ i \in 1 .. Len(columns) + 1 /\ count \in Nat
  /\ naming \in {"returned", "naming", "numbering"}

\* A name is looked for only for a column without an alias.
AtUnnamed ==
  /\ naming = "numbering" => i <= Len(columns) /\ columns[i].alias = Blank
  /\ naming = "returned" => i = Len(columns) + 1

NamingInv == NamingTypeOK /\ AtUnnamed /\ NamesInUse /\ GivenOnce /\ AliasesStay

LEMMA InitNaming == NamingInit => NamingInv
BY DEF NamingInit, NamingInv, NamingTypeOK, AtUnnamed, NamesInUse, GivenOnce, AliasesStay, Generated

\* The column in hand gets a name that is not in use.
LEMMA GiveKeeps ==
  ASSUME NamingInv, NEW name, NEW map,
         map \in [DOMAIN map -> Nat],
         DOMAIN names \subseteq DOMAIN map, DOMAIN map \subseteq DOMAIN names \cup {name, columns[i].name},
         naming # "returned", i <= Len(columns), columns[i].alias = Blank,
         name \notin DOMAIN names, Give(name, map)
  PROVE  NamingInv'
<1> USE DEF NamingInv
<1>1. i \in Nat /\ i \in DOMAIN columns /\ DOMAIN columns = 1 .. Len(columns) /\ Len(columns) \in Nat
  BY DEF NamingTypeOK
<1>2. /\ columns' = columns /\ i' = i + 1 /\ count' = count /\ naming' = "naming"
      /\ columnNames' = [columnNames EXCEPT ![i] = name]
      /\ DOMAIN names' = DOMAIN map \cup {name}
  BY DEF Give
<1>3. columnNames'[i] = name /\ \A k \in DOMAIN columns : k # i => columnNames'[k] = columnNames[k]
  BY <1>1, <1>2 DEF NamingTypeOK
<1>4. \A k \in DOMAIN columns : (k < i') => (k < i \/ k = i)
  BY <1>1, <1>2
<1>5. NamingTypeOK'
  <2>1. names' \in [DOMAIN names' -> Nat]
    BY DEF Give
  <2>2. columnNames' = [k \in DOMAIN columns' |-> columnNames'[k]]
    BY <1>1, <1>2 DEF NamingTypeOK
  <2> QED
    BY <1>1, <1>2, <2>1, <2>2 DEF NamingTypeOK
<1>6. AtUnnamed'
  BY <1>2 DEF AtUnnamed
<1>7. NamesInUse'
  BY <1>1, <1>2, <1>3, <1>4 DEF NamesInUse
<1>8. GivenOnce'
  <2> SUFFICES ASSUME NEW j \in DOMAIN columns, NEW k \in DOMAIN columns,
                      j < i', columns[j].alias = Blank, j # k,
                      k < i' \/ columns[k].alias # Blank
               PROVE  columnNames'[j] # columnNames'[k]
    BY <1>2 DEF GivenOnce, Generated
  <2>1. (j < i \/ j = i) /\ (k < i \/ k = i \/ columns[k].alias # Blank)
    BY <1>4
  <2>2. CASE j = i
    <3>1. columnNames[k] \in DOMAIN names
      BY <2>1, <2>2 DEF NamesInUse
    <3> QED
      BY <1>3, <2>2, <3>1
  <2>3. CASE k = i
    <3>1. columnNames[j] \in DOMAIN names
      BY <2>1, <2>3 DEF NamesInUse
    <3> QED
      BY <1>3, <2>3, <3>1
  <2>4. CASE j # i /\ k # i
    BY <1>3, <2>1, <2>4 DEF GivenOnce, Generated
  <2> QED
    BY <2>2, <2>3, <2>4
<1>9. AliasesStay'
  BY <1>1, <1>2, <1>3 DEF AliasesStay
<1> QED
  BY <1>5, <1>6, <1>7, <1>8, <1>9

\* Every step keeps the invariant.
LEMMA NamingStepKeeps == NamingInv /\ [NamingNext]_namingVars => NamingInv'
<1> SUFFICES ASSUME NamingInv, [NamingNext]_namingVars PROVE NamingInv'
  OBVIOUS
<1>1. /\ i \in Nat /\ DOMAIN columns = 1 .. Len(columns) /\ Len(columns) \in Nat
  <2>1. columns \in Seq(Column) /\ i \in Nat
    BY DEF NamingInv, NamingTypeOK
  <2>2. DOMAIN columns = 1 .. Len(columns) /\ Len(columns) \in Nat
    BY <2>1
  <2> QED
    BY <2>1, <2>2
<1>2. ASSUME NEW cs \in Seq(Column), NameColumns(cs) PROVE NamingInv'
  <2>1. /\ columns' = cs /\ i' = 1 /\ count' = 0 /\ naming' = "naming"
        /\ columnNames' = [k \in DOMAIN cs |-> cs[k].alias]
        /\ names' = [n \in Aliases(cs) |-> 1]
    BY <1>2 DEF NameColumns
  <2>2. /\ DOMAIN cs = 1 .. Len(cs) /\ Len(cs) \in Nat
    OBVIOUS
  <2>3. NamingTypeOK'
    BY <2>1, <2>2 DEF NamingTypeOK, Aliases
  <2>4. AtUnnamed'
    BY <2>1 DEF AtUnnamed
  <2>5. NamesInUse'
    BY <2>1, <2>2 DEF NamesInUse, Aliases
  <2>6. GivenOnce'
    BY <2>1, <2>2 DEF GivenOnce, Generated
  <2>7. AliasesStay'
    BY <2>1 DEF AliasesStay
  <2> QED
    BY <2>3, <2>4, <2>5, <2>6, <2>7 DEF NamingInv
<1>3. CASE Skip
  <2>1. /\ columns' = columns /\ columnNames' = columnNames /\ names' = names
        /\ i' = i + 1 /\ count' = count /\ naming' = naming /\ naming = "naming"
        /\ i <= Len(columns) /\ columnNames[i] # Blank
    BY <1>3 DEF Skip
  <2>2. i \in DOMAIN columns /\ columns[i].alias # Blank
    BY <1>1, <2>1 DEF NamingInv, AliasesStay, NamingTypeOK
  <2>3. NamingTypeOK'
    BY <1>1, <2>1 DEF NamingInv, NamingTypeOK
  <2>4. AtUnnamed'
    BY <2>1 DEF AtUnnamed
  <2>5. \A k \in DOMAIN columns : k < i' => k < i \/ k = i
    BY <1>1, <2>1
  <2>6. NamesInUse'
    BY <2>1, <2>2, <2>5 DEF NamingInv, NamesInUse
  <2>7. GivenOnce'
    BY <2>1, <2>2, <2>5 DEF NamingInv, GivenOnce, Generated
  <2>8. AliasesStay'
    BY <1>1, <2>1 DEF NamingInv, AliasesStay
  <2> QED
    BY <2>3, <2>4, <2>6, <2>7, <2>8 DEF NamingInv
<1>4. CASE NameFree
  <2>1. i \in DOMAIN columns /\ columns[i].alias = Blank
    BY <1>1, <1>4 DEF NameFree, Unnamed, NamingInv, AliasesStay, NamingTypeOK
  <2>2. names \in [DOMAIN names -> Nat]
    BY DEF NamingInv, NamingTypeOK
  <2> QED
    BY <1>1, <1>4, <2>1, <2>2, GiveKeeps DEF NameFree, Unnamed
<1>5. CASE NameTaken
  <2>1. /\ columns' = columns /\ columnNames' = columnNames /\ names' = names /\ i' = i
        /\ naming' = "numbering" /\ count' = names[columns[i].name]
        /\ columns[i].name \in DOMAIN names /\ i <= Len(columns) /\ columnNames[i] = Blank
    BY <1>5 DEF NameTaken, Unnamed
  <2>2. i \in DOMAIN columns /\ columns[i].alias = Blank
    BY <1>1, <2>1 DEF NamingInv, AliasesStay, NamingTypeOK
  <2>3. NamingTypeOK'
    BY <2>1 DEF NamingInv, NamingTypeOK
  <2>4. AtUnnamed'
    BY <2>1, <2>2 DEF AtUnnamed
  <2> QED
    BY <2>1, <2>3, <2>4 DEF NamingInv, NamesInUse, GivenOnce, AliasesStay, Generated
<1>6. CASE Increment
  <2>1. /\ columns' = columns /\ columnNames' = columnNames /\ names' = names /\ i' = i
        /\ naming' = naming /\ count' = count + 1
    BY <1>6 DEF Increment
  <2> QED
    BY <2>1 DEF NamingInv, NamingTypeOK, AtUnnamed, NamesInUse, GivenOnce, AliasesStay, Generated
<1>7. CASE GiveNumbered
  <2> DEFINE map == With(columns[i].name, count + 1)
  <2>1. /\ i \in DOMAIN columns /\ columns[i].alias = Blank /\ i <= Len(columns)
        /\ naming = "numbering" /\ Candidate \notin DOMAIN names /\ Give(Candidate, map)
    BY <1>1, <1>7 DEF GiveNumbered, NamingInv, AtUnnamed, NamingTypeOK
  <2>2. /\ map \in [DOMAIN map -> Nat]
        /\ DOMAIN map = DOMAIN names \cup {columns[i].name}
    BY <1>1, <2>1 DEF With, NamingInv, NamingTypeOK
  <2> HIDE DEF map
  <2> QED
    BY <2>1, <2>2, GiveKeeps
<1>8. CASE Return
  <2>1. /\ columns' = columns /\ columnNames' = columnNames /\ names' = names /\ i' = i
        /\ naming' = "returned" /\ count' = count /\ i > Len(columns)
    BY <1>8 DEF Return
  <2> QED
    BY <1>1, <2>1 DEF NamingInv, NamingTypeOK, AtUnnamed, NamesInUse, GivenOnce, AliasesStay, Generated
<1>9. CASE UNCHANGED namingVars
  BY <1>9 DEF namingVars, NamingInv, NamingTypeOK, AtUnnamed, NamesInUse, GivenOnce, AliasesStay, Generated
<1> QED
  BY <1>2, <1>3, <1>4, <1>5, <1>6, <1>7, <1>8, <1>9 DEF NamingNext, NamingStep

\* No two columns get the same name unless both are aliases of the query,
\* for any fields and any number of calls (ColumnNames): a name that is
\* given is neither an alias nor given before, because both are in the map.
THEOREM DistinctNames == NamingSpec => []NamesAreDistinct
<1>1. NamingInv => NamesAreDistinct
  <2> SUFFICES ASSUME NamingInv, naming = "returned",
                      NEW j \in DOMAIN columns, NEW k \in DOMAIN columns,
                      j # k, columnNames[j] = columnNames[k]
               PROVE  columns[j].alias # Blank /\ columns[k].alias # Blank
    BY DEF NamesAreDistinct
  <2>1. j < i /\ k < i
    BY DEF NamingInv, AtUnnamed, NamingTypeOK
  <2> QED
    BY <2>1 DEF NamingInv, GivenOnce, Generated
<1> QED
  BY <1>1, InitNaming, NamingStepKeeps, PTL DEF NamingSpec
=============================================================================
