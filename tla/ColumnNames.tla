---------------------------- MODULE ColumnNames ----------------------------
(***************************************************************************)
(* SelectStatement.ColumnNames: aliases are taken as they are, the other   *)
(* columns get their own name or, when it is taken, that name with a       *)
(* number.  A column is its alias, blank when it has none, and its name.   *)
(***************************************************************************)
EXTENDS Naturals, Sequences

CONSTANTS
  ColumnName,        \* what columns can be called
  Blank,             \* the empty name
  Numbered(_, _)     \* a name with an underscore and a number

VARIABLES
  columns,       \* the columns of the call
  columnNames,   \* their names so far
  names,         \* a map from the names in use to the next number to try
  i,             \* the column in hand
  count,         \* the number that is tried
  naming         \* what the call is at

namingVars == <<columns, columnNames, names, i, count, naming>>

Column == [alias : ColumnName, name : ColumnName]

NamingInit ==
  /\ columns = <<>> /\ columnNames = <<>>
  /\ names = [n \in {} |-> 0]
  /\ i = 1 /\ count = 0
  /\ naming = "returned"

Aliases(cs) == {cs[k].alias : k \in DOMAIN cs} \ {Blank}

\* A call, up to the end of the loop that resolves the aliases.
NameColumns(cs) ==
  /\ naming = "returned"
  /\ columns' = cs
  /\ columnNames' = [k \in DOMAIN cs |-> cs[k].alias]
  /\ names' = [n \in Aliases(cs) |-> 1]
  /\ i' = 1 /\ count' = 0
  /\ naming' = "naming"

\* The loop that resolves the other names goes on.
Skip ==
  /\ naming = "naming" /\ i <= Len(columns)
  /\ columnNames[i] # Blank
  /\ i' = i + 1
  /\ UNCHANGED <<columns, columnNames, names, count, naming>>

\* The map with the number n of a name.
With(name, n) == [x \in DOMAIN names \cup {name} |-> IF x = name THEN n ELSE names[x]]

\* Mutant: a name that is given is not marked as used.
Give_Unmarked(name, map) ==
  /\ columnNames' = [columnNames EXCEPT ![i] = name]
  /\ names' = map
  /\ i' = i + 1
  /\ naming' = "naming"
  /\ UNCHANGED <<columns, count>>

\* The column in hand gets a name.
Give(name, map) ==
  /\ columnNames' = [columnNames EXCEPT ![i] = name]
  /\ names' = [x \in DOMAIN map \cup {name} |->
                 (IF x \in DOMAIN map THEN map[x] ELSE 0) + (IF x = name THEN 1 ELSE 0)]
  /\ i' = i + 1
  /\ naming' = "naming"
  /\ UNCHANGED <<columns, count>>

Unnamed == naming = "naming" /\ i <= Len(columns) /\ columnNames[i] = Blank

NameFree ==
  /\ Unnamed
  /\ columns[i].name \notin DOMAIN names
  /\ Give(columns[i].name, names)

NameTaken ==
  /\ Unnamed
  /\ columns[i].name \in DOMAIN names
  /\ count' = names[columns[i].name]
  /\ naming' = "numbering"
  /\ UNCHANGED <<columns, columnNames, names, i>>

Candidate == Numbered(columns[i].name, count)

\* The number is in use as well.
Increment ==
  /\ naming = "numbering"
  /\ Candidate \in DOMAIN names
  /\ count' = count + 1
  /\ UNCHANGED <<columns, columnNames, names, i, naming>>

GiveNumbered ==
  /\ naming = "numbering"
  /\ Candidate \notin DOMAIN names
  /\ Give(Candidate, With(columns[i].name, count + 1))

Return ==
  /\ naming = "naming" /\ i > Len(columns)
  /\ naming' = "returned"
  /\ UNCHANGED <<columns, columnNames, names, i, count>>

NamingStep == Skip \/ NameFree \/ NameTaken \/ Increment \/ GiveNumbered \/ Return

NamingNext == NamingStep \/ \E cs \in Seq(Column) : NameColumns(cs)

NamingSpec == NamingInit /\ [][NamingNext]_namingVars

----------------------------------------------------------------------------
(* Properties.                                                             *)

\* No two columns have the same name, whatever the fields are called and
\* whatever their aliases are, unless both names are aliases the query gave
\* (ColumnNames; the column of the time is not among them).
NamesAreDistinct ==
  naming = "returned" =>
    \A j, k \in DOMAIN columns :
       j # k /\ columnNames[j] = columnNames[k] =>
         columns[j].alias # Blank /\ columns[k].alias # Blank
=============================================================================
