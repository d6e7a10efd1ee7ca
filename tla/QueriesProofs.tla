---------------------------- MODULE QueriesProofs ---------------------------
(***************************************************************************)
(* What holds of Queries for any tables, read in any order, and any        *)
(* command line.                                                           *)
(***************************************************************************)
EXTENDS Queries, FiniteSetTheorems, WellFoundedInduction, TLAPS

IsSeq(s) == s \in Seq(ToSet(s))

\* The logins that rows of the two tables enter.
UserLogins(rows) == { Fold(u.login) : u \in rows }
TeamLogins(rows) == { Fold(Tail(t.login)) : t \in { x \in rows : IsTeam(x.login) } }

Done(table) == dump[table] \ unread[table]

BeforeTables == {"validate", "rejected", "load"}

(***************************************************************************)
(* What is known of the maps: while tables are read, their keys are the    *)
(* logins of the rows read; afterwards, of all rows.                       *)
(***************************************************************************)
TablesInv ==
  /\ dump \in Tables
  /\ unread = [t \in TableNames |-> unread[t]]
  /\ \A t \in TableNames : unread[t] \subseteq dump[t]
  /\ pc \in BeforeTables =>
       /\ DOMAIN users = UserLogins(Done("users"))
       /\ DOMAIN teams = TeamLogins(Done("teams"))
  /\ pc \notin BeforeTables =>
       /\ \A t \in TableNames : unread[t] = {}
       /\ DOMAIN users = UserLogins(dump["users"]) \cup TeamLogins(dump["teams"])

(***************************************************************************)
(* The crates are those of the rows read, and after the last row those     *)
(* that are restored; no two have an id or a name in common.               *)
(***************************************************************************)
CratesInv ==
  /\ IsFiniteSet(crates)
  /\ mended \in 0 .. Len(MendedCrates)
  /\ Done("crates") \subseteq crates
  /\ mended = 0 => crates \subseteq Done("crates")
  /\ mended > 0 => unread["crates"] = {}
  /\ pc \notin BeforeTables => mended = Len(MendedCrates)
  /\ \A c \in crates : c.id \in Nat /\ (c \in dump.crates \/ c.name \in ToSet(MendedCrates))
  /\ \A c, d \in crates : c.id = d.id \/ Folded[c.name] = Folded[d.name] => c = d
  /\ \A i \in 1 .. mended : CratesNamed(MendedCrates[i]) # {}

AllParse(i) == \A p \in ToSet(given[i]) : Parses(p)

AllValid == \A q \in ToSet(given) : \A p \in ToSet(q) : Valid(p)

(***************************************************************************)
(* What has been parsed parses, and what is parsed has been validated.     *)
(***************************************************************************)
ParseInv ==
  /\ pc \in BeforeTables \cup {"parse", "failed", "format", "panicked"}
  /\ given \in CommandLines
  /\ IsSeq(queries) /\ IsSeq(labels)
  /\ pc \in BeforeTables => queries = << >>
  /\ pc \notin {"validate", "rejected"} => AllValid
  /\ pc = "parse" => \A i \in 1 .. Len(queries) : AllParse(i)
  /\ pc = "format" => \A i \in 1 .. Len(given) : AllParse(i)
  /\ pc = "panicked" => Len(given) > IdLimit
  /\ pc = "failed" => \E i \in 1 .. Len(given) : ~AllParse(i)

QueriesInv == TablesInv /\ CratesInv /\ ParseInv

-----------------------------------------------------------------------------
LEMMA AppendIsSeq ==
  ASSUME NEW s, IsSeq(s), NEW e
  PROVE  IsSeq(Append(s, e)) /\ Len(Append(s, e)) = Len(s) + 1 /\ Len(s) \in Nat
PROOF
<1> DEFINE T == ToSet(s) \cup {e}
           a == Append(s, e)
<1>1. s \in Seq(T)
  <2>1. s \in Seq(ToSet(s)) /\ ToSet(s) \subseteq T
    BY DEF IsSeq
  <2> HIDE DEF T
  <2> QED BY <2>1
<1>2. e \in T
  OBVIOUS
<1>3. /\ a \in Seq(T) /\ Len(a) = Len(s) + 1 /\ Len(s) \in Nat
      /\ DOMAIN a = 1 .. Len(a) /\ Len(a) \in Nat
  <2> HIDE DEF T
  <2> QED BY <1>1, <1>2
<1>4. a \in [1 .. Len(a) -> ToSet(a)]
  <2> HIDE DEF T, a
  <2>1. a \in [1 .. Len(a) -> T]
    BY <1>3
  <2>2. \A i \in 1 .. Len(a) : a[i] \in ToSet(a)
    BY <1>3 DEF ToSet
  <2> QED BY <2>1, <2>2
<1>5. a \in Seq(ToSet(a))
  <2> HIDE DEF a
  <2> QED BY <1>3, <1>4
<1> QED BY <1>3, <1>5 DEF IsSeq

\* Reading a row moves it from what is unread to what is done.
LEMMA ReadMoves ==
  ASSUME TablesInv, NEW table \in TableNames, NEW row, Read(table, row), UNCHANGED dump
  PROVE  /\ unread' = [t \in TableNames |-> unread'[t]]
         /\ \A t \in TableNames : unread'[t] \subseteq dump[t]
         /\ Done(table)' = Done(table) \cup {row}
         /\ \A t \in TableNames \ {table} : Done(t)' = Done(t)
         /\ pc = "load"
PROOF
<1>1. DOMAIN unread = TableNames
  BY DEF TablesInv
<1>2. unread' = [unread EXCEPT ![table] = unread[table] \ {row}] /\ row \in unread[table]
      /\ pc = "load" /\ dump' = dump
  BY DEF Read
<1>3. \A t \in TableNames : unread[t] \subseteq dump[t]
  BY DEF TablesInv
<1> QED BY <1>1, <1>2, <1>3 DEF Done

LEMMA InitInv == Init => QueriesInv
<1> SUFFICES ASSUME Init PROVE QueriesInv
  OBVIOUS
<1>1. IsSeq(<< >>)
  BY DEF IsSeq
<1>2. TablesInv
  <2>1. dump = [t \in TableNames |-> dump[t]] /\ unread = dump
    BY QueriesAssumption DEF Init
  <2>2. \A t \in TableNames : Done(t) = {}
    BY <2>1 DEF Done
  <2>3. UserLogins({}) = {} /\ TeamLogins({}) = {}
    BY DEF UserLogins, TeamLogins
  <2>4. DOMAIN users = {} /\ DOMAIN teams = {}
    BY DEF Init
  <2>5. "crates" \in TableNames /\ "users" \in TableNames /\ "teams" \in TableNames
    BY DEF TableNames
  <2>6. pc \in BeforeTables /\ dump \in Tables
    BY DEF Init, BeforeTables
  <2> QED BY <2>1, <2>2, <2>3, <2>4, <2>5, <2>6 DEF TablesInv
<1>3. ParseInv
  BY <1>1 DEF Init, ParseInv, BeforeTables
<1>4. CratesInv
  <2>1. crates = {} /\ mended = 0 /\ unread = dump /\ pc \in BeforeTables
    BY DEF Init, BeforeTables
  <2>2. IsFiniteSet({}) /\ Len(MendedCrates) \in Nat
    BY FS_EmptySet, QueriesAssumption
  <2> QED BY <2>1, <2>2 DEF CratesInv, Done
<1> QED BY <1>2, <1>3, <1>4 DEF QueriesInv

-----------------------------------------------------------------------------
\* A row that is read and entered leaves the rest as it was.
LEMMA StillLoading ==
  ASSUME ParseInv, pc = "load", UNCHANGED <<given, queries, labels, pc>>
  PROVE  ParseInv'
BY DEF ParseInv, BeforeTables, AllValid, Valid, IsSeq

\* The crates are as they were while others are read.
LEMMA CratesStay ==
  ASSUME CratesInv, UNCHANGED <<dump, crates, mended>>, Done("crates")' = Done("crates"),
         unread'["crates"] \subseteq unread["crates"],
         pc' \notin BeforeTables => pc \notin BeforeTables \/ mended = Len(MendedCrates)
  PROVE  CratesInv'
BY DEF CratesInv, CratesNamed, BeforeTables

\* Reading another table leaves the crates that are unread.
LEMMA ReadElsewhere ==
  ASSUME TablesInv, CratesInv, NEW table \in TableNames \ {"crates"}, NEW row,
         Read(table, row), UNCHANGED <<dump, crates, mended, pc>>
  PROVE  CratesInv'
<1>1. DOMAIN unread = TableNames /\ "crates" \in TableNames
  BY DEF TablesInv, TableNames
<1>2. unread'["crates"] = unread["crates"]
  BY <1>1 DEF Read
<1>3. Done("crates")' = Done("crates")
  BY <1>2 DEF Done
<1> QED BY <1>2, <1>3, CratesStay

(***************************************************************************)
(* CrateMap::insert of a crate of a new id and a new name.                 *)
(***************************************************************************)
LEMMA InsertAdds ==
  ASSUME CratesInv, NEW crate, Insert(crate), crate.id \in Nat,
         \A c \in crates : c.id # crate.id /\ Folded[c.name] # Folded[crate.name]
  PROVE  /\ crates' = crates \cup {crate} /\ pc' = pc
         /\ IsFiniteSet(crates')
         /\ \A c \in crates' : c.id \in Nat
         /\ \A c, d \in crates' : c.id = d.id \/ Folded[c.name] = Folded[d.name] => c = d
         /\ \A name : CratesNamed(name)' = CratesNamed(name) \cup
                        { c \in {crate} : Folded[c.name] = Folded[name] }
<1>1. CratesNamed(crate.name) = {}
  BY DEF CratesNamed
<1>2. crates' = crates \cup {crate} /\ pc' = pc
  BY <1>1 DEF Insert
<1>3. IsFiniteSet(crates')
  BY <1>2, FS_AddElement DEF CratesInv
<1>4. \A c \in crates' : c.id \in Nat
  BY <1>2 DEF CratesInv
<1>5. \A c, d \in crates' : c.id = d.id \/ Folded[c.name] = Folded[d.name] => c = d
  BY <1>2 DEF CratesInv
<1>6. \A name : CratesNamed(name)' = CratesNamed(name) \cup
                  { c \in {crate} : Folded[c.name] = Folded[name] }
  BY <1>2 DEF CratesNamed
<1> QED BY <1>2, <1>3, <1>4, <1>5, <1>6

LEMMA EnterAddsKey ==
  ASSUME NEW map, NEW login, NEW owner
  PROVE  DOMAIN Enter(map, login, owner) = DOMAIN map \cup {Fold(login)}
BY DEF Enter, With

LEMMA ReadCrateInv ==
  ASSUME QueriesInv, NEW row, ReadCrate(row)
  PROVE  QueriesInv'
<1>1. Read("crates", row) /\ Insert(row)
      /\ UNCHANGED <<dump, given, mended, users, teams, owners, queries, labels>>
  BY DEF ReadCrate
<1>2. {"crates", "users", "teams"} \subseteq TableNames
  BY DEF TableNames
<1>3. /\ unread' = [t \in TableNames |-> unread'[t]]
      /\ \A t \in TableNames : unread'[t] \subseteq dump[t]
      /\ Done("crates")' = Done("crates") \cup {row}
      /\ Done("users")' = Done("users") /\ Done("teams")' = Done("teams")
      /\ pc = "load"
  BY <1>1, <1>2, ReadMoves DEF QueriesInv
<1>4. /\ row \in dump.crates /\ row \in unread["crates"] /\ dump \in Tables
      /\ mended = 0 /\ crates = Done("crates")
  <2>1. row \in unread["crates"] /\ row \in dump["crates"] /\ dump \in Tables
    BY <1>1, <1>2 DEF QueriesInv, TablesInv, Read
  <2>2. ~(mended > 0) /\ mended \in Nat
    BY <2>1, QueriesAssumption DEF QueriesInv, CratesInv
  <2>3. mended = 0
    BY <2>2
  <2> QED BY <2>1, <2>3 DEF QueriesInv, CratesInv
<1>5. row.id \in Nat
      /\ \A c \in crates : c.id # row.id /\ Folded[c.name] # Folded[row.name]
  BY <1>4, QueriesAssumption DEF Done
<1>6. /\ crates' = crates \cup {row} /\ pc' = pc
      /\ IsFiniteSet(crates')
      /\ \A c \in crates' : c.id \in Nat
      /\ \A c, d \in crates' : c.id = d.id \/ Folded[c.name] = Folded[d.name] => c = d
  BY <1>1, <1>5, InsertAdds DEF QueriesInv
<1>7. TablesInv'
  BY <1>1, <1>3, <1>6 DEF QueriesInv, TablesInv, BeforeTables, UserLogins, TeamLogins
<1>8. CratesInv'
  <2>1. 1 .. mended' = {}
    BY <1>1, <1>4
  <2>2. \A c \in crates' : c \in dump'.crates
    BY <1>1, <1>4, <1>6 DEF Done
  <2>3. pc' \in BeforeTables
    BY <1>3, <1>6 DEF BeforeTables
  <2>4. mended' = 0 /\ mended' \in 0 .. Len(MendedCrates)
    BY <1>1, <1>4 DEF QueriesInv, CratesInv
  <2>5. crates' = Done("crates")'
    BY <1>3, <1>4, <1>6
  <2> QED BY <1>6, <2>1, <2>2, <2>3, <2>4, <2>5 DEF CratesInv
<1> QED BY <1>1, <1>3, <1>6, <1>7, <1>8, StillLoading DEF QueriesInv

(***************************************************************************)
(* There is an id that no crate has, and FreshId is one.                   *)
(***************************************************************************)
LEMMA FreshIdGives ==
  ASSUME CratesInv
  PROVE  FreshId \in Nat /\ \A c \in crates : c.id # FreshId
<1> DEFINE used == { c.id : c \in crates }
           C == Cardinality(used)
           I == 1 .. C + 1
           S == Nat \ (used \cup {0})
           Good(n) == n \notin used /\ 1 .. n - 1 \subseteq used
<1>1. IsFiniteSet(used) /\ used \subseteq Nat
  <2> DEFINE of == [c \in crates |-> c.id]
  <2>1. of \in Surjection(crates, used)
    BY DEF Surjection
  <2> QED BY <2>1, FS_Surjection DEF CratesInv
<1>2. C \in Nat
  BY <1>1, FS_CardinalityType
<1>3. PICK m \in I : m \notin used
  <2> SUFFICES ASSUME I \subseteq used PROVE FALSE
    OBVIOUS
  <2>1. IsFiniteSet(I) /\ Cardinality(I) = C + 1
    <3>1. 1 \in Int /\ 1 + C \in Int /\ ~(1 > 1 + C)
      BY <1>2
    <3>2. Cardinality(1 .. 1 + C) = (1 + C) - 1 + 1
      BY <3>1, FS_Interval
    <3> QED BY <1>2, <3>1, <3>2, FS_Interval
  <2>2. Cardinality(I) <= C
    <3> HIDE DEF I, C, used
    <3> QED BY <1>1, FS_Subset DEF C
  <2> QED BY <1>2, <2>1, <2>2
<1>4. m \in S
  BY <1>2, <1>3
<1>5. PICK n \in S : \A k \in S : ~ (<<k, n>> \in OpToRel(<, Nat))
  <2>1. S \subseteq Nat /\ S # {}
    BY <1>4
  <2> HIDE DEF S
  <2> QED BY <2>1, NatLessThanWellFounded, WFMin
<1>6. \A k \in S : ~(k < n)
  <2> SUFFICES ASSUME NEW k \in S, k < n PROVE FALSE
    OBVIOUS
  <2>1. k \in Nat /\ n \in Nat
    OBVIOUS
  <2>2. <<k, n>> \in OpToRel(<, Nat)
    BY <2>1, Zenon DEF OpToRel
  <2> QED BY <1>5, <2>2
<1>7. n \in I /\ Good(n)
  <2>1. n \in Nat /\ n >= 1 /\ n \notin used
    OBVIOUS
  <2>2. n <= m
    BY <1>2, <1>4, <1>6
  <2>3. \A k \in 1 .. n - 1 : k \in used
    BY <1>6, <2>1
  <2> QED BY <1>2, <2>1, <2>2, <2>3
<1>8. FreshId = CHOOSE k \in I : Good(k)
  BY DEF FreshId
<1> HIDE DEF Good
<1>9. FreshId \in I /\ Good(FreshId)
  BY <1>7, <1>8
<1> QED BY <1>2, <1>9 DEF Good

(***************************************************************************)
(* A turn of mend_crates: the name it looks at is there afterwards.        *)
(***************************************************************************)
LEMMA MendCrateInv ==
  ASSUME QueriesInv, MendCrate
  PROVE  QueriesInv'
<1>0. PICK name, crate : /\ name = MendedCrates[mended + 1]
                         /\ crate = [id |-> FreshId, name |-> name]
  OBVIOUS
<1>1. /\ pc = "load" /\ mended < Len(MendedCrates) /\ mended' = mended + 1
      /\ \A t \in DOMAIN unread : unread[t] = {}
      /\ UNCHANGED <<dump, given, unread, users, teams, owners, queries, labels>>
  BY DEF MendCrate
<1>2. mended \in Nat /\ Len(MendedCrates) \in Nat /\ mended + 1 \in 1 .. Len(MendedCrates)
      /\ name \in ToSet(MendedCrates)
  <2>1. mended \in Nat /\ Len(MendedCrates) \in Nat /\ DOMAIN MendedCrates = 1 .. Len(MendedCrates)
    BY QueriesAssumption DEF QueriesInv, CratesInv
  <2> QED BY <1>0, <1>1, <2>1 DEF ToSet
<1>3. unread["crates"] = {}
  BY <1>1 DEF QueriesInv, TablesInv, TableNames
<1>4. Done("crates")' = Done("crates") /\ unread'["crates"] = {} /\ mended' > 0
      /\ mended' \in 0 .. Len(MendedCrates)
  BY <1>1, <1>2, <1>3 DEF Done
<1>5. 1 .. mended' = (1 .. mended) \cup {mended + 1}
  BY <1>1, <1>2
<1>6. CASE CratesNamed(name) # {}
  <2>1. UNCHANGED <<crates, pc>>
    BY <1>0, <1>6 DEF MendCrate
  <2>2. \A i \in 1 .. mended' : CratesNamed(MendedCrates[i])' # {}
    <3>1. \A x : CratesNamed(x)' = CratesNamed(x)
      BY <2>1 DEF CratesNamed
    <3> QED BY <1>0, <1>5, <1>6, <3>1 DEF QueriesInv, CratesInv
  <2>3. CratesInv'
    BY <1>1, <1>4, <2>1, <2>2 DEF QueriesInv, CratesInv, BeforeTables
  <2>4. TablesInv'
    BY <1>1, <2>1 DEF QueriesInv, TablesInv, BeforeTables, Done, UserLogins, TeamLogins
  <2> QED BY <1>1, <2>1, <2>3, <2>4, StillLoading DEF QueriesInv
<1>7. CASE CratesNamed(name) = {}
  <2>1. Insert(crate)
    BY <1>0, <1>7 DEF MendCrate
  <2>2. crate.id \in Nat /\ crate.name = name
        /\ \A c \in crates : c.id # crate.id /\ Folded[c.name] # Folded[crate.name]
    BY <1>0, <1>7, FreshIdGives DEF QueriesInv, CratesNamed
  <2>3. /\ crates' = crates \cup {crate} /\ pc' = pc
        /\ IsFiniteSet(crates')
        /\ \A c \in crates' : c.id \in Nat
        /\ \A c, d \in crates' : c.id = d.id \/ Folded[c.name] = Folded[d.name] => c = d
        /\ \A x : CratesNamed(x)' = CratesNamed(x) \cup
                    { c \in {crate} : Folded[c.name] = Folded[x] }
    BY <2>1, <2>2, InsertAdds DEF QueriesInv
  <2>4. \A i \in 1 .. mended' : CratesNamed(MendedCrates[i])' # {}
    <3>1. CratesNamed(name)' # {}
      BY <2>2, <2>3
    <3>2. \A i \in 1 .. mended : CratesNamed(MendedCrates[i])' # {}
      BY <2>3 DEF QueriesInv, CratesInv
    <3> QED BY <1>0, <1>5, <3>1, <3>2
  <2>5. \A c \in crates' : c \in dump'.crates \/ c.name \in ToSet(MendedCrates)
    BY <1>1, <1>2, <2>2, <2>3 DEF QueriesInv, CratesInv
  <2>6. Done("crates")' \subseteq crates' /\ pc' \in BeforeTables
    BY <1>1, <1>4, <2>3 DEF QueriesInv, CratesInv, BeforeTables
  <2>7. CratesInv'
    BY <1>2, <1>4, <2>3, <2>4, <2>5, <2>6 DEF CratesInv
  <2>8. TablesInv'
    BY <1>1, <2>3 DEF QueriesInv, TablesInv, BeforeTables, Done, UserLogins, TeamLogins
  <2> QED BY <1>1, <2>3, <2>7, <2>8, StillLoading DEF QueriesInv
<1> QED BY <1>6, <1>7

LEMMA ReadUserInv ==
  ASSUME QueriesInv, NEW row, ReadUser(row)
  PROVE  QueriesInv'
<1>1. Read("users", row) /\ users' = Enter(users, row.login, User(row.id))
      /\ UNCHANGED <<dump, given, crates, mended, teams, owners, queries, labels, pc>>
  BY DEF ReadUser
<1>2. {"crates", "users", "teams"} \subseteq TableNames
  BY DEF TableNames
<1>3. /\ unread' = [t \in TableNames |-> unread'[t]]
      /\ \A t \in TableNames : unread'[t] \subseteq dump[t]
      /\ Done("users")' = Done("users") \cup {row}
      /\ Done("crates")' = Done("crates") /\ Done("teams")' = Done("teams")
      /\ pc = "load"
  BY <1>1, <1>2, ReadMoves DEF QueriesInv
<1>4. DOMAIN users = UserLogins(Done("users")) /\ DOMAIN teams = TeamLogins(Done("teams"))
  BY <1>3 DEF QueriesInv, TablesInv, BeforeTables
<1>5. DOMAIN users' = UserLogins(Done("users")')
  <2>1. DOMAIN users' = DOMAIN users \cup {Fold(row.login)}
    BY <1>1, EnterAddsKey
  <2>2. \A rows : UserLogins(rows \cup {row}) = UserLogins(rows) \cup {Fold(row.login)}
    BY DEF UserLogins
  <2> QED BY <1>3, <1>4, <2>1, <2>2
<1>6. TablesInv'
  BY <1>1, <1>3, <1>4, <1>5 DEF QueriesInv, TablesInv, BeforeTables, UserLogins, TeamLogins
<1>7. CratesInv'
  <2>1. "users" \in TableNames \ {"crates"}
    BY DEF TableNames
  <2> QED BY <1>1, <2>1, ReadElsewhere DEF QueriesInv
<1> QED BY <1>1, <1>3, <1>6, <1>7, StillLoading DEF QueriesInv

LEMMA ReadTeamInv ==
  ASSUME QueriesInv, NEW row, ReadTeam(row)
  PROVE  QueriesInv'
<1>1. Read("teams", row)
      /\ UNCHANGED <<dump, given, crates, mended, users, owners, queries, labels, pc>>
  BY DEF ReadTeam
<1>2. {"crates", "users", "teams"} \subseteq TableNames
  BY DEF TableNames
<1>3. /\ unread' = [t \in TableNames |-> unread'[t]]
      /\ \A t \in TableNames : unread'[t] \subseteq dump[t]
      /\ Done("teams")' = Done("teams") \cup {row}
      /\ Done("crates")' = Done("crates") /\ Done("users")' = Done("users")
      /\ pc = "load"
  BY <1>1, <1>2, ReadMoves DEF QueriesInv
<1>4. DOMAIN users = UserLogins(Done("users")) /\ DOMAIN teams = TeamLogins(Done("teams"))
  BY <1>3 DEF QueriesInv, TablesInv, BeforeTables
<1>5. DOMAIN teams' = TeamLogins(Done("teams")')
  <2>1. CASE IsTeam(row.login)
    <3>1. teams' = Enter(teams, Tail(row.login), Team(row.id))
      BY <2>1 DEF ReadTeam
    <3>2. DOMAIN teams' = DOMAIN teams \cup {Fold(Tail(row.login))}
      BY <3>1, EnterAddsKey
    <3> QED BY <1>3, <1>4, <2>1, <3>2 DEF TeamLogins
  <2>2. CASE ~IsTeam(row.login)
    <3>1. teams' = teams
      BY <2>2 DEF ReadTeam
    <3> QED BY <1>3, <1>4, <2>2, <3>1 DEF TeamLogins
  <2> QED BY <2>1, <2>2
<1>6. TablesInv'
  BY <1>1, <1>3, <1>4, <1>5 DEF QueriesInv, TablesInv, BeforeTables, UserLogins, TeamLogins
<1>7. CratesInv'
  <2>1. "teams" \in TableNames \ {"crates"}
    BY DEF TableNames
  <2> QED BY <1>1, <2>1, ReadElsewhere DEF QueriesInv
<1> QED BY <1>1, <1>3, <1>6, <1>7, StillLoading DEF QueriesInv

LEMMA ReadOwnerInv ==
  ASSUME QueriesInv, NEW row, ReadOwner(row)
  PROVE  QueriesInv'
<1>1. Read("owners", row)
      /\ UNCHANGED <<dump, given, crates, mended, users, teams, queries, labels, pc>>
  BY DEF ReadOwner
<1>2. {"crates", "users", "teams", "owners"} \subseteq TableNames
  BY DEF TableNames
<1>3. /\ unread' = [t \in TableNames |-> unread'[t]]
      /\ \A t \in TableNames : unread'[t] \subseteq dump[t]
      /\ Done("crates")' = Done("crates") /\ Done("users")' = Done("users")
      /\ Done("teams")' = Done("teams")
      /\ pc = "load"
  BY <1>1, <1>2, ReadMoves DEF QueriesInv
<1>4. TablesInv'
  BY <1>1, <1>3 DEF QueriesInv, TablesInv, BeforeTables, UserLogins, TeamLogins
<1>5. CratesInv'
  <2>1. "owners" \in TableNames \ {"crates"}
    BY DEF TableNames
  <2> QED BY <1>1, <2>1, ReadElsewhere DEF QueriesInv
<1> QED BY <1>1, <1>3, <1>4, <1>5, StillLoading DEF QueriesInv

LEMMA EndOfTablesInv ==
  ASSUME QueriesInv, EndOfTables
  PROVE  QueriesInv'
<1>1. /\ pc = "load" /\ pc' = "parse"
      /\ \A t \in DOMAIN unread : unread[t] = {}
      /\ mended = Len(MendedCrates)
      /\ UNCHANGED <<dump, given, unread, crates, mended, teams, owners, queries, labels>>
  BY DEF EndOfTables
<1>2. \A t \in TableNames : unread[t] = {}
  BY <1>1 DEF QueriesInv, TablesInv
<1>3. DOMAIN users' = DOMAIN teams \cup DOMAIN users
  BY DEF EndOfTables
<1>4. Done("users") = dump["users"] /\ Done("teams") = dump["teams"]
  BY <1>2 DEF Done, TableNames
<1>5. DOMAIN users = UserLogins(dump["users"]) /\ DOMAIN teams = TeamLogins(dump["teams"])
  BY <1>1, <1>4 DEF QueriesInv, TablesInv, BeforeTables
<1>6. TablesInv'
  BY <1>1, <1>2, <1>3, <1>5
     DEF QueriesInv, TablesInv, BeforeTables, Done, UserLogins, TeamLogins
<1>7. ParseInv'
  BY <1>1 DEF QueriesInv, ParseInv, BeforeTables, AllValid, Valid, IsSeq
<1>8. CratesInv'
  BY <1>1, CratesStay DEF QueriesInv, Done
<1> QED BY <1>6, <1>7, <1>8 DEF QueriesInv

LEMMA ValidateInv ==
  ASSUME QueriesInv, Validate
  PROVE  QueriesInv'
<1>1. /\ pc = "validate" /\ pc' \in {"load", "rejected"} /\ (pc' = "load" => AllValid)
      /\ UNCHANGED <<dump, given, unread, crates, mended, users, teams, owners, queries, labels>>
  BY DEF Validate, AllValid
<1>2. TablesInv'
  BY <1>1 DEF QueriesInv, TablesInv, BeforeTables, Done, UserLogins, TeamLogins
<1>3. ParseInv'
  BY <1>1 DEF QueriesInv, ParseInv, BeforeTables, AllValid, Valid, IsSeq
<1>4. CratesInv'
  BY <1>1, CratesStay DEF QueriesInv, Done, BeforeTables
<1> QED BY <1>2, <1>3, <1>4 DEF QueriesInv

-----------------------------------------------------------------------------
\* The command line is a sequence; its places are the numbers up to its length.
LEMMA GivenPlaces ==
  ASSUME given \in CommandLines
  PROVE  /\ Len(given) \in Nat
         /\ ToSet(given) = { given[i] : i \in 1 .. Len(given) }
         /\ \A q \in ToSet(given) : \A p \in ToSet(q) : p.by \in {"owner", "crate"}
<1>1. given \in Seq(ToSet(given))
      /\ \A q \in ToSet(given) : \A p \in ToSet(q) : p.by \in {"owner", "crate"}
  BY QueriesAssumption
<1>2. Len(given) \in Nat /\ DOMAIN given = 1 .. Len(given)
  BY <1>1
<1> QED BY <1>1, <1>2 DEF ToSet

\* Once the tables are read, nothing that a step does changes what parses.
LEMMA TablesKept ==
  ASSUME QueriesInv, pc \notin BeforeTables, pc' \notin BeforeTables,
         UNCHANGED <<dump, given, unread, crates, mended, users, teams, owners>>
  PROVE  /\ TablesInv' /\ CratesInv'
         /\ given' \in CommandLines
         /\ AllValid'
         /\ \A i : AllParse(i)' <=> AllParse(i)
<1>1. TablesInv'
  BY DEF QueriesInv, TablesInv, BeforeTables, Done, UserLogins, TeamLogins
<1>2. given' \in CommandLines /\ AllValid'
  BY DEF QueriesInv, ParseInv, BeforeTables, AllValid, Valid
<1>3. \A i : AllParse(i)' <=> AllParse(i)
  BY DEF AllParse, Parses, CratesNamed, Fold
<1>4. CratesInv'
  BY CratesStay DEF QueriesInv, Done
<1> QED BY <1>1, <1>2, <1>3, <1>4

LEMMA ParseStepInv ==
  ASSUME QueriesInv, Parse
  PROVE  QueriesInv'
<1> DEFINE i == Len(queries)
<1>1. /\ pc = "parse" /\ i < Len(given) /\ i \in Nat /\ Len(given) \in Nat
      /\ UNCHANGED <<dump, given, unread, crates, mended, users, teams, owners, labels>>
      /\ IdLimit \in Nat /\ IsSeq(queries) /\ IsSeq(labels)
      /\ \A k \in 1 .. i : AllParse(k)
  BY QueriesAssumption, GivenPlaces, AppendIsSeq DEF Parse, QueriesInv, ParseInv
<1>2. CASE pc' = "panicked" /\ UNCHANGED queries /\ TooMany(i)
  <2>1. Len(given) > IdLimit
    BY <1>1, <1>2 DEF TooMany
  <2>2. TablesInv' /\ CratesInv' /\ given' \in CommandLines /\ AllValid'
    BY <1>1, <1>2, TablesKept DEF BeforeTables
  <2> QED BY <1>1, <1>2, <2>1, <2>2 DEF QueriesInv, ParseInv, BeforeTables, IsSeq
<1>3. CASE pc' = "failed" /\ UNCHANGED queries /\ ~AllParse(i + 1)
  <2>1. TablesInv' /\ CratesInv' /\ given' \in CommandLines /\ AllValid'
        /\ \A k : AllParse(k)' <=> AllParse(k)
    BY <1>1, <1>3, TablesKept DEF BeforeTables
  <2>2. i + 1 \in 1 .. Len(given)
    BY <1>1
  <2>3. \E k \in 1 .. Len(given) : ~AllParse(k)
    BY <1>3, <2>2
  <2>4. \E k \in 1 .. Len(given') : ~AllParse(k)'
    BY <1>1, <2>1, <2>3
  <2> QED BY <1>1, <1>3, <2>1, <2>4 DEF QueriesInv, ParseInv, BeforeTables, IsSeq
<1>4. CASE UNCHANGED pc /\ AllParse(i + 1) /\ \E q : queries' = Append(queries, q)
  <2>1. TablesInv' /\ CratesInv' /\ given' \in CommandLines /\ AllValid'
        /\ \A k : AllParse(k)' <=> AllParse(k)
    BY <1>1, <1>4, TablesKept DEF BeforeTables
  <2>2. IsSeq(queries') /\ Len(queries') = i + 1
    BY <1>1, <1>4, AppendIsSeq
  <2>3. \A k \in 1 .. Len(queries') : AllParse(k)'
    BY <1>1, <1>4, <2>1, <2>2
  <2> QED BY <1>1, <1>4, <2>1, <2>2, <2>3 DEF QueriesInv, ParseInv, BeforeTables, IsSeq
<1> QED BY <1>2, <1>3, <1>4 DEF Parse, AllParse

LEMMA ParsedInv ==
  ASSUME QueriesInv, Parsed
  PROVE  QueriesInv'
<1>1. /\ pc = "parse" /\ pc' = "format" /\ Len(queries) = Len(given)
      /\ UNCHANGED <<dump, given, unread, crates, mended, users, teams, owners, queries, labels>>
  BY DEF Parsed
<1>2. TablesInv' /\ CratesInv' /\ given' \in CommandLines /\ AllValid'
      /\ \A k : AllParse(k)' <=> AllParse(k)
  BY <1>1, TablesKept DEF BeforeTables
<1>3. \A k \in 1 .. Len(given') : AllParse(k)'
  BY <1>1, <1>2 DEF QueriesInv, ParseInv
<1> QED BY <1>1, <1>2, <1>3 DEF QueriesInv, ParseInv, BeforeTables, IsSeq

\* What has been parsed is found again: the step that would panic is not taken.
LEMMA FormatInv ==
  ASSUME QueriesInv, Format
  PROVE  QueriesInv'
<1> DEFINE text == given[Len(labels) + 1]
<1>1. /\ pc = "format" /\ Len(labels) < Len(given)
      /\ Len(labels) \in Nat /\ Len(given) \in Nat
      /\ UNCHANGED <<dump, given, unread, crates, mended, users, teams, owners, queries>>
      /\ IsSeq(queries) /\ IsSeq(labels)
  BY GivenPlaces, AppendIsSeq DEF Format, QueriesInv, ParseInv
<1>2. AllParse(Len(labels) + 1)
  <2>1. Len(labels) + 1 \in 1 .. Len(given)
    BY <1>1
  <2> QED BY <1>1, <2>1 DEF QueriesInv, ParseInv
<1>3. \A p \in ToSet(text) : IF p.by = "owner" THEN Fold(p.login) \in DOMAIN users ELSE Parses(p)
  BY <1>2 DEF AllParse, Parses
<1>4. UNCHANGED pc /\ \E label : labels' = Append(labels, label)
  BY <1>3 DEF Format
<1>5. IsSeq(labels')
  BY <1>1, <1>4, AppendIsSeq
<1>6. TablesInv' /\ CratesInv' /\ given' \in CommandLines /\ AllValid'
      /\ \A k : AllParse(k)' <=> AllParse(k)
  BY <1>1, <1>4, TablesKept DEF BeforeTables
<1>7. \A k \in 1 .. Len(given') : AllParse(k)'
  BY <1>1, <1>6 DEF QueriesInv, ParseInv
<1> QED BY <1>1, <1>4, <1>5, <1>6, <1>7 DEF QueriesInv, ParseInv, BeforeTables, IsSeq

LEMMA StutterInv ==
  ASSUME QueriesInv, UNCHANGED vars
  PROVE  QueriesInv'
<1>1. TablesInv'
  BY DEF vars, QueriesInv, TablesInv, BeforeTables, Done, UserLogins, TeamLogins
<1>2. \A k : AllParse(k)' <=> AllParse(k)
  BY DEF vars, AllParse, Parses, CratesNamed, Fold
<1>3. ParseInv'
  BY <1>2 DEF vars, QueriesInv, ParseInv, BeforeTables, AllValid, Valid, IsSeq
<1>4. CratesInv'
  BY CratesStay DEF vars, QueriesInv, Done
<1> QED BY <1>1, <1>3, <1>4 DEF QueriesInv

(***************************************************************************)
(* The inductive invariant: the maps hold what has been read, and what has *)
(* been parsed parses.                                                     *)
(***************************************************************************)
THEOREM InvHolds == Spec => []QueriesInv
<1>1. QueriesInv /\ [Next]_vars => QueriesInv'
  BY ValidateInv, ReadCrateInv, ReadUserInv, ReadTeamInv, ReadOwnerInv, MendCrateInv, EndOfTablesInv,
     ParseStepInv, ParsedInv, FormatInv, StutterInv DEF Next
<1> QED BY InitInv, <1>1, PTL DEF Spec

(***************************************************************************)
(* For any tables and command line, labels are formatted without a panic   *)
(* (query.rs, format): the only panic is that of the first id too large.   *)
(***************************************************************************)
THEOREM PanicsAreRare == Spec => []PanicsOnlyPastTheLimit
<1>1. QueriesInv => PanicsOnlyPastTheLimit
  BY DEF QueriesInv, ParseInv, PanicsOnlyPastTheLimit
<1> QED BY InvHolds, <1>1, PTL

-----------------------------------------------------------------------------
(***************************************************************************)
(* Once the tables are read, the crates are those of the dump and those    *)
(* that are restored.                                                      *)
(***************************************************************************)
LEMMA AllCrates ==
  ASSUME QueriesInv, pc \notin BeforeTables
  PROVE  crates = dump.crates \cup Restored
<1>1. /\ dump.crates \subseteq crates
      /\ \A c \in crates : c \in dump.crates \/ c.name \in ToSet(MendedCrates)
      /\ \A c, d \in crates : c.id = d.id \/ Folded[c.name] = Folded[d.name] => c = d
  BY DEF QueriesInv, TablesInv, CratesInv, Done, TableNames
<1>2. ASSUME NEW c \in crates, c \notin dump.crates PROVE c \in Restored
  BY <1>1, <1>2 DEF Restored
<1>3. Restored \subseteq crates
  BY DEF Restored
<1> QED BY <1>1, <1>2, <1>3

(***************************************************************************)
(* And their names are those of the rows and of the list in mend_crates.   *)
(***************************************************************************)
LEMMA NamesAreKnown ==
  ASSUME QueriesInv, pc \notin BeforeTables, NEW name
  PROVE  CratesNamed(name) # {} <=>
           \E x \in { row.name : row \in dump.crates } \cup ToSet(MendedCrates) :
              Folded[x] = Folded[name]
<1>1. /\ dump.crates \subseteq crates
      /\ \A c \in crates : c \in dump.crates \/ c.name \in ToSet(MendedCrates)
      /\ mended = Len(MendedCrates)
      /\ \A i \in 1 .. mended : CratesNamed(MendedCrates[i]) # {}
  BY DEF QueriesInv, TablesInv, CratesInv, Done, TableNames
<1>2. ToSet(MendedCrates) = { MendedCrates[i] : i \in 1 .. mended }
  <2>1. DOMAIN MendedCrates = 1 .. Len(MendedCrates)
    BY QueriesAssumption
  <2> QED BY <1>1, <2>1 DEF ToSet
<1>3. ASSUME CratesNamed(name) # {}
      PROVE  \E x \in { row.name : row \in dump.crates } \cup ToSet(MendedCrates) :
                Folded[x] = Folded[name]
  BY <1>1, <1>3 DEF CratesNamed
<1>4. ASSUME NEW row \in dump.crates, Folded[row.name] = Folded[name]
      PROVE  CratesNamed(name) # {}
  BY <1>1, <1>4 DEF CratesNamed
<1>5. ASSUME NEW x \in ToSet(MendedCrates), Folded[x] = Folded[name]
      PROVE  CratesNamed(name) # {}
  <2>1. CratesNamed(x) # {}
    BY <1>1, <1>2
  <2> QED BY <1>5, <2>1 DEF CratesNamed
<1> QED BY <1>3, <1>4, <1>5

\* A valid predicate is one whose requirement can be read.
LEMMA ParsesIfMeant ==
  ASSUME QueriesInv, pc \notin BeforeTables, NEW p, Valid(p), p.by \in {"owner", "crate"}
  PROVE  Parses(p) <=> Known(p)
<1>1. DOMAIN users = UserLogins(dump["users"]) \cup TeamLogins(dump["teams"])
  BY DEF QueriesInv, TablesInv
<1>2. CASE p.by = "owner"
  <2>1. Parses(p) <=> Fold(p.login) \in DOMAIN users
    BY <1>2 DEF Parses
  <2>2. Fold(p.login) \in UserLogins(dump["users"])
          <=> \E u \in dump["users"] : Fold(u.login) = Fold(p.login)
    BY DEF UserLogins
  <2>3. Fold(p.login) \in TeamLogins(dump["teams"])
          <=> \E t \in dump["teams"] : IsTeam(t.login) /\ Fold(Tail(t.login)) = Fold(p.login)
    BY DEF TeamLogins
  <2>4. Holders(p.login) # {} <=> Fold(p.login) \in DOMAIN users
    BY <1>1, <2>2, <2>3 DEF Holders
  <2> QED BY <1>2, <2>1, <2>4 DEF Known
<1>3. CASE p.by = "crate"
  <2>1. p.req \in ValidReqs
    BY <1>3 DEF Valid
  <2>2. Parses(p) <=> ~p.padded /\ CratesNamed(p.name) # {}
    BY <1>3, <2>1 DEF Parses
  <2> QED BY <1>3, <2>2, NamesAreKnown DEF Known
<1> QED BY <1>2, <1>3

(***************************************************************************)
(* For any tables, in any order, and any command line: parsing (query.rs)  *)
(* fails exactly if some query names what neither the dump has nor         *)
(* mend_crates (mend.rs) restores.                                         *)
(***************************************************************************)
THEOREM FailuresAreMeant == Spec => []FailsOnlyIfUnknown
<1>1. QueriesInv => FailsOnlyIfUnknown
  <2> SUFFICES ASSUME QueriesInv, pc \in {"failed", "format"}
               PROVE  FailsOnlyIfUnknown
    BY DEF FailsOnlyIfUnknown
  <2>1. pc \notin BeforeTables /\ given \in CommandLines /\ AllValid
    BY DEF QueriesInv, ParseInv, BeforeTables
  <2>2. \A q \in ToSet(given) : \A p \in ToSet(q) : Parses(p) <=> Known(p)
    BY <2>1, GivenPlaces, ParsesIfMeant DEF AllValid
  <2>3. \A i \in 1 .. Len(given) : given[i] \in ToSet(given)
    BY <2>1, GivenPlaces
  <2>4. \A q \in ToSet(given) : \E i \in 1 .. Len(given) : q = given[i]
    BY <2>1, GivenPlaces
  <2>5. CASE pc = "failed"
    <3>1. PICK i \in 1 .. Len(given) : ~AllParse(i)
      BY <2>5 DEF QueriesInv, ParseInv
    <3>2. \E q \in ToSet(given) : \E p \in ToSet(q) : ~Known(p)
      BY <2>2, <2>3, <3>1 DEF AllParse
    <3> QED BY <2>5, <3>2 DEF FailsOnlyIfUnknown
  <2>6. CASE pc = "format"
    <3>1. \A q \in ToSet(given) : \A p \in ToSet(q) : Known(p)
      BY <2>2, <2>4, <2>6 DEF QueriesInv, ParseInv, AllParse
    <3> QED BY <2>6, <3>1 DEF FailsOnlyIfUnknown
  <2> QED BY <2>5, <2>6
<1> QED BY InvHolds, <1>1, PTL

-----------------------------------------------------------------------------
(***************************************************************************)
(* Induction over the numbers, for a set instead of a predicate.           *)
(***************************************************************************)
LEMMA AllNumbers ==
  ASSUME NEW G, 0 \in G, \A n \in Nat : n \in G => n + 1 \in G
  PROVE  \A n \in Nat : n \in G
<1> SUFFICES ASSUME NEW k \in Nat, k \notin G PROVE FALSE
  OBVIOUS
<1> DEFINE S == { n \in Nat : n \notin G }
<1>1. PICK n \in S : \A m \in S : ~ (<<m, n>> \in OpToRel(<, Nat))
  <2>1. S \subseteq Nat /\ S # {}
    OBVIOUS
  <2> HIDE DEF S
  <2> QED BY <2>1, NatLessThanWellFounded, WFMin
<1>2. n \in Nat /\ n - 1 \in Int /\ n - 1 < n
  OBVIOUS
<1>3. n # 0
  OBVIOUS
<1>4. n - 1 \in Nat
  BY <1>2, <1>3
<1>5. n - 1 \notin S
  <2>1. <<n - 1, n>> \in OpToRel(<, Nat)
    BY <1>2, <1>4, Zenon DEF OpToRel
  <2> QED BY <1>1, <2>1
<1>6. n - 1 \in G
  BY <1>4, <1>5
<1> QED BY <1>2, <1>4, <1>6

(***************************************************************************)
(* FlattenSeq joins one sequence after the other.                          *)
(***************************************************************************)
JoinStep(ss, f, i) == IF i = 1 THEN ss[i] ELSE f[i - 1] \o ss[i]

Joined(ss) == CHOOSE f : f = [i \in 1 .. Len(ss) |-> JoinStep(ss, f, i)]

(***************************************************************************)
(* FlattenSeq is the last of its steps.                                    *)
(***************************************************************************)
LEMMA FlattenIsJoined ==
  ASSUME NEW ss, Len(ss) # 0
  PROVE  FlattenSeq(ss) = Joined(ss)[Len(ss)]
BY DEF FlattenSeq, Joined, JoinStep

(***************************************************************************)
(* There is the function FlattenSeq defines, and it does what each step    *)
(* says.                                                                   *)
(***************************************************************************)
LEMMA JoinedSteps ==
  ASSUME NEW ss, Len(ss) \in Nat
  PROVE  \A i \in 1 .. Len(ss) : Joined(ss)[i] = JoinStep(ss, Joined(ss), i)
<1> DEFINE N == { n \in Nat : \E f : f = [i \in 1 .. n |-> JoinStep(ss, f, i)] }
<1>1. 0 \in N
  <2> DEFINE f == [i \in 1 .. 0 |-> 0]
  <2>1. f = [i \in 1 .. 0 |-> JoinStep(ss, f, i)]
    OBVIOUS
  <2> HIDE DEF f
  <2> QED BY <2>1
<1>2. ASSUME NEW n \in Nat, n \in N PROVE n + 1 \in N
  <2>1. PICK f : f = [i \in 1 .. n |-> JoinStep(ss, f, i)]
    BY <1>2
  <2> DEFINE g == [i \in 1 .. n + 1 |-> JoinStep(ss, f, i)]
  <2>2. \A i \in 1 .. n : g[i] = f[i]
    BY <2>1
  <2>3. \A i \in 1 .. n + 1 : i # 1 => i - 1 \in 1 .. n
    OBVIOUS
  <2>4. \A k : k = g => k = [i \in 1 .. n + 1 |-> JoinStep(ss, k, i)]
    <3> SUFFICES ASSUME NEW k, k = g
                 PROVE  k = [i \in 1 .. n + 1 |-> JoinStep(ss, k, i)]
      OBVIOUS
    <3>1. \A i \in 1 .. n + 1 : JoinStep(ss, f, i) = JoinStep(ss, k, i)
      <4> HIDE DEF g
      <4> QED BY <2>2, <2>3 DEF JoinStep
    <3> QED BY <3>1
  <2> HIDE DEF g
  <2> QED BY <2>4
<1>3. \A n \in Nat : n \in N
  <2> HIDE DEF N
  <2> QED BY <1>1, <1>2, AllNumbers
<1>4. \E f : f = [i \in 1 .. Len(ss) |-> JoinStep(ss, f, i)]
  BY <1>3
<1>5. Joined(ss) = [i \in 1 .. Len(ss) |-> JoinStep(ss, Joined(ss), i)]
  BY <1>4 DEF Joined
<1> QED BY <1>5

(***************************************************************************)
(* What is in a concatenation.                                             *)
(***************************************************************************)
LEMMA RangeOfConcatenation ==
  ASSUME NEW S, NEW a \in Seq(S), NEW b \in Seq(S)
  PROVE  a \o b \in Seq(S) /\ ToSet(a \o b) = ToSet(a) \cup ToSet(b)
<1> DEFINE c == a \o b
<1>1. /\ Len(a) \in Nat /\ Len(b) \in Nat /\ DOMAIN a = 1 .. Len(a) /\ DOMAIN b = 1 .. Len(b)
      /\ c \in Seq(S) /\ Len(c) = Len(a) + Len(b) /\ DOMAIN c = 1 .. Len(a) + Len(b)
      /\ \A i \in 1 .. Len(a) + Len(b) : c[i] = IF i <= Len(a) THEN a[i] ELSE b[i - Len(a)]
  OBVIOUS
<1> HIDE DEF c
<1>2. ToSet(c) \subseteq ToSet(a) \cup ToSet(b)
  <2> SUFFICES ASSUME NEW i \in 1 .. Len(a) + Len(b) PROVE c[i] \in ToSet(a) \cup ToSet(b)
    BY <1>1 DEF ToSet
  <2>1. i <= Len(a) => i \in DOMAIN a
    BY <1>1
  <2>2. ~(i <= Len(a)) => i - Len(a) \in DOMAIN b
    BY <1>1
  <2> QED BY <1>1, <2>1, <2>2 DEF ToSet
<1>3. ToSet(a) \subseteq ToSet(c)
  <2> SUFFICES ASSUME NEW i \in 1 .. Len(a) PROVE a[i] \in ToSet(c)
    BY <1>1 DEF ToSet
  <2>1. i \in 1 .. Len(a) + Len(b) /\ c[i] = a[i]
    BY <1>1
  <2> QED BY <1>1, <2>1 DEF ToSet
<1>4. ToSet(b) \subseteq ToSet(c)
  <2> SUFFICES ASSUME NEW i \in 1 .. Len(b) PROVE b[i] \in ToSet(c)
    BY <1>1 DEF ToSet
  <2>1. Len(a) + i \in 1 .. Len(a) + Len(b) /\ ~(Len(a) + i <= Len(a)) /\ Len(a) + i - Len(a) = i
    BY <1>1
  <2>2. c[Len(a) + i] = b[i]
    BY <1>1, <2>1
  <2> QED BY <1>1, <2>1, <2>2 DEF ToSet
<1> QED BY <1>1, <1>2, <1>3, <1>4 DEF c

(***************************************************************************)
(* What is in a sequence after appending to it.                            *)
(***************************************************************************)
LEMMA AppendAdds ==
  ASSUME NEW s, IsSeq(s), NEW e
  PROVE  ToSet(Append(s, e)) = ToSet(s) \cup {e}
<1> DEFINE T == ToSet(s) \cup {e}
<1>0. e \in T
  OBVIOUS
<1>1. s \in Seq(T)
  <2>1. s \in Seq(ToSet(s)) /\ ToSet(s) \subseteq T
    BY DEF IsSeq
  <2> HIDE DEF T
  <2> QED BY <2>1
<1>2. /\ Len(s) \in Nat /\ DOMAIN s = 1 .. Len(s)
      /\ DOMAIN Append(s, e) = 1 .. Len(s) + 1
      /\ \A i \in 1 .. Len(s) : Append(s, e)[i] = s[i]
      /\ Append(s, e)[Len(s) + 1] = e
  <2> HIDE DEF T
  <2> QED BY <1>0, <1>1
<1>3. 1 .. Len(s) + 1 = (1 .. Len(s)) \cup {Len(s) + 1}
  BY <1>2
<1> QED BY <1>2, <1>3 DEF ToSet

(***************************************************************************)
(* Flattening loses nothing and adds nothing.                              *)
(***************************************************************************)
LEMMA FlattenKeeps ==
  ASSUME NEW S, NEW ss \in Seq(Seq(S))
  PROVE  ToSet(FlattenSeq(ss)) = UNION { ToSet(ss[k]) : k \in DOMAIN ss }
<1> DEFINE n == Len(ss)
           J == Joined(ss)
           Upto(i) == UNION { ToSet(ss[k]) : k \in 1 .. i }
           Good(i) == J[i] \in Seq(S) /\ ToSet(J[i]) = Upto(i)
           N == { m \in Nat : m \in 1 .. n => Good(m) }
<1>1. n \in Nat /\ DOMAIN ss = 1 .. n /\ \A k \in 1 .. n : ss[k] \in Seq(S)
  OBVIOUS
<1>2. \A i \in 1 .. n : J[i] = IF i = 1 THEN ss[i] ELSE J[i - 1] \o ss[i]
  BY <1>1, JoinedSteps DEF JoinStep
<1> HIDE DEF n, J
<1>3. 0 \in N
  OBVIOUS
<1>4. ASSUME NEW m \in Nat, m \in N PROVE m + 1 \in N
  <2> SUFFICES ASSUME m + 1 \in 1 .. n PROVE Good(m + 1)
    OBVIOUS
  <2>1. CASE m = 0
    <3>1. m + 1 = 1 /\ 1 .. m + 1 = {1}
      BY <2>1
    <3>2. Upto(m + 1) = ToSet(ss[1])
      BY <3>1
    <3>3. J[m + 1] = ss[1] /\ ss[1] \in Seq(S)
      BY <1>1, <1>2, <3>1
    <3> QED BY <3>2, <3>3
  <2>2. CASE m # 0
    <3>1. m \in 1 .. n /\ m + 1 # 1 /\ (m + 1) - 1 = m
      BY <1>1, <2>2
    <3>2. Good(m)
      BY <1>4, <3>1
    <3>3. J[m + 1] = J[m] \o ss[m + 1] /\ ss[m + 1] \in Seq(S)
      BY <1>1, <1>2, <3>1
    <3>4. 1 .. m + 1 = (1 .. m) \cup {m + 1}
      OBVIOUS
    <3>5. Upto(m + 1) = Upto(m) \cup ToSet(ss[m + 1])
      BY <3>4
    <3>6. J[m] \in Seq(S) /\ ToSet(J[m]) = Upto(m)
      BY <3>2
    <3> HIDE DEF Upto
    <3>7. J[m + 1] \in Seq(S) /\ ToSet(J[m + 1]) = Upto(m + 1)
      <4>1. /\ J[m] \o ss[m + 1] \in Seq(S)
            /\ ToSet(J[m] \o ss[m + 1]) = ToSet(J[m]) \cup ToSet(ss[m + 1])
        BY <3>3, <3>6, RangeOfConcatenation
      <4> QED BY <3>3, <3>5, <3>6, <4>1
    <3> QED BY <3>7
  <2> QED BY <2>1, <2>2
<1>5. \A m \in Nat : m \in N
  <2> HIDE DEF N
  <2> QED BY <1>3, <1>4, AllNumbers
<1>6. CASE n = 0
  <2>1. FlattenSeq(ss) = ss /\ DOMAIN ss = {}
    BY <1>1, <1>6 DEF FlattenSeq, n
  <2> QED BY <2>1 DEF ToSet
<1>7. CASE n # 0
  <2>1. n \in 1 .. n
    BY <1>1, <1>7
  <2>2. ToSet(J[n]) = Upto(n)
    BY <1>1, <1>5, <2>1
  <2>3. FlattenSeq(ss) = J[n]
    BY <1>7, FlattenIsJoined DEF n, J
  <2> QED BY <1>1, <2>2, <2>3
<1> QED BY <1>6, <1>7

-----------------------------------------------------------------------------
(***************************************************************************)
(* The owners a folded login may stand for, by the rows of the dump.       *)
(***************************************************************************)
HeldBy(key) ==
  { User(u.id) : u \in { x \in dump.users : Fold(x.login) = key } } \cup
  { Team(t.id) : t \in { x \in dump.teams : Fold(Tail(x.login)) = key /\ IsTeam(x.login) } }

(***************************************************************************)
(* Whoever is entered under a login holds it.                              *)
(***************************************************************************)
HoldersInv ==
  /\ \A key \in DOMAIN users : users[key].owner \in HeldBy(key) /\ Fold(key) = key
  /\ \A key \in DOMAIN teams : teams[key].owner \in HeldBy(key) /\ Fold(key) = key

(***************************************************************************)
(* Owners have the crates of the rows read so far.                         *)
(***************************************************************************)
OwnersInv ==
  /\ DOMAIN owners = { o.owner : o \in Done("owners") }
  /\ \A who : /\ IsSeq(Owned(who))
              /\ ToSet(Owned(who)) =
                   { o.crate : o \in { x \in Done("owners") : x.owner = who } }

(***************************************************************************)
(* What has been parsed asks for what its text says, and there is no label *)
(* without a query.                                                        *)
(***************************************************************************)
AnswersInv ==
  /\ AsksWhatItSays
  /\ Len(queries) <= IdLimit
  /\ Len(labels) <= Len(queries)
  /\ pc = "format" => Len(queries) = Len(given)

(***************************************************************************)
(* The organization and team of a login are a login.                       *)
(***************************************************************************)
LEMMA TailIsSeq ==
  ASSUME NEW S, NEW s \in Seq(S), s # << >>
  PROVE  Tail(s) \in Seq(S)
OBVIOUS

(***************************************************************************)
(* Folding a folded login changes nothing.                                 *)
(***************************************************************************)
LEMMA FoldTwice ==
  ASSUME NEW login \in Seq(DOMAIN Lower)
  PROVE  Fold(Fold(login)) = Fold(login)
<1>1. \A i \in DOMAIN login : login[i] \in DOMAIN Lower
  OBVIOUS
<1>2. \A i \in DOMAIN login : Lower[Lower[login[i]]] = Lower[login[i]]
  BY <1>1, QueriesAssumption
<1> QED BY <1>2 DEF Fold

(***************************************************************************)
(* Entering a holder keeps every entry one of a holder, also if the login  *)
(* is there already.                                                       *)
(***************************************************************************)
LEMMA EnterKeeps ==
  ASSUME NEW map, NEW login, NEW owner, Fold(Fold(login)) = Fold(login),
         owner \in HeldBy(Fold(login)),
         \A key \in DOMAIN map : map[key].owner \in HeldBy(key) /\ Fold(key) = key
  PROVE  \A key \in DOMAIN Enter(map, login, owner) :
            Enter(map, login, owner)[key].owner \in HeldBy(key) /\ Fold(key) = key
BY DEF Enter, With

(***************************************************************************)
(* What is read is a row of the dump.                                      *)
(***************************************************************************)
LEMMA ReadRow ==
  ASSUME TablesInv, NEW table \in TableNames, NEW row, Read(table, row)
  PROVE  row \in dump[table] /\ dump \in Tables
BY DEF TablesInv, Read

(***************************************************************************)
(* Every step keeps the holders, the merge of teams and users included.    *)
(***************************************************************************)
LEMMA HoldersKept ==
  ASSUME QueriesInv, HoldersInv, [Next]_vars
  PROVE  HoldersInv'
<1>1. ASSUME UNCHANGED <<dump, users, teams>> PROVE HoldersInv'
  BY <1>1 DEF HoldersInv, HeldBy
<1>2. ASSUME NEW row, ReadUser(row) PROVE HoldersInv'
  <2>1. row \in dump.users /\ dump \in Tables
    <3>1. "users" \in TableNames /\ Read("users", row)
      BY <1>2 DEF TableNames, ReadUser
    <3> QED BY <3>1, ReadRow DEF QueriesInv
  <2>2. Fold(Fold(row.login)) = Fold(row.login)
    BY <2>1, FoldTwice, QueriesAssumption
  <2>3. User(row.id) \in HeldBy(Fold(row.login))
    BY <2>1 DEF HeldBy
  <2>4. users' = Enter(users, row.login, User(row.id)) /\ UNCHANGED <<dump, teams>>
    BY <1>2 DEF ReadUser
  <2>5. \A key \in DOMAIN users' : users'[key].owner \in HeldBy(key) /\ Fold(key) = key
    BY <2>2, <2>3, <2>4, EnterKeeps DEF HoldersInv
  <2> QED BY <2>4, <2>5 DEF HoldersInv, HeldBy
<1>3. ASSUME NEW row, ReadTeam(row), IsTeam(row.login) PROVE HoldersInv'
  <2>1. row \in dump.teams /\ dump \in Tables
    <3>1. "teams" \in TableNames /\ Read("teams", row)
      BY <1>3 DEF TableNames, ReadTeam
    <3> QED BY <3>1, ReadRow DEF QueriesInv
  <2> DEFINE name == Tail(row.login)
  <2>2. Fold(Fold(name)) = Fold(name)
    <3>1. row.login \in Seq(DOMAIN Lower) /\ row.login # << >>
      BY <2>1, QueriesAssumption
    <3>2. name \in Seq(DOMAIN Lower)
      BY <3>1, TailIsSeq
    <3> HIDE DEF name
    <3> QED BY <3>2, FoldTwice
  <2>3. Team(row.id) \in HeldBy(Fold(name))
    BY <1>3, <2>1 DEF HeldBy
  <2>4. teams' = Enter(teams, name, Team(row.id)) /\ UNCHANGED <<dump, users>>
    BY <1>3 DEF ReadTeam
  <2>5. \A key \in DOMAIN teams' : teams'[key].owner \in HeldBy(key) /\ Fold(key) = key
    <3> HIDE DEF name
    <3> QED BY <2>2, <2>3, <2>4, EnterKeeps DEF HoldersInv
  <2> QED BY <2>4, <2>5 DEF HoldersInv, HeldBy
<1>4. CASE EndOfTables
  <2>1. /\ users' = [login \in DOMAIN users \cup DOMAIN teams |->
                       IF login \notin DOMAIN teams THEN users[login]
                       ELSE [owner |-> teams[login].owner,
                             login |-> (IF login \in DOMAIN users THEN users
                                        ELSE teams)[login].login]]
        /\ UNCHANGED <<dump, teams>>
    BY <1>4 DEF EndOfTables
  <2>2. \A login \in DOMAIN users' :
          users'[login].owner = (IF login \in DOMAIN teams THEN teams ELSE users)[login].owner
    BY <2>1
  <2> QED BY <2>1, <2>2 DEF HoldersInv, HeldBy
<1>5. ASSUME NEW row, ReadTeam(row), ~IsTeam(row.login) PROVE HoldersInv'
  BY <1>1, <1>5 DEF ReadTeam
<1>6. CASE \/ Validate \/ MendCrate \/ (\E row \in unread.crates : ReadCrate(row))
           \/ (\E row \in unread.owners : ReadOwner(row))
           \/ Parse \/ Parsed \/ Format \/ UNCHANGED vars
  BY <1>1, <1>6 DEF Validate, MendCrate, ReadCrate, ReadOwner, Parse, Parsed, Format, vars
<1> QED BY <1>2, <1>3, <1>4, <1>5, <1>6 DEF Next

(***************************************************************************)
(* Every step keeps the crates of the owners.                              *)
(***************************************************************************)
LEMMA OwnersKept ==
  ASSUME QueriesInv, OwnersInv, [Next]_vars
  PROVE  OwnersInv'
<1>1. ASSUME UNCHANGED owners, Done("owners")' = Done("owners") PROVE OwnersInv'
  BY <1>1 DEF OwnersInv, Owned
<1>2. ASSUME NEW table \in TableNames \ {"owners"}, NEW row, Read(table, row),
             UNCHANGED <<dump, owners>>
      PROVE  OwnersInv'
  <2>1. Done("owners")' = Done("owners")
    BY <1>2, ReadMoves DEF QueriesInv, TableNames
  <2> QED BY <1>1, <1>2, <2>1
<1>3. ASSUME NEW row, ReadOwner(row) PROVE OwnersInv'
  <2>1. Read("owners", row) /\ UNCHANGED dump
        /\ owners' = With(owners, row.owner, Append(Owned(row.owner), row.crate))
    BY <1>3 DEF ReadOwner
  <2>2. Done("owners")' = Done("owners") \cup {row}
    BY <2>1, ReadMoves DEF QueriesInv, TableNames
  <2>3. DOMAIN owners' = DOMAIN owners \cup {row.owner}
    BY <2>1 DEF With
  <2>4. \A who : Owned(who)' = IF who = row.owner THEN Append(Owned(who), row.crate)
                                                  ELSE Owned(who)
    BY <2>1, <2>3 DEF With, Owned
  <2>5. ASSUME NEW who
        PROVE  /\ IsSeq(Owned(who)')
               /\ ToSet(Owned(who)') =
                    { o.crate : o \in { x \in Done("owners") \cup {row} : x.owner = who } }
    <3>1. /\ IsSeq(Owned(who))
          /\ ToSet(Owned(who)) = { o.crate : o \in { x \in Done("owners") : x.owner = who } }
      BY DEF OwnersInv
    <3>2. CASE who = row.owner
      <4>1. Owned(who)' = Append(Owned(who), row.crate)
        BY <2>4, <3>2
      <4>2. IsSeq(Append(Owned(who), row.crate))
        BY <3>1, AppendIsSeq
      <4>3. ToSet(Append(Owned(who), row.crate)) = ToSet(Owned(who)) \cup {row.crate}
        BY <3>1, AppendAdds
      <4> QED BY <3>1, <3>2, <4>1, <4>2, <4>3
    <3>3. CASE who # row.owner
      BY <2>4, <3>1, <3>3
    <3> QED BY <3>2, <3>3
  <2>6. { o.owner : o \in Done("owners") \cup {row} } =
        { o.owner : o \in Done("owners") } \cup {row.owner}
    OBVIOUS
  <2>7. DOMAIN owners' = { o.owner : o \in Done("owners")' }
    BY <2>2, <2>3, <2>6 DEF OwnersInv
  <2> QED BY <2>2, <2>5, <2>7 DEF OwnersInv, IsSeq
<1>4. CASE \/ Validate \/ MendCrate \/ EndOfTables \/ Parse \/ Parsed \/ Format
           \/ UNCHANGED vars
  <2>1. UNCHANGED <<dump, unread, owners>>
    BY <1>4 DEF Validate, MendCrate, EndOfTables, Parse, Parsed, Format, vars
  <2> QED BY <1>1, <2>1 DEF Done
<1>5. ASSUME NEW row, ReadCrate(row) \/ ReadUser(row) \/ ReadTeam(row) PROVE OwnersInv'
  BY <1>2, <1>5 DEF ReadCrate, ReadUser, ReadTeam, TableNames
<1> QED BY <1>3, <1>4, <1>5 DEF Next

-----------------------------------------------------------------------------
(***************************************************************************)
(* Once the tables are read, what is made of a part that parses is one of  *)
(* its meanings.                                                           *)
(***************************************************************************)
LEMMA PredicatesMean ==
  ASSUME QueriesInv, HoldersInv, OwnersInv, pc \notin BeforeTables,
         NEW p, p.by \in {"owner", "crate"}, Parses(p)
  PROVE  IsSeq(Predicates(p)) /\ ToSet(Predicates(p)) \in Meanings(p)
<1>1. crates = dump.crates \cup Restored /\ Done("owners") = dump.owners
  BY AllCrates DEF QueriesInv, TablesInv, Done, TableNames
<1>2. CASE p.by = "crate"
  <2> DEFINE c == CrateNamed(p.name)
             a == [crate |-> c.id, req |-> p.req]
  <2>1. c \in CratesNamed(p.name)
    BY <1>2 DEF Parses, CrateNamed
  <2>2. c \in { x \in dump.crates \cup Restored : Folded[x.name] = Folded[p.name] }
    BY <1>1, <2>1 DEF CratesNamed
  <2>3. Predicates(p) = << a >>
    BY <1>2 DEF Predicates
  <2>4. Meanings(p) = { {[crate |-> x.id, req |-> p.req]} :
                          x \in { y \in dump.crates \cup Restored :
                                    Folded[y.name] = Folded[p.name] } }
    BY <1>2 DEF Meanings
  <2> HIDE DEF c
  <2>5. {a} \in Meanings(p)
    BY <2>2, <2>4
  <2> HIDE DEF a
  <2>6. ToSet(<< a >>) = {a}
    BY DEF ToSet
  <2>7. << a >> \in Seq({a})
    OBVIOUS
  <2> QED BY <2>3, <2>5, <2>6, <2>7 DEF IsSeq
<1>3. CASE p.by = "owner"
  <2> DEFINE key == Fold(p.login)
             who == users[key].owner
             owned == Owned(who)
             A(c) == [crate |-> c, req |-> NoReq]
             s == [i \in DOMAIN owned |-> A(owned[i])]
  <2>1. key \in DOMAIN users
    BY <1>3 DEF Parses
  <2>2. who \in Holders(p.login)
    BY <2>1 DEF HoldersInv, HeldBy, Holders
  <2>3. Predicates(p) = s
    BY <1>3, <2>1 DEF Predicates
  <2>4. Meanings(p) = { { A(o.crate) : o \in { x \in dump.owners : x.owner = h } } :
                          h \in Holders(p.login) }
    BY <1>3 DEF Meanings
  <2>5. IsSeq(owned) /\ ToSet(owned) = { o.crate : o \in { x \in dump.owners : x.owner = who } }
    BY <1>1 DEF OwnersInv
  <2> HIDE DEF who, owned
  <2>6. { A(o.crate) : o \in { x \in dump.owners : x.owner = who } } \in Meanings(p)
    BY <2>2, <2>4
  <2>7. DOMAIN owned = 1 .. Len(owned) /\ Len(owned) \in Nat
    BY <2>5 DEF IsSeq
  <2> HIDE DEF A
  <2>8. ToSet(s) = { A(c) : c \in ToSet(owned) }
    BY DEF ToSet
  <2>9. ToSet(s) = { A(o.crate) : o \in { x \in dump.owners : x.owner = who } }
    BY <2>5, <2>8
  <2>10. \A i \in DOMAIN owned : A(owned[i]) \in ToSet(s)
    BY DEF ToSet
  <2>11. s \in Seq(ToSet(s))
    <3> DEFINE T == ToSet(s)
    <3> HIDE DEF T
    <3>1. \A i \in DOMAIN owned : A(owned[i]) \in T
      BY <2>10 DEF T
    <3>2. s \in Seq(T)
      BY <2>7, <3>1
    <3> QED BY <3>2 DEF T
  <2> QED BY <2>3, <2>6, <2>9, <2>11 DEF IsSeq
<1> QED BY <1>2, <1>3

(***************************************************************************)
(* So a query whose parts all parse asks for what they mean, and for       *)
(* nothing else.                                                           *)
(***************************************************************************)
LEMMA QueryMeans ==
  ASSUME QueriesInv, HoldersInv, OwnersInv, pc \notin BeforeTables,
         NEW text \in ToSet(given), \A p \in ToSet(text) : Parses(p),
         NEW asked,
         asked = ToSet(FlattenSeq([k \in DOMAIN text |-> Predicates(text[k])]))
  PROVE  /\ \A p \in ToSet(text) : \E m \in Meanings(p) : m \subseteq asked
         /\ \A a \in asked : \E p \in ToSet(text) : \E m \in Meanings(p) : a \in m
<1> DEFINE S == UNION { ToSet(Predicates(p)) : p \in ToSet(text) }
           ss == [k \in DOMAIN text |-> Predicates(text[k])]
<1>1. /\ text \in Seq(ToSet(text))
      /\ \A p \in ToSet(text) : p.by \in {"owner", "crate"}
  BY QueriesAssumption DEF QueriesInv, ParseInv
<1>2. Len(text) \in Nat /\ DOMAIN text = 1 .. Len(text)
      /\ \A k \in DOMAIN text : text[k] \in ToSet(text)
  BY <1>1
<1>3. \A p \in ToSet(text) : IsSeq(Predicates(p)) /\ ToSet(Predicates(p)) \in Meanings(p)
  BY <1>1, PredicatesMean
<1>4. \A p \in ToSet(text) : Predicates(p) \in Seq(S)
  <2> SUFFICES ASSUME NEW p \in ToSet(text) PROVE Predicates(p) \in Seq(S)
    OBVIOUS
  <2>1. ToSet(Predicates(p)) \subseteq S /\ Predicates(p) \in Seq(ToSet(Predicates(p)))
    BY <1>3 DEF IsSeq
  <2> HIDE DEF S
  <2> QED BY <2>1
<1>5. ss \in Seq(Seq(S))
  <2>1. \A k \in 1 .. Len(text) : Predicates(text[k]) \in Seq(S)
    BY <1>2, <1>4
  <2>2. ss = [k \in 1 .. Len(text) |-> Predicates(text[k])]
    BY <1>2
  <2> HIDE DEF S, ss
  <2> QED BY <1>2, <2>1, <2>2
<1>6. asked = UNION { ToSet(ss[k]) : k \in DOMAIN ss }
  <2>1. asked = ToSet(FlattenSeq(ss))
    OBVIOUS
  <2> HIDE DEF S, ss
  <2> QED BY <1>5, <2>1, FlattenKeeps
<1>7. \A a : a \in asked <=> \E k \in DOMAIN text : a \in ToSet(Predicates(text[k]))
  BY <1>6
<1>8. \A p \in ToSet(text) : \E k \in DOMAIN text : p = text[k]
  BY DEF ToSet
<1>9. ASSUME NEW p \in ToSet(text) PROVE \E m \in Meanings(p) : m \subseteq asked
  <2>1. ToSet(Predicates(p)) \subseteq asked
    BY <1>7, <1>8
  <2> QED BY <1>3, <2>1
<1>10. ASSUME NEW a \in asked
       PROVE  \E p \in ToSet(text) : \E m \in Meanings(p) : a \in m
  <2>1. PICK k \in DOMAIN text : a \in ToSet(Predicates(text[k]))
    BY <1>7
  <2> QED BY <1>2, <1>3, <2>1
<1> QED BY <1>9, <1>10

(***************************************************************************)
(* A step that leaves the queries leaves what they ask.                    *)
(***************************************************************************)
LEMMA AskedKept ==
  ASSUME AsksWhatItSays, UNCHANGED <<dump, given, queries>>,
         queries = << >> \/ UNCHANGED crates
  PROVE  AsksWhatItSays'
<1>1. CASE queries = << >>
  <2>1. queries' = << >> /\ DOMAIN queries' = {}
    BY <1>1
  <2> QED BY <2>1 DEF AsksWhatItSays
<1>2. CASE UNCHANGED crates
  <2>1. \A p : Meanings(p)' = Meanings(p)
    BY <1>2 DEF Meanings, Restored, Holders, Fold, IsTeam
  <2> QED BY <2>1 DEF AsksWhatItSays
<1> QED BY <1>1, <1>2

(***************************************************************************)
(* Every step keeps the answers; parsing one more query adds the right     *)
(* one.                                                                    *)
(***************************************************************************)
LEMMA AnswersKept ==
  ASSUME QueriesInv, HoldersInv, OwnersInv, AnswersInv, [Next]_vars
  PROVE  AnswersInv'
<1>0. IsSeq(queries) /\ IsSeq(labels) /\ given \in CommandLines
      /\ (pc \in BeforeTables => queries = << >>)
  BY DEF QueriesInv, ParseInv
<1>1. ASSUME UNCHANGED <<dump, given, queries, labels>>,
             queries = << >> \/ UNCHANGED crates,
             pc' = "format" => Len(queries) = Len(given)
      PROVE  AnswersInv'
  BY <1>1, AskedKept DEF AnswersInv
<1>2. CASE \/ Validate \/ EndOfTables \/ UNCHANGED vars \/ Parsed
           \/ (\E row \in unread.users : ReadUser(row))
           \/ (\E row \in unread.teams : ReadTeam(row))
           \/ (\E row \in unread.owners : ReadOwner(row))
  BY <1>1, <1>2 DEF Validate, EndOfTables, Parsed, ReadUser, ReadTeam, ReadOwner,
     vars, AnswersInv
<1>5. CASE MendCrate \/ (\E row \in unread.crates : ReadCrate(row))
  <2>1. /\ pc = "load" /\ pc' \in {"load", "panicked"}
        /\ UNCHANGED <<dump, given, queries, labels>>
    BY <1>5 DEF MendCrate, ReadCrate, Read, Insert
  <2>2. queries = << >>
    BY <1>0, <2>1 DEF BeforeTables
  <2> QED BY <1>1, <2>1, <2>2
<1>3. CASE Format
  <2>1. /\ pc = "format" /\ Len(labels) < Len(given) /\ UNCHANGED <<dump, given, crates, queries>>
        /\ UNCHANGED labels \/ (\E l : labels' = Append(labels, l) /\ UNCHANGED pc)
    BY <1>3 DEF Format
  <2>2. Len(labels') <= Len(queries)
    BY <1>0, <2>1, AppendIsSeq, GivenPlaces DEF AnswersInv
  <2>3. AsksWhatItSays'
    BY <2>1, AskedKept DEF AnswersInv
  <2> QED BY <2>1, <2>2, <2>3 DEF AnswersInv
<1>4. CASE Parse
  <2> DEFINE i == Len(queries)
             text == given[i + 1]
             asks == FlattenSeq([k \in DOMAIN text |-> Predicates(text[k])])
  <2>1. /\ pc = "parse" /\ i < Len(given) /\ i \in Nat /\ Len(given) \in Nat
        /\ UNCHANGED <<dump, given, unread, crates, mended, users, teams, owners, labels>>
        /\ IdLimit \in Nat
    BY <1>0, <1>4, QueriesAssumption, GivenPlaces, AppendIsSeq DEF Parse
  <2>2. CASE UNCHANGED queries /\ pc' \in {"panicked", "failed"}
    BY <1>1, <2>1, <2>2
  <2>3. CASE /\ ~TooMany(i) /\ (\A p \in ToSet(text) : Parses(p))
             /\ queries' = Append(queries, [id |-> i, predicates |-> asks])
             /\ UNCHANGED pc
    <3>1. text \in ToSet(given)
      <4>1. i + 1 \in 1 .. Len(given)
        BY <2>1
      <4> QED BY <1>0, <4>1, GivenPlaces
    <3> DEFINE asked == ToSet(asks)
    <3>2. /\ \A p \in ToSet(text) : \E m \in Meanings(p) : m \subseteq asked
          /\ \A a \in asked : \E p \in ToSet(text) : \E m \in Meanings(p) : a \in m
      BY <2>1, <2>3, <3>1, QueryMeans DEF BeforeTables
    <3> HIDE DEF asks
    <3>3. /\ Len(queries') = i + 1 /\ DOMAIN queries' = 1 .. i + 1
          /\ \A k \in 1 .. i : queries'[k] = queries[k]
          /\ queries'[i + 1] = [id |-> i, predicates |-> asks]
          /\ DOMAIN queries = 1 .. i
      <4> DEFINE q == [id |-> i, predicates |-> asks]
                 T == ToSet(queries) \cup {q}
      <4>0. queries' = Append(queries, q)
        BY <2>3
      <4>1. queries \in Seq(T) /\ q \in T
        <5>1. queries \in Seq(ToSet(queries)) /\ ToSet(queries) \subseteq T
          BY <1>0 DEF IsSeq
        <5>2. q \in T
          OBVIOUS
        <5> HIDE DEF T
        <5> QED BY <5>1, <5>2
      <4> HIDE DEF T, q
      <4>2. /\ Len(queries') = i + 1 /\ DOMAIN queries' = 1 .. i + 1
            /\ \A k \in 1 .. i : queries'[k] = queries[k]
            /\ queries'[i + 1] = q
            /\ DOMAIN queries = 1 .. i
        BY <4>0, <4>1
      <4> QED BY <4>2 DEF q
    <3>4. \A p : Meanings(p)' = Meanings(p)
      BY <2>1 DEF Meanings, Restored, Holders, Fold, IsTeam
    <3> DEFINE Right(k, q) ==
          /\ q.id = k - 1
          /\ \A p \in ToSet(given[k]) : \E m \in Meanings(p) : m \subseteq ToSet(q.predicates)
          /\ \A a \in ToSet(q.predicates) : \E p \in ToSet(given[k]) :
                \E m \in Meanings(p) : a \in m
    <3>5. \A k \in 1 .. i : Right(k, queries[k])
      BY <3>3 DEF AnswersInv, AsksWhatItSays
    <3>6. Right(i + 1, queries'[i + 1])
      <4>1. i + 1 - 1 = i
        BY <2>1
      <4> QED BY <3>2, <3>3, <4>1
    <3>7. \A k \in 1 .. i + 1 : Right(k, queries'[k])
      <4>1. 1 .. i + 1 = (1 .. i) \cup {i + 1}
        BY <2>1
      <4> HIDE DEF Right
      <4> QED BY <3>3, <3>5, <3>6, <4>1
    <3>8. AsksWhatItSays'
      BY <2>1, <3>3, <3>4, <3>7 DEF AsksWhatItSays
    <3>9. Len(queries') <= IdLimit
      BY <2>1, <2>3, <3>3 DEF TooMany
    <3>10. Len(labels') <= Len(queries')
      <4>1. Len(labels) \in Nat /\ Len(labels) <= i
        BY <1>0, AppendIsSeq DEF AnswersInv
      <4> QED BY <2>1, <3>3, <4>1
    <3>11. pc' # "format"
      BY <2>1, <2>3
    <3> QED BY <3>8, <3>9, <3>10, <3>11 DEF AnswersInv
  <2> QED BY <1>4, <2>2, <2>3 DEF Parse
<1> QED BY <1>2, <1>3, <1>4, <1>5 DEF Next

(***************************************************************************)
(* The second inductive invariant.                                         *)
(***************************************************************************)
LEMMA AnswersHold == Spec => [](QueriesInv /\ HoldersInv /\ OwnersInv /\ AnswersInv)
<1>1. Init => HoldersInv /\ OwnersInv /\ AnswersInv
  <2> SUFFICES ASSUME Init PROVE HoldersInv /\ OwnersInv /\ AnswersInv
    OBVIOUS
  <2>1. HoldersInv
    BY DEF Init, HoldersInv
  <2>2. Done("owners") = {}
    BY DEF Init, Done
  <2>3. \A who : Owned(who) = << >>
    BY DEF Init, Owned
  <2>4. IsSeq(<< >>) /\ ToSet(<< >>) = {}
    BY DEF IsSeq, ToSet
  <2>5. OwnersInv
    BY <2>2, <2>3, <2>4 DEF Init, OwnersInv
  <2>6. AnswersInv
    BY QueriesAssumption DEF Init, AnswersInv, AsksWhatItSays
  <2> QED BY <2>1, <2>5, <2>6
<1>2. QueriesInv /\ HoldersInv /\ OwnersInv /\ AnswersInv /\ [Next]_vars
        => (HoldersInv /\ OwnersInv /\ AnswersInv)'
  BY HoldersKept, OwnersKept, AnswersKept
<1> QED BY <1>1, <1>2, InvHolds, PTL DEF Spec

(***************************************************************************)
(* For any tables, read in any order, and any command line: a parsed query *)
(* has its place as id, and asks for the crates it names and all crates of *)
(* the owners it names.                                                    *)
(***************************************************************************)
THEOREM AnswersWhatIsAsked == Spec => []AsksWhatItSays
<1>1. AnswersInv => AsksWhatItSays
  BY DEF AnswersInv
<1> QED BY <1>1, AnswersHold, PTL

(***************************************************************************)
(* For any tables and command line, TypeOK always holds: ids fit, and maps *)
(* hold folded logins.                                                     *)
(***************************************************************************)
THEOREM QueriesTyped == Spec => []TypeOK
<1>1. QueriesInv /\ HoldersInv /\ OwnersInv /\ AnswersInv => TypeOK
  <2> SUFFICES ASSUME QueriesInv, HoldersInv, OwnersInv, AnswersInv PROVE TypeOK
    OBVIOUS
  <2>1. pc \in {"validate", "rejected", "load", "parse", "failed", "format", "panicked"}
    BY DEF QueriesInv, ParseInv, BeforeTables
  <2>2. /\ dump.crates \ unread.crates \subseteq crates
        /\ mended \in 0 .. Len(MendedCrates)
        /\ \A c \in crates \ dump.crates : c.name \in ToSet(MendedCrates)
    BY DEF QueriesInv, CratesInv, Done
  <2>3. \A login \in DOMAIN users \cup DOMAIN teams : Fold(login) = login
    BY DEF HoldersInv
  <2>4. DOMAIN owners = { o.owner : o \in dump.owners \ unread.owners }
    BY DEF OwnersInv, Done
  <2>5. \A i \in DOMAIN queries : queries[i].id \in 0 .. IdLimit - 1
    <3>1. Len(queries) \in Nat /\ DOMAIN queries = 1 .. Len(queries)
      BY DEF QueriesInv, ParseInv, IsSeq
    <3> QED BY <3>1, QueriesAssumption DEF AnswersInv, AsksWhatItSays
  <2> QED BY <2>1, <2>2, <2>3, <2>4, <2>5 DEF TypeOK, AnswersInv
<1> QED BY <1>1, AnswersHold, PTL
=============================================================================
