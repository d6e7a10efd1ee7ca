------------------------------ MODULE Queries -------------------------------
(***************************************************************************)
(* From the queries on the command line to predicates and back to labels.  *)
(* The command line is validated first (args.rs), then the tables of       *)
(* crates, users, teams and owners are loaded (load.rs) and the names of   *)
(* deleted crates put back (mend.rs), the queries are parsed (query.rs)    *)
(* and, when the graph is drawn, the same text is parsed again for its     *)
(* labels.                                                                 *)
(*                                                                         *)
(* A query is a sequence of predicates, the parts between its "+":         *)
(*   [by |-> "owner", login]         "@login", a sequence of the parts     *)
(*                                   between the "/"                       *)
(*   [by |-> "crate", name, padded, req]  "name:req"; padded if there is   *)
(*                                   white space between name and colon    *)
(* A login in the tables is the sequence of its parts between the ":", and *)
(* a row of the crates is [id, name].                                      *)
(***************************************************************************)
EXTENDS Naturals, FiniteSets, SequencesExt

CONSTANTS Tables,       \* the tables: [crates, users, teams, owners], sets of rows
          MendedCrates, \* the names mend_crates restores, in order
          CommandLines, \* the sequences of queries given
          Lower,        \* part of a login -> the same in lower case
          Folded,       \* crate name -> the name with "_" replaced by "-"
          ValidNames,   \* what cratename::valid accepts
          ValidParts,   \* what user::valid accepts
          ValidReqs,    \* what VersionReq::from_str accepts
          NoReq,        \* no requirement is given
          IdLimit       \* query ids are below it: 2^8

TableNames == {"crates", "users", "teams", "owners"}

ASSUME QueriesAssumption ==
  /\ IdLimit \in Nat \ {0}
  /\ NoReq \in ValidReqs
  /\ MendedCrates \in Seq(ToSet(MendedCrates))
  /\ \A part \in DOMAIN Lower :
       Lower[part] \in DOMAIN Lower /\ Lower[Lower[part]] = Lower[part]
  /\ \A d \in Tables :
       /\ d = [t \in TableNames |-> d[t]]
       /\ IsFiniteSet(d.crates) /\ \A row \in d.crates : row.id \in Nat
       /\ \A row, other \in d.crates :
            row.id = other.id \/ Folded[row.name] = Folded[other.name] => row = other
       /\ \A row \in d.users \cup d.teams :
            row.login \in Seq(DOMAIN Lower) /\ row.login # << >>
  /\ \A line \in CommandLines :
       /\ line \in Seq(ToSet(line))
       /\ \A q \in ToSet(line) :
            /\ q \in Seq(ToSet(q))
            /\ \A p \in ToSet(q) : p.by \in {"owner", "crate"}

VARIABLES dump, given,
          unread,      \* table -> its rows that are still to come
          crates,      \* CrateMap.ids and names, one row per crate
          mended,      \* how many names mend_crates has looked at
          users,       \* folded login -> owner, and the login as written
          teams,       \* the same for teams, until they join the users
          owners,      \* owner -> the crates of its rows, in order
          queries,     \* what has been parsed
          labels,      \* what has been formatted
          pc
vars == <<dump, given, unread, crates, mended, users, teams, owners, queries, labels, pc>>

User(id) == [kind |-> "user", id |-> id]
Team(id) == [kind |-> "team", id |-> id]

Fold(login) == [i \in DOMAIN login |-> Lower[login[i]]]

With(map, key, value) ==
  [k \in DOMAIN map \cup {key} |-> IF k = key THEN value ELSE map[k]]

\* Inserting under a login that is there, in whatever case, keeps its spelling.
Enter(map, login, owner) ==
  LET key == Fold(login)
  IN With(map, key, [owner |-> owner,
                     login |-> IF key \in DOMAIN map THEN map[key].login ELSE login])

Init ==
  /\ dump \in Tables
  /\ given \in CommandLines
  /\ unread = dump
  /\ crates = {}
  /\ mended = 0
  /\ users = << >> /\ teams = << >> /\ owners = << >>
  /\ queries = << >> /\ labels = << >>
  /\ pc = "validate"

-----------------------------------------------------------------------------
(* validate_query, which clap calls for each query. *)

Valid(p) ==
  IF p.by = "owner" THEN ToSet(p.login) \subseteq ValidParts
  ELSE p.name \in ValidNames /\ p.req \in ValidReqs

Validate ==
  /\ pc = "validate"
  /\ pc' = IF \A q \in ToSet(given) : \A p \in ToSet(q) : Valid(p)
             THEN "load" ELSE "rejected"
  /\ UNCHANGED <<dump, given, unread, crates, mended, users, teams, owners, queries, labels>>

-----------------------------------------------------------------------------
Read(table, row) ==
  /\ pc = "load"
  /\ row \in unread[table]
  /\ \A t \in DOMAIN unread \ {table} : unread[t] \in {{}, dump[t]}
  /\ unread' = [unread EXCEPT ![table] = @ \ {row}]

\* Mutant: crate names compared letter by letter.
CratesSpelled(name) == { c \in crates : c.name = name }

\* CrateMap::id
CratesNamed(name) == { c \in crates : Folded[c.name] = Folded[name] }

\* CrateMap::insert, whose assertions hold if the name and the id are new.
Insert(crate) ==
  IF CratesNamed(crate.name) = {} /\ \A c \in crates : c.id # crate.id
    THEN crates' = crates \cup {crate} /\ UNCHANGED pc
    ELSE pc' = "panicked" /\ UNCHANGED crates

ReadCrate(row) ==
  /\ Read("crates", row)
  /\ Insert(row)
  /\ UNCHANGED <<dump, given, mended, users, teams, owners, queries, labels>>

ReadUser(row) ==
  /\ Read("users", row)
  /\ users' = Enter(users, row.login, User(row.id))
  /\ UNCHANGED <<dump, given, crates, mended, teams, owners, queries, labels, pc>>

\* Only logins of the form "github:org:team" are entered, as "org/team".
IsTeam(login) == login[1] = "github" /\ Len(Tail(login)) > 1

\* Mutant: a team is entered like a user.
ReadTeamAsUser(row) ==
  /\ Read("teams", row)
  /\ IF IsTeam(row.login)
       THEN teams' = Enter(teams, Tail(row.login), User(row.id))
       ELSE UNCHANGED teams
  /\ UNCHANGED <<dump, given, crates, mended, users, owners, queries, labels, pc>>

ReadTeam(row) ==
  /\ Read("teams", row)
  /\ IF IsTeam(row.login)
       THEN teams' = Enter(teams, Tail(row.login), Team(row.id))
       ELSE UNCHANGED teams
  /\ UNCHANGED <<dump, given, crates, mended, users, owners, queries, labels, pc>>

Owned(owner) == IF owner \in DOMAIN owners THEN owners[owner] ELSE << >>

ReadOwner(row) ==
  /\ Read("owners", row)
  /\ owners' = With(owners, row.owner, Append(Owned(row.owner), row.crate))
  /\ UNCHANGED <<dump, given, crates, mended, users, teams, queries, labels, pc>>

\* The first id from one on that no crate has.
FreshId ==
  LET used == { c.id : c \in crates }
  IN CHOOSE n \in 1 .. Cardinality(used) + 1 : n \notin used /\ 1 .. n - 1 \subseteq used

\* A turn of the loop in mend_crates, which restores what the dump lacks.
MendCrate ==
  /\ pc = "load"
  /\ \A t \in DOMAIN unread : unread[t] = {}
  /\ mended < Len(MendedCrates)
  /\ mended' = mended + 1
  /\ LET name == MendedCrates[mended + 1]
     IN IF CratesNamed(name) = {} THEN Insert([id |-> FreshId, name |-> name])
        ELSE UNCHANGED <<crates, pc>>
  /\ UNCHANGED <<dump, given, unread, users, teams, owners, queries, labels>>

\* The end of load: the teams join the users.  A login that is there keeps
\* its spelling.
EndOfTables ==
  /\ pc = "load"
  /\ \A t \in DOMAIN unread : unread[t] = {}
  /\ mended = Len(MendedCrates)
  /\ users' = [login \in DOMAIN users \cup DOMAIN teams |->
                 IF login \notin DOMAIN teams THEN users[login]
                 ELSE [owner |-> teams[login].owner,
                       login |-> (IF login \in DOMAIN users THEN users ELSE teams)[login].login]]
  /\ pc' = "parse"
  /\ UNCHANGED <<dump, given, unread, crates, mended, teams, owners, queries, labels>>

-----------------------------------------------------------------------------
\* Mutant: an unknown owner owns nothing.
ParsesIfCrate(p) ==
  p.by = "crate" => ~p.padded /\ CratesNamed(p.name) # {} /\ p.req \in ValidReqs

\* Only the ends of a predicate are trimmed: a padded name is no crate's name.
Parses(p) ==
  IF p.by = "owner" THEN Fold(p.login) \in DOMAIN users
  ELSE ~p.padded /\ CratesNamed(p.name) # {} /\ p.req \in ValidReqs

CrateNamed(name) == (CHOOSE c \in CratesNamed(name) : TRUE)

Predicates(p) ==
  IF p.by = "crate" THEN << [crate |-> CrateNamed(p.name).id, req |-> p.req] >>
  ELSE LET owned == IF Fold(p.login) \in DOMAIN users
                      THEN Owned(users[Fold(p.login)].owner) ELSE << >>
       IN [i \in DOMAIN owned |-> [crate |-> owned[i], req |-> NoReq]]

\* Mutant: one too many.
TooManyByOne(i) == i > IdLimit

\* u8::try_from(i) fails.
TooMany(i) == i >= IdLimit

\* One turn of the iterator in parse; the first error ends it.
Parse ==
  /\ pc = "parse"
  /\ Len(queries) < Len(given)
  /\ LET i == Len(queries)
         text == given[i + 1]
     IN CASE TooMany(i) -> pc' = "panicked" /\ UNCHANGED queries
          [] ~TooMany(i) /\ \E p \in ToSet(text) : ~Parses(p) ->
               pc' = "failed" /\ UNCHANGED queries
          [] OTHER ->
               /\ queries' = Append(queries,
                    [id |-> i, predicates |-> FlattenSeq([k \in DOMAIN text |-> Predicates(text[k])])])
               /\ UNCHANGED pc
  /\ UNCHANGED <<dump, given, unread, crates, mended, users, teams, owners, labels>>

Parsed ==
  /\ pc = "parse"
  /\ Len(queries) = Len(given)
  /\ pc' = "format"
  /\ UNCHANGED <<dump, given, unread, crates, mended, users, teams, owners, queries, labels>>

\* A label spells crates and owners as the tables do.
Spelled(p) ==
  IF p.by = "crate" THEN [name |-> CrateNamed(p.name).name, req |-> p.req]
  ELSE [login |-> users[Fold(p.login)].login]

Format ==
  /\ pc = "format"
  /\ Len(labels) < Len(given)
  /\ LET text == given[Len(labels) + 1]
     IN IF \A p \in ToSet(text) :
             IF p.by = "owner" THEN Fold(p.login) \in DOMAIN users ELSE Parses(p)
          THEN /\ labels' = Append(labels, [k \in DOMAIN text |-> Spelled(text[k])])
               /\ UNCHANGED pc
          ELSE pc' = "panicked" /\ UNCHANGED labels
  /\ UNCHANGED <<dump, given, unread, crates, mended, users, teams, owners, queries>>

Next ==
  \/ Validate
  \/ \E row \in unread.crates : ReadCrate(row)
  \/ \E row \in unread.users : ReadUser(row)
  \/ \E row \in unread.teams : ReadTeam(row)
  \/ \E row \in unread.owners : ReadOwner(row)
  \/ MendCrate
  \/ EndOfTables
  \/ Parse
  \/ Parsed
  \/ Format

Spec == Init /\ [][Next]_vars

-----------------------------------------------------------------------------
(***************************************************************************)
(* The type invariant: ids fit, maps hold folded logins, and the crates    *)
(* are those of the rows read and some that are restored.                  *)
(***************************************************************************)
TypeOK ==
  /\ pc \in {"validate", "rejected", "load", "parse", "failed", "format", "panicked"}
  /\ dump.crates \ unread.crates \subseteq crates
  /\ mended \in 0 .. Len(MendedCrates)
  /\ \A c \in crates \ dump.crates : c.name \in ToSet(MendedCrates)
  /\ \A login \in DOMAIN users \cup DOMAIN teams : Fold(login) = login
  /\ DOMAIN owners = { o.owner : o \in dump.owners \ unread.owners }
  /\ \A i \in DOMAIN queries : queries[i].id \in 0 .. IdLimit - 1
  /\ Len(labels) <= Len(queries)

(***************************************************************************)
(* What a predicate may mean, by the rows of the dump and by the crates    *)
(* that were restored: under an id that no other crate has, as no row has  *)
(* their name.  Two accounts may have used one login; the tables do not    *)
(* say which of them is meant.                                             *)
(***************************************************************************)
Restored ==
  { c \in crates : /\ c.name \in ToSet(MendedCrates)
                   /\ \A row \in dump.crates : Folded[row.name] # Folded[c.name]
                   /\ \A d \in crates \cup dump.crates : d.id = c.id => d = c }

Holders(login) ==
  { User(u.id) : u \in { x \in dump.users : Fold(x.login) = Fold(login) } } \cup
  { Team(t.id) : t \in { x \in dump.teams : Fold(Tail(x.login)) = Fold(login)
                                              /\ IsTeam(x.login) } }

Meanings(p) ==
  IF p.by = "crate"
    THEN { {[crate |-> c.id, req |-> p.req]} :
             c \in { x \in dump.crates \cup Restored : Folded[x.name] = Folded[p.name] } }
    ELSE { { [crate |-> o.crate, req |-> NoReq] :
               o \in { x \in dump.owners : x.owner = who } } : who \in Holders(p.login) }

(***************************************************************************)
(* A parsed query has its place as id, which is the column it is drawn     *)
(* from, and asks for the crates it names and all crates of the owners it  *)
(* names, whether a user and a team have the same number or not.           *)
(***************************************************************************)
AsksWhatItSays ==
  \A i \in DOMAIN queries :
    LET asked == ToSet(queries[i].predicates)
    IN /\ queries[i].id = i - 1
       /\ \A p \in ToSet(given[i]) : \E m \in Meanings(p) : m \subseteq asked
       /\ \A a \in asked : \E p \in ToSet(given[i]) : \E m \in Meanings(p) : a \in m

(***************************************************************************)
(* Parsing fails exactly if a query names what neither the dump has nor    *)
(* mend_crates restores: the spelling of separators and the case of logins *)
(* make no difference, nor does the order of the tables.  A padded name is *)
(* the exception.                                                          *)
(***************************************************************************)
Known(p) ==
  IF p.by = "owner" THEN Holders(p.login) # {}
  ELSE /\ ~p.padded
       /\ \E name \in { row.name : row \in dump.crates } \cup ToSet(MendedCrates) :
            Folded[name] = Folded[p.name]

FailsOnlyIfUnknown ==
  LET known == \A q \in ToSet(given) : \A p \in ToSet(q) : Known(p)
  IN (pc = "failed" => ~known) /\ (pc = "format" => known)

(***************************************************************************)
(* The names and ids of crates are told apart, the restored ones among the *)
(* others, and formatting the labels unwraps what parsing has found: the   *)
(* two passes agree on what parses.  So no assertion or unwrap panics, nor *)
(* anything but the query past the last id.                                *)
(***************************************************************************)
PanicsOnlyPastTheLimit == pc = "panicked" => Len(given) > IdLimit
=============================================================================
