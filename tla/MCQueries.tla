----------------------------- MODULE MCQueries ------------------------------
(***************************************************************************)
(* Bounded check of Queries: a user and a team of the same number, a login *)
(* used twice, a team that is not GitHub's, a crate that is restored and   *)
(* one that is or that the dump spells otherwise, and command lines of up  *)
(* to three queries with two query ids.                                    *)
(***************************************************************************)
EXTENDS Queries

LowerParts == [p \in {"github", "Alice", "alice", "bob", "Org", "org", "core"} |->
                 CASE p = "Alice" -> "alice" [] p = "Org" -> "org" [] OTHER -> p]

FoldedNames ==
  [n \in {"serde_json", "serde-json", "log", "nope", "git_version", "git-version", "xcm"} |->
     CASE n = "serde_json" -> "serde-json" [] n = "git_version" -> "git-version" [] OTHER -> n]

\* Two of the names in mend.rs.
SampleMended == <<"git-version", "xcm">>

SampleTables ==
  { [crates |-> {[id |-> 1, name |-> "serde_json"], [id |-> 3, name |-> "log"]} \cup other,
     users  |-> {[id |-> 1, login |-> <<"Alice">>]} \cup more,
     teams  |-> {[id |-> 1, login |-> <<"github", "Org", "core">>],
                 [id |-> 2, login |-> <<"org", "core">>]},
     owners |-> {[row |-> 1, owner |-> User(1), crate |-> 1],
                 [row |-> 2, owner |-> Team(1), crate |-> 3],
                 [row |-> 3, owner |-> User(1), crate |-> 3]}] :
      more \in {{}, {[id |-> 2, login |-> <<"alice">>]}},
      other \in {{}, {[id |-> 2, name |-> "git_version"]}} }

Crate(name, req)  == [by |-> "crate", name |-> name, padded |-> FALSE, req |-> req]
Padded(name, req) == [by |-> "crate", name |-> name, padded |-> TRUE, req |-> req]
Owner(login)      == [by |-> "owner", login |-> login]

SampleQueries ==
  { << Crate("serde-json", "any") >>,
    << Crate("log", "^1"), Owner(<<"alice">>) >>,
    << Crate("git-version", "any"), Crate("xcm", "^1") >>,
    << Owner(<<"org", "core">>) >>,
    << Owner(<<"bob">>) >>,
    << Padded("log", "^1") >>,
    << Crate("nope", "any") >>,
    << Crate("log", "one") >> }

SampleLines == UNION { [1 .. n -> SampleQueries] : n \in 1 .. 3 }
=============================================================================
