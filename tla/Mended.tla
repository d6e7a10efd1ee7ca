------------------------------- MODULE Mended -------------------------------
(***************************************************************************)
(* The releases that mend.rs fills back in, written down as it lists them. *)
(*                                                                         *)
(*   release     [crate, num, time, features, dependencies]                *)
(*               features is a set of [name, enables], enables a set of    *)
(*               names of features of the same crate                       *)
(*   dependency  [crate, req, feature, kind]; the empty feature name is    *)
(*               that of a dependency that is not optional                 *)
(***************************************************************************)
EXTENDS Semver, FiniteSets

\* version!(major.minor.patch)
Num(major, minor, patch) ==
  [major |-> major, minor |-> minor, patch |-> patch, pre |-> NoPre]

\* version_req!(^major.minor)
Caret(major, minor) ==
  <<[op |-> "Caret", major |-> major, minor |-> minor, patch |-> Absent, pre |-> NoPre]>>

Month == [Jan |-> 1, Feb |-> 2, Mar |-> 3, Apr |-> 4, May |-> 5, Jun |-> 6,
          Jul |-> 7, Aug |-> 8, Sep |-> 9, Oct |-> 10, Nov |-> 11, Dec |-> 12]

\* Days from 1 January 1970.  Years are counted from March, so that a leap
\* day comes last.
Days(day, month, year) ==
  LET y == IF month > 2 THEN year ELSE year - 1
      m == IF month > 2 THEN month - 3 ELSE month + 9
  IN 365 * y + y \div 4 - y \div 100 + y \div 400
       + (153 * m + 2) \div 5 + day - 719469

\* datetime!(day month year hour:min:sec), in seconds
At(day, month, year, hour, min, sec) ==
  86400 * Days(day, month, year) + 3600 * hour + 60 * min + sec

Plain(crate, num, time) ==
  [crate |-> crate, num |-> num, time |-> time, features |-> {}, dependencies |-> << >>]

-----------------------------------------------------------------------------
Crates ==
  <<"futures", "git-version", "lazy_static", "partial-io", "quickcheck",
    "tokio-core", "tokio-io", "vela-utils", "xcm", "xcm-executor">>

GitVersion ==
  << Plain("git-version", Num(0, 1, 0), At(18, Month.Oct, 2017, 13, 53, 11)),
     Plain("git-version", Num(0, 1, 1), At(18, Month.Oct, 2017, 13, 55, 40)),
     Plain("git-version", Num(0, 1, 2), At(18, Month.Oct, 2017, 13, 57, 15)),
     Plain("git-version", Num(0, 2, 0), At(5, Month.Apr, 2018, 9, 14, 16)) >>

Tokio == [name |-> "tokio", enables |-> {"tokio-io", "futures"}]

Optional(crate, req) ==
  [crate |-> crate, req |-> req, feature |-> crate, kind |-> "Normal"]

DevOnly(crate, req) ==
  [crate |-> crate, req |-> req, feature |-> "", kind |-> "Dev"]

PartialIo(num, time, lazy, quick) ==
  [crate |-> "partial-io", num |-> num, time |-> time, features |-> {Tokio},
   dependencies |-> << Optional("futures", Caret(0, 1)),
                       DevOnly("lazy_static", lazy),
                       DevOnly("quickcheck", quick),
                       Optional("quickcheck", quick),
                       DevOnly("tokio-core", Caret(0, 1)),
                       Optional("tokio-io", Caret(0, 1)) >>]

\* The first one has the rows on quickcheck the other way round.
PartialIo010 ==
  [PartialIo(Num(0, 1, 0), At(26, Month.May, 2017, 2, 38, 58), Caret(0, 2), Caret(0, 4))
     EXCEPT !.dependencies = <<@[1], @[2], @[4], @[3], @[5], @[6]>>]
PartialIo011 ==
  PartialIo(Num(0, 1, 1), At(27, Month.May, 2017, 0, 56, 37), Caret(0, 2), Caret(0, 4))
PartialIo020 ==
  PartialIo(Num(0, 2, 0), At(30, Month.May, 2017, 21, 1, 28), Caret(0, 2), Caret(0, 4))
PartialIo021 ==
  PartialIo(Num(0, 2, 1), At(30, Month.May, 2017, 21, 47, 41), Caret(0, 2), Caret(0, 4))
PartialIo022 ==
  PartialIo(Num(0, 2, 2), At(12, Month.Jun, 2017, 5, 26, 52), Caret(0, 2), Caret(0, 4))
PartialIo023 ==
  PartialIo(Num(0, 2, 3), At(20, Month.Jul, 2017, 20, 1, 22), Caret(0, 2), Caret(0, 4))
PartialIo024 ==
  PartialIo(Num(0, 2, 4), At(19, Month.Aug, 2017, 23, 37, 51), Caret(0, 2), Caret(0, 4))
PartialIo025 ==
  PartialIo(Num(0, 2, 5), At(18, Month.Nov, 2017, 2, 26, 25), Caret(0, 2), Caret(0, 4))
PartialIo030 ==
  PartialIo(Num(0, 3, 0), At(12, Month.Jan, 2018, 22, 15, 15), Caret(1, 0), Caret(0, 6))

Xcm == Plain("xcm", Num(0, 0, 0), At(9, Month.Mar, 2021, 5, 51, 34))

XcmExecutor == Plain("xcm-executor", Num(0, 0, 0), At(9, Month.Mar, 2021, 6, 21, 39))

Releases ==
  GitVersion \o
  << PartialIo010, PartialIo011, PartialIo020, PartialIo021, PartialIo022,
     PartialIo023, PartialIo024, PartialIo025, PartialIo030, Xcm, XcmExecutor >>
=============================================================================
