----------------------------- MODULE QtVersions -----------------------------
(***************************************************************************)
(* Qt versions, and how names of repository directories spell them:        *)
(* 6.8.3 is qt6_683, and qt6_6101 is read as 6.10.1.                       *)
(* (internal/qtrepo/version.go, client.go)                                 *)
(*                                                                         *)
(* A spelling is a sequence of digits.  A directory name is what the index *)
(* of a repository calls it: qt<family>_<version>_<extension>, extension   *)
(* "" when it has none.                                                    *)
(***************************************************************************)
EXTENDS Naturals, Sequences, SequencesExt

Version(major, minor, patch) == [major |-> major, minor |-> minor, patch |-> patch]

\* The versions that the model spells: of Qt 6, with numbers that Digits knows.
QtReleases == [major : {6}, minor : 0..999, patch : 0..999]

\* Digits of a number below 1000.
Digits(n) ==
  IF n < 10 THEN <<n>>
  ELSE IF n < 100 THEN <<n \div 10, n % 10>>
  ELSE <<n \div 100, (n \div 10) % 10, n % 10>>

Number(digits) == FoldLeft(LAMBDA n, d : 10 * n + d, 0, digits)

Compact(v) == Digits(v.major) \o Digits(v.minor) \o Digits(v.patch)

AtLeast(v, w) ==
  \/ v.major > w.major
  \/ /\ v.major = w.major
     /\ v.minor > w.minor \/ (v.minor = w.minor /\ v.patch >= w.patch)

Supported(v) == AtLeast(v, Version(6, 8, 0))

Unread == Version(0, 0, 0)

\* Mutated form: two digits are a minor version.
ParseCompactLongMinor(major, spelled) ==
  LET rest  == SubSeq(spelled, Len(Digits(major)) + 1, Len(spelled))
      split == IF Len(rest) < 2 THEN 1 ELSE 2
  IN  IF ~IsPrefix(Digits(major), spelled) \/ rest = <<>> THEN Unread
      ELSE Version(major, Number(SubSeq(rest, 1, split)), Number(SubSeq(rest, split + 1, Len(rest))))

\* One digit after the major version is the minor version, of two the second
\* is the patch, and of more everything behind the second.
ParseCompact(major, spelled) ==
  LET rest  == SubSeq(spelled, Len(Digits(major)) + 1, Len(spelled))
      split == IF Len(rest) <= 2 THEN 1 ELSE 2
  IN  IF ~IsPrefix(Digits(major), spelled) \/ rest = <<>> THEN Unread
      ELSE Version(major, Number(SubSeq(rest, 1, split)), Number(SubSeq(rest, split + 1, Len(rest))))

\* A spelling that ParseCompact reads as another version: a patch of two digits
\* behind a minor version of one, or a minor version of three.
Misread(v) == v.minor >= 100 \/ (v.minor < 10 /\ v.patch >= 10)

SourceExtensions == {"unix_line_endings_src", "windows_line_endings_src", "src_doc_examples"}

\* Directories of a repository index that stand for a release.
Includes(target, name) ==
  /\ Supported(ParseCompact(name.family, name.version))
  /\ name.extension # "" => target = "qt" /\ name.extension \in SourceExtensions

\* What parseVersions reads in the index of a target's repository.
VersionsIn(target, index) ==
  {ParseCompact(name.family, name.version) : name \in {n \in index : Includes(target, n)}}
=============================================================================
