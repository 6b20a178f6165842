---------------------------- MODULE VersionOrder ----------------------------
(***************************************************************************)
(* registry/version_list.go, tool/fqn.go and Resolver.ListVersions: the    *)
(* tags of two sources become one list of versions, newest first, and      *)
(* toolbox resolve --upgrade takes its head.                               *)
(*                                                                         *)
(* A version keeps what compareVersions reads of it.  "text" is the place  *)
(* of its spelling among the spellings of all tags: strings are compared   *)
(* by it, and two versions are the same one when it is equal.              *)
(***************************************************************************)
EXTENDS Integers, Sequences, FiniteSets, SequencesExt

CONSTANTS
  Tags,        \* the tags that sources may have
  MaxInt,      \* the greatest number that strconv.Atoi takes
  Published,   \* what the sources answer, from which Init chooses
  Declared     \* versions that the toolset file may name

VARIABLES
  answer,      \* what each source answers: ok and its tags, not found, or an error
  current,     \* the version the toolset file names
  listed,      \* the result of ListVersions
  phase

vars == <<answer, current, listed, phase>>

Sources == {"github", "git"}

\* A tag's kind is "release", with three numbers and a sequence of prerelease
\* identifiers, "pseudo", with a time stamp and a commit, or "other", which does not
\* parse.  An identifier is a word or all digits, which then are a number.
ParseVersion(tag) == tag.kind # "other"

IsPseudo(v) == v.kind = "pseudo"

intCompare(a, b) == IF a < b THEN -1 ELSE IF a > b THEN 1 ELSE 0

\* The numbers of a version that parse, that is, fit an int.
parseSemver(v) == \A i \in 1 .. 3 : v.nums[i] <= MaxInt

parseNumericIdentifier(id) == id.isDigits /\ id.number <= MaxInt

\* Mutant of compareIdentifier: identifiers are compared as strings.
compareIdentifierText(a, b) == intCompare(a.text, b.text)

compareIdentifier(a, b) ==
  IF parseNumericIdentifier(a)
  THEN IF parseNumericIdentifier(b) THEN intCompare(a.number, b.number) ELSE -1
  ELSE IF parseNumericIdentifier(b) THEN 1 ELSE intCompare(a.text, b.text)

\* The places at which two sequences differ, and the first of a set of places.
Differ(s, t, D(_, _)) == {i \in 1 .. Len(s) : i <= Len(t) /\ D(s[i], t[i])}
First(S) == CHOOSE i \in S : \A j \in S : i <= j

comparePrerelease(p, q) ==
  LET Other(a, b) == a.text # b.text
      D == Differ(p, q, Other)
  IN IF p = q THEN 0
     ELSE IF p = <<>> THEN 1
     ELSE IF q = <<>> THEN -1
     ELSE IF D # {} THEN compareIdentifier(p[First(D)], q[First(D)])
     ELSE intCompare(Len(p), Len(q))

compareNumbers(a, b) ==
  LET D == {i \in 1 .. 3 : a.nums[i] # b.nums[i]}
  IN IF D # {} THEN intCompare(a.nums[First(D)], b.nums[First(D)])
     ELSE comparePrerelease(a.pre, b.pre)

compareVersions(a, b) ==
  IF a.text = b.text THEN 0
  ELSE IF IsPseudo(a) /\ IsPseudo(b)
    THEN IF a.stamp # b.stamp THEN intCompare(a.stamp, b.stamp)
         ELSE intCompare(a.commit, b.commit)
  ELSE IF IsPseudo(a) THEN -1
  ELSE IF IsPseudo(b) THEN 1
  ELSE IF parseSemver(a) /\ parseSemver(b) THEN compareNumbers(a, b)
  ELSE intCompare(a.text, b.text)

\* sort.Slice is not stable; of lists this short it leaves no neighbours in the
\* wrong order.
sortVersionsDesc(S) ==
  {s \in SetToSeqs(S) : \A i \in 1 .. Len(s) - 1 : compareVersions(s[i + 1], s[i]) <= 0}

\* A source's ListVersions: the tags that parse, each once.
ListVersions(src) == {tag \in answer[src].tags : ParseVersion(tag)}

Answered(src) == answer[src].status = "ok"

Found == UNION {ListVersions(src) : src \in {s \in Sources : Answered(s)}}

-----------------------------------------------------------------------------

Init ==
  /\ answer \in Published
  /\ current \in Declared
  /\ listed = <<>>
  /\ phase = "start"

\* Resolver.ListVersions: sources that fail are passed over.
List ==
  /\ phase = "start"
  /\ \/ /\ Found # {}
        /\ listed' \in sortVersionsDesc(Found)
        /\ phase' = "listed"
     \/ /\ Found = {}
        /\ phase' = "failed"
        /\ UNCHANGED listed
  /\ UNCHANGED <<answer, current>>

\* runResolve with --upgrade.
Upgrade ==
  /\ phase = "listed"
  /\ current' = Head(listed)
  /\ phase' = "upgraded"
  /\ UNCHANGED <<answer, listed>>

Next == List \/ Upgrade

-----------------------------------------------------------------------------
\* Properties

Small(v) == IsPseudo(v) \/ parseSemver(v)

\* The precedence of semantic versioning: numbers, then a prerelease below its
\* release, its identifiers one by one, numbers below words, longer above shorter.
\* Pseudo-versions are below all releases and ordered by time and commit.
IdAbove(a, b) ==
  \/ ~a.isDigits /\ b.isDigits
  \/ a.isDigits /\ b.isDigits /\ a.number > b.number
  \/ ~a.isDigits /\ ~b.isDigits /\ a.text > b.text

PreAbove(p, q) ==
  \/ p = <<>> /\ q # <<>>
  \/ /\ p # <<>> /\ q # <<>>
     /\ \/ Len(p) > Len(q) /\ SubSeq(p, 1, Len(q)) = q
        \/ \E i \in 1 .. Len(p) :
             /\ i <= Len(q)
             /\ SubSeq(p, 1, i - 1) = SubSeq(q, 1, i - 1)
             /\ IdAbove(p[i], q[i])

Above(a, b) ==
  \/ a.kind = "release" /\ b.kind = "pseudo"
  \/ /\ a.kind = "pseudo" /\ b.kind = "pseudo"
     /\ a.stamp > b.stamp \/ (a.stamp = b.stamp /\ a.commit > b.commit)
  \/ /\ a.kind = "release" /\ b.kind = "release"
     /\ \/ \E i \in 1 .. 3 :
             /\ \A j \in 1 .. i - 1 : a.nums[j] = b.nums[j]
             /\ a.nums[i] > b.nums[i]
        \/ a.nums = b.nums /\ PreAbove(a.pre, b.pre)

\* "sorted newest-first": no version in the list has precedence over one before it,
\* whatever sort.Slice does with versions that differ in build metadata only, unless
\* a number in it is too large for an int (compareVersions is then no order at all).
\* An upgrade takes the first (versions[0] in runResolve): when both sources have
\* answered, no version that they have has precedence over it.
UpgradedToNewest ==
  (\A v \in Found : Small(v)) =>
    /\ \A i, j \in 1 .. Len(listed) : i < j => ~Above(listed[j], listed[i])
    /\ phase = "upgraded" /\ (\A src \in Sources : Answered(src))
         => \A v \in Found : ~Above(v, current)

=============================================================================
