--------------------------- MODULE VersionCompare ---------------------------
(***************************************************************************)
(* What the agent says at its start of a newer release                     *)
(* (internal/update/index.go, CheckUpdate and versionCompare; called by    *)
(* cmd/lan/main.go with the version it was built with).                    *)
(*                                                                         *)
(* A version v1.2.3-beta4 is its three numbers and what follows the "-".   *)
(* The code takes the dots out and reads the digits as one number.         *)
(***************************************************************************)
EXTENDS Integers

CONSTANTS
  Numbers,     \* the numbers versions are made of
  NoVersion    \* "(devel)", "unknown", what does not begin with a v; no answer of the site

ASSUME NumbersAssumption == Numbers \subseteq 0..999 /\ 0 \in Numbers

Version ==
  [main : [1..3 -> Numbers], stage : {"release", "snapshot"}, beta : {0}]
  \cup [main : [1..3 -> Numbers], stage : {"beta"}, beta : Numbers]

ASSUME NoVersionAssumption == NoVersion \notin Version

VARIABLES
  version,     \* what the agent was built as
  latest,      \* the tag the site has named
  announced    \* whether the agent said that there is an update

updateVars == <<version, latest, announced>>

\* How the digits of what stands before n are moved up when n is written after them.
Width(n) == IF n < 10 THEN 10 ELSE IF n < 100 THEN 100 ELSE 1000

\* mutant: the last number of the version is left out
MainIntVersion_short(v) == v.main[1] * Width(v.main[2]) + v.main[2]

\* strconv.Atoi(strings.ReplaceAll(strings.TrimLeft(.., "v"), ".", ""))
MainIntVersion(v) ==
  (v.main[1] * Width(v.main[2]) + v.main[2]) * Width(v.main[3]) + v.main[3]

versionCompare(now, last) ==
  LET nowMain  == MainIntVersion(now)
      lastMain == MainIntVersion(last)
  IN  \/ nowMain < lastMain
      \/ now.stage = "snapshot" /\ nowMain # lastMain
      \/ now.stage = "release" /\ last.stage = "beta"
      \/ now.stage = "beta" /\ last.stage = "beta" /\ now.beta < last.beta

\* An answer without a tag_name (an error of the site): Atoi("") is 0.
NoTag == [main |-> [k \in 1..3 |-> 0], stage |-> "release", beta |-> 0]

UpdateInit ==
  /\ version \in Version \cup {NoVersion}
  /\ latest = NoVersion /\ announced = FALSE

\* CheckUpdate, once the agent has started.
ChecksUpdate ==
  /\ latest = NoVersion /\ latest' \in Version \cup {NoTag, NoVersion}
  /\ announced' = (version # NoVersion /\ latest' # NoVersion /\ versionCompare(version, latest'))
  /\ UNCHANGED version

UpdateSpec == UpdateInit /\ [][ChecksUpdate]_updateVars

-----------------------------------------------------------------------------
(* Properties *)

IsRelease(v) == v # NoVersion /\ v.stage = "release"

\* The order of releases, and the pairs whose numbers are written equally long.
Older(v, w) ==
  \E k \in 1..3 : v.main[k] < w.main[k] /\ \A j \in 1..(k - 1) : v.main[j] = w.main[j]
SameWidths(v, w) == \A k \in 2..3 : Width(v.main[k]) = Width(w.main[k])

\* A release is told of another if and only if that is newer, as long as their second and
\* third numbers are written with as many digits (v1.2.10 is read as 1210, and would be
\* newer than v1.3.0, which is 130); and it is told of nothing when the site names nothing.
NewerAnnounced ==
  IsRelease(version) /\ IsRelease(latest) =>
    /\ SameWidths(version, latest) => (announced <=> Older(version, latest))
    /\ latest = NoTag => ~announced

=============================================================================
