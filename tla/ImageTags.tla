------------------------------ MODULE ImageTags ------------------------------
(***************************************************************************)
(* Which image a container should move to: the tag arithmetic of the agent *)
(* (agent/registry.go), the verdict of a scan (agent/docker.go,            *)
(* applyRegistryScanGroup) and the update policy of the master             *)
(* (scheduler.go, classifyUpdateCandidates).                               *)
(*                                                                         *)
(* A tag is a record: what parseSemverTag makes of it ("floating" for the  *)
(* names of floatingTags, "other" for what does not parse), its numbers,   *)
(* its suffix and its spelling: 3.1, v3.1 and 3.1.0 differ in it only.     *)
(* minor stands for minor and patch.                                       *)
(***************************************************************************)
EXTENDS Naturals, Sequences, SequencesExt

\* TagSuffixes in the order of their strings; "" compares by a rule of its own.
TagSuffixes == <<"", "1", "alpine", "rc1">>
Kinds == {"semver", "floating", "other"}
Tag == [kind : Kinds, major : Nat, minor : Nat, sfx : 1 .. Len(TagSuffixes), raw : Nat]
NoTag == [kind |-> "none", major |-> 0, minor |-> 0, sfx |-> 1, raw |-> 0]

Semver(t) == t.kind = "semver"
Floating(t) == t.kind = "floating"

\* A stable release is above its pre-releases and flavours.
Less(a, b) ==
    \/ a.major < b.major
    \/ a.major = b.major /\ a.minor < b.minor
    \/ /\ a.major = b.major /\ a.minor = b.minor /\ a.sfx # b.sfx
       /\ a.sfx # 1 /\ (b.sfx = 1 \/ a.sfx < b.sfx)

IsPrerelease(t) == TagSuffixes[t.sfx] = "rc1"

\* A numeric suffix is a packaging revision, a flavour of its own.
Variant(t) ==
    CASE TagSuffixes[t.sfx] = "1" -> "revision"
      [] TagSuffixes[t.sfx] = "alpine" -> "alpine"
      [] OTHER -> "plain"

SameVariant(a, b) == Variant(a) = Variant(b)

Compatible(cur, t) ==
    /\ Semver(t) /\ t.major = cur.major /\ SameVariant(cur, t)
    /\ IsPrerelease(t) => IsPrerelease(cur)

-----------------------------------------------------------------------------
(* Faulty variants of definitions below, each a bug the code could have.   *)

\* The flavour and the major version are forgotten.
HighestCompatibleAny(cur, tags) ==
    IF ~Semver(cur) THEN NoTag
    ELSE FoldLeft(LAMBDA best, t : IF Semver(t) /\ (best = NoTag \/ Less(best, t)) THEN t ELSE best,
                  NoTag, tags)

\* The first compatible tag of the list instead of the highest.
HighestCompatibleFirst(cur, tags) ==
    LET fit == SelectSeq(tags, LAMBDA t : Semver(cur) /\ Compatible(cur, t))
        above == SelectSeq(fit, LAMBDA t : Less(cur, t)) IN
    IF above # <<>> THEN Head(above) ELSE IF fit # <<>> THEN Head(fit) ELSE NoTag

-----------------------------------------------------------------------------
(* The registry's tags.                                                    *)

\* The highest of the tags that Fits accepts; the first of equal ones.
HighestOf(tags, Fits(_)) ==
    FoldLeft(LAMBDA best, t : IF Fits(t) /\ (best = NoTag \/ Less(best, t)) THEN t ELSE best,
             NoTag, tags)

HighestSemver(tags) == HighestOf(tags, Semver)

HighestCompatible(cur, tags) ==
    IF Semver(cur) THEN HighestOf(tags, LAMBDA t : Compatible(cur, t)) ELSE NoTag

-----------------------------------------------------------------------------
(* applyRegistryScanGroup: has is 0 for current, 1 for an update, -1 for   *)
(* unknown.  dig[t] is the digest the registry answers for a tag, 0 when   *)
(* the probe fails; local is the digest of the running image, 0 for an     *)
(* image that was built here.                                              *)

Unknown == [has |-> -1, suggest |-> NoTag]
Current == [has |-> 0, suggest |-> NoTag]
Changed == [has |-> 1, suggest |-> NoTag]

SameTag(cur, dig, local) ==
    CASE dig[cur] = 0 -> Unknown
      [] dig[cur] = local -> Current
      [] OTHER -> Changed

\* Listing failed: no claim is made about a versioned tag.
ListFailed(cur, dig, local) == Unknown

Versioned(cur, best, dig, local) ==
    CASE dig[best] = 0 -> Unknown
      [] dig[best] = local -> Current
      [] dig[best] \notin {0, local} /\ Less(cur, best) -> [has |-> 1, suggest |-> best]
      [] dig[best] \notin {0, local} /\ cur = best -> Changed
      [] OTHER -> Current

Verdict(cur, tags, listed, dig, local) ==
    LET best == HighestCompatible(cur, tags)
        overall == HighestSemver(tags) IN
    CASE local = 0 -> Unknown
      [] local # 0 /\ Floating(cur) -> SameTag(cur, dig, local)
      [] local # 0 /\ ~Floating(cur) /\ ~listed -> ListFailed(cur, dig, local)
      [] local # 0 /\ ~Floating(cur) /\ listed /\ best # NoTag -> Versioned(cur, best, dig, local)
      [] local # 0 /\ ~Floating(cur) /\ listed /\ best = NoTag ->
            IF Semver(cur) /\ overall # NoTag /\ cur.major # overall.major
            THEN Current ELSE SameTag(cur, dig, local)

\* classifyUpdate of a container with valid Compose metadata and no build section.
UpdateType(cur) == IF cur.kind = "floating" /\ cur.raw = 0 THEN "latest" ELSE "tag"

\* classifyUpdateCandidates: a version bump is taken, a moved tag only if it is
\* the one that asks for it.
Candidate(v, cur, running) ==
    v.has = 1 /\ running /\ (v.suggest # NoTag \/ UpdateType(cur) = "latest")

=============================================================================
