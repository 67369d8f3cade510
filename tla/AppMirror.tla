----------------------------- MODULE AppMirror ------------------------------
(***************************************************************************)
(* The client-release mirror (crates/app-downloads) and the routes that    *)
(* offer its active release to devices (jarvis-api/src/routes/             *)
(* app_updates.rs).  A root service, one at a time, imports the release    *)
(* that the registry's stable tag names: it installs an immutable copy in  *)
(* the protected mirror, a second copy in the public download tree, links  *)
(* it on the page, switches the updater to it, retires old public          *)
(* releases, and rebuilds the AltStore source.  It may fail or be killed   *)
(* between any two of these steps.                                         *)
(*                                                                         *)
(* A document stands for a signed release manifest and the artifacts it    *)
(* names: two documents with one version are different bytes.  Documents   *)
(* that fail a check of their signatures, digests or fields never get as   *)
(* far as this module.                                                     *)
(***************************************************************************)
EXTENDS Integers, FiniteSets

CONSTANTS
    Docs,            \* the documents the stable tag may ever name
    VersionOf(_),    \* release.version, numbered in release order
    CodeOf(_),       \* the Android version code
    ProtocolOf(_),   \* minimum_client_protocol
    Major(_),        \* the major and minor number of a version
    Minor(_),
    Floor,           \* the configured minimum version
    NoDoc,           \* no directory of that version
    RecentPatches, RecentMinors, RecentMajors,   \* the retention rule
    ClientProtocol   \* the protocol of the desktop client

Versions == {VersionOf(d) : d \in Docs}

ASSUME MirrorAssumption ==
    /\ IsFiniteSet(Docs) /\ NoDoc \notin Docs
    /\ \A d \in Docs : VersionOf(d) \in Nat \ {0} /\ CodeOf(d) \in Nat
    /\ RecentPatches \in Nat \ {0} /\ RecentMinors \in Nat /\ RecentMajors \in Nat

VARIABLES
    mirror,      \* /var/lib/jarvis-app-updates/releases: version -> document
    active,      \* the version `current` points to, 0 when none
    public,      \* public releases/: version -> document
    trash,       \* versions in a .retired- directory
    page,        \* index.html: versions linked, and whether it links a source
    source,      \* altstore.json: the versions listed, or absent
    sync,        \* the running import
    outcome,     \* how the last import ended
    client       \* a desktop client: installed version, offer, delivery

mirrorVars == <<mirror, active, public, trash, page, source, sync, outcome,
                client>>

Absent == {0}
NoSync == [at |-> "idle", doc |-> NoDoc, moved |-> {}]

MirrorInit ==
    /\ mirror = [v \in Versions |-> NoDoc]
    /\ active = 0
    /\ public = [v \in Versions |-> NoDoc]
    /\ trash = {}
    /\ page = [links |-> {}, source |-> FALSE]
    /\ source = Absent
    /\ sync = NoSync
    /\ outcome = "none"
    /\ client = [installed |-> 0, offer |-> NoDoc, got |-> NoDoc]

PublicVersions == {v \in Versions : public[v] # NoDoc}

\* retain: the latest patches of the newest minor, the latest patch of the
\* minors before it in the same major, the latest release of the majors before.
Retained(vs) ==
    IF vs = {} THEN {}
    ELSE LET newest == CHOOSE v \in vs : \A w \in vs : w <= v
             major(m) == {v \in vs : Major(v) = m}
             minor(m) == {v \in major(Major(newest)) : Minor(v) = m}
             newer(v, ws) == Cardinality({w \in ws : w > v})
             minors == {Minor(v) : v \in major(Major(newest))}
             majors == {Major(v) : v \in vs}
         IN  {v \in vs :
                IF Major(v) # Major(newest)
                THEN /\ newer(v, major(Major(v))) = 0
                     /\ Cardinality({m \in majors : m > Major(v)}) < RecentMajors
                ELSE IF Minor(v) # Minor(newest)
                THEN /\ newer(v, minor(Minor(v))) = 0
                     /\ Cardinality({m \in minors : m > Minor(v)}) < RecentMinors
                ELSE newer(v, minor(Minor(v))) < RecentPatches}

\* render_index: what the public tree and the source hold at that moment.
Rendered == [links |-> PublicVersions,
             source |-> source # Absent /\ PublicVersions # {}]

\* check_progression: neither the version nor, for a new version, the Android
\* code may go back.
Progresses(d) ==
    active # 0 =>
      /\ VersionOf(d) >= active
      /\ VersionOf(d) > active => CodeOf(d) > CodeOf(mirror[active])

At(step) == sync.at = step
Goes(step) == sync' = [sync EXCEPT !.at = step]
Ends(how) == sync' = NoSync /\ outcome' = how

----------------------------------------------------------------------------
(* The import.                                                             *)

\* Fault: a version that is already mirrored is replaced.
PrepareAgain(d) ==
    /\ At("idle")
    /\ VersionOf(d) >= Floor
    /\ Progresses(d)
    /\ mirror' = [mirror EXCEPT ![VersionOf(d)] = d]
    /\ sync' = [NoSync EXCEPT !.at = "prepared", !.doc = d]
    /\ UNCHANGED <<active, public, trash, page, source, outcome, client>>

\* discover, the download and prepare_verified: a mirrored version is
\* immutable.
Prepare(d) ==
    /\ At("idle")
    /\ VersionOf(d) >= Floor
    /\ Progresses(d)
    /\ mirror[VersionOf(d)] \in {NoDoc, d}
    /\ mirror' = [mirror EXCEPT ![VersionOf(d)] = d]
    /\ sync' = [NoSync EXCEPT !.at = "prepared", !.doc = d]
    /\ UNCHANGED <<active, public, trash, page, source, outcome, client>>

\* publish_public: verified in a staging directory, then renamed.
PublishPublic ==
    LET v == VersionOf(sync.doc)
    IN  /\ At("prepared")
        /\ public[v] \in {NoDoc, sync.doc}
        /\ public' = [public EXCEPT ![v] = sync.doc]
        /\ Goes("published")
        /\ UNCHANGED <<mirror, active, trash, page, source, outcome, client>>

IndexRelease ==
    /\ At("published")
    /\ page' = Rendered
    /\ Goes("indexed")
    /\ UNCHANGED <<mirror, active, public, trash, source, outcome, client>>

\* activate: one rename of the link.
Activate ==
    /\ At("indexed")
    /\ active' = VersionOf(sync.doc)
    /\ Goes("activated")
    /\ UNCHANGED <<mirror, public, trash, page, source, outcome, client>>

\* retire_releases begins: what a crash left behind is deleted.
SweepRetired ==
    /\ At("activated")
    /\ trash' = {}
    /\ Goes("retiring")
    /\ UNCHANGED <<mirror, active, public, page, source, outcome, client>>

Retiring == (PublicVersions \cup sync.moved)
              \ Retained(PublicVersions \cup sync.moved)

\* One rename out of releases/ per retired version.
MoveRetired(v) ==
    /\ At("retiring")
    /\ v \in Retiring \ sync.moved
    /\ public' = [public EXCEPT ![v] = NoDoc]
    /\ trash' = trash \cup {v}
    /\ sync' = [sync EXCEPT !.moved = @ \cup {v}]
    /\ UNCHANGED <<mirror, active, page, source, outcome, client>>

\* A failed move or page: the moved releases are put back as far as the renames
\* work, and the directory they were moved to is deleted with what is left in it.
\* A page that failed may have been replaced already.
RestoreRetired(back) ==
    /\ At("retiring")
    /\ sync.moved # {}
    /\ public' = [v \in Versions |-> IF v \in back THEN mirror[v] ELSE public[v]]
    /\ trash' = trash \ sync.moved
    /\ page' \in {page} \cup (IF sync.moved = Retiring THEN {Rendered} ELSE {})
    /\ Ends("failed")
    /\ UNCHANGED <<mirror, active, source, client>>

\* The page without the retired releases, then their files are deleted.
IndexRetired ==
    /\ At("retiring")
    /\ sync.moved = Retiring
    /\ page' = IF sync.moved = {} THEN page ELSE Rendered
    /\ Goes("reindexed")
    /\ UNCHANGED <<mirror, active, public, trash, source, outcome, client>>

DeleteRetired ==
    /\ At("reindexed")
    /\ trash' = {}
    /\ Goes("retired")
    /\ UNCHANGED <<mirror, active, public, page, source, outcome, client>>

\* altstore_source: nothing newer than the updater's version.
Listed == {v \in PublicVersions : v <= VersionOf(sync.doc)}

\* publish_altstore: a failure, or no hostname, removes the source.
PublishSource(written) ==
    /\ At("retired")
    /\ source' = IF written THEN Listed ELSE Absent
    /\ Goes(IF written THEN "sourced" ELSE "unsourced")
    /\ UNCHANGED <<mirror, active, public, trash, page, outcome, client>>

IndexSource ==
    /\ At("sourced") \/ At("unsourced")
    /\ page' = Rendered
    /\ Ends("done")
    /\ UNCHANGED <<mirror, active, public, trash, source, client>>

\* Any step returns an error, or the process is killed.
SyncStops ==
    /\ ~At("idle")
    /\ Ends("failed")
    /\ UNCHANGED <<mirror, active, public, trash, page, source, client>>

----------------------------------------------------------------------------
(* A device.                                                               *)

\* app_update_check: one read of the active generation supplies the protocol,
\* the version and the artifact of the offer.
CheckUpdate ==
    LET d == mirror[active]
    IN  /\ active # 0
        /\ ProtocolOf(d) <= ClientProtocol
        /\ active > client.installed
        /\ client' = [client EXCEPT !.offer = d, !.got = NoDoc]
        /\ UNCHANGED <<mirror, active, public, trash, page, source, sync,
                       outcome>>

\* app_update_artifact: served only while the offered version is active.
FetchArtifact ==
    /\ client.offer # NoDoc
    /\ active = VersionOf(client.offer)
    /\ client' = [client EXCEPT !.got = mirror[active], !.installed = active]
    /\ UNCHANGED <<mirror, active, public, trash, page, source, sync, outcome>>

MirrorNext ==
    \/ \E d \in Docs : Prepare(d)
    \/ PublishPublic \/ IndexRelease \/ Activate
    \/ SweepRetired \/ IndexRetired \/ DeleteRetired
    \/ \E back \in SUBSET sync.moved : RestoreRetired(back)
    \/ \E v \in Versions : MoveRetired(v)
    \/ \E written \in BOOLEAN : PublishSource(written)
    \/ IndexSource \/ SyncStops
    \/ CheckUpdate \/ FetchArtifact

MirrorSpec == MirrorInit /\ [][MirrorNext]_mirrorVars

----------------------------------------------------------------------------
(* Properties.                                                             *)

\* A device never receives other bytes than the ones offered to it, nor a
\* release that needs a newer protocol (release_store.rs, verify_existing;
\* app_updates.rs, app_update_check and app_update_artifact).
OfferIsHonoured ==
    client.got # NoDoc =>
        /\ client.got = client.offer
        /\ ProtocolOf(client.got) <= ClientProtocol

\* The AltStore source never lists a release that did not become the active
\* update, though releases are public before they are active (release_store.rs,
\* altstore_source).
SourceIsNotAhead == source # Absent => \A v \in source : v <= active

\* After an import that ran to its end the page is exactly the public tree,
\* links a source only if there is one, and the public tree holds what the
\* retention rule keeps (main.rs, sync_release).
PageIsTrue ==
    outcome = "done" /\ At("idle") =>
        /\ page.links = PublicVersions
        /\ page.source => source # Absent
        /\ PublicVersions = Retained(PublicVersions)

\* The updater never goes back to an older release or an older Android code,
\* whatever the stable tag is moved to and wherever earlier imports stopped
\* (release_store.rs, check_progression, activate).  No installer is deleted while
\* the page still links it, also when an earlier import was killed between moving
\* it away and rebuilding the page; the one exception is a release the retention
\* rule drops, when its retirement fails and it cannot be put back either
\* (mirror/store.rs, retire_releases).
GoesOn ==
    /\ active' # active /\ active # 0 =>
         /\ active' > active
         /\ CodeOf(mirror'[active']) > CodeOf(mirror[active])
    /\ \A v \in trash : v \notin trash' /\ public'[v] = NoDoc =>
         v \notin page.links \/ (v \in Retiring /\ sync.moved # {} /\ outcome' = "failed")

\* However many imports finish, fail or are killed between any two looks, a
\* device gets what it was offered, the page and the source tell the truth, and
\* nothing goes back.
MirrorIsTrue ==
    /\ [](OfferIsHonoured /\ SourceIsNotAhead /\ PageIsTrue)
    /\ [][GoesOn]_mirrorVars
=============================================================================
