--------------------------- MODULE PathAttributes ---------------------------
(***************************************************************************)
(* The attributes of a path (internal/pkg/table/path.go): the chain of      *)
(* clones that share what they do not change, what a path is given on its   *)
(* way to a neighbor, and its way between a VRF and the global tables.      *)
(*                                                                         *)
(* A path: [source, family, nlri, withdraw, levels]. Its levels are those   *)
(* of its clones, the latest first: [attrs, dels], the attributes set there *)
(* and the types deleted there.                                             *)
(***************************************************************************)
EXTENDS PolicyEval, Message

CONSTANTS
  DefaultLocalPref, \* DEFAULT_LOCAL_PREF
  PrivateASes,      \* the ASes isPrivateAS accepts
  NonTransitive     \* types that are not in bgp.PathAttrFlags, without the transitive flag

Unspecified == "0.0.0.0"
NoLevel == [attrs |-> <<>>, dels |-> {}]

Speaks(level, t) == t \in level.dels \cup DOMAIN level.attrs

\* Path.getPathAttr: the first level that speaks of the type decides; a deletion comes first.
FirstToSpeak(path, t) ==
  SelectInSeq(path.levels, LAMBDA l : Speaks(l, t))
Has(path, t) ==
  LET i == FirstToSpeak(path, t) IN i # 0 /\ t \notin path.levels[i].dels
Attr(path, t) == path.levels[FirstToSpeak(path, t)].attrs[t]
AttrOr(path, t, default) == IF Has(path, t) THEN Attr(path, t) ELSE default

Without(attrs, types) == [t \in DOMAIN attrs \ types |-> attrs[t]]
With(attrs, more) ==
  [t \in DOMAIN attrs \cup DOMAIN more |-> IF t \in DOMAIN attrs THEN attrs[t] ELSE more[t]]

Collect(c, l) ==
  LET deleted == c.deleted \cup l.dels
  IN  [deleted |-> deleted, found |-> With(c.found, Without(l.attrs, deleted))]

\* Path.GetPathAttrs, which goes through the levels with what was deleted and set so far.
GetPathAttrs(path) == FoldLeft(Collect, [deleted |-> {}, found |-> <<>>], path.levels).found

setPathAttr(path, t, value) == [path EXCEPT !.levels[1].attrs = With([u \in {t} |-> value], @)]
delPathAttr(path, t) == [path EXCEPT !.levels[1].dels = @ \cup {t}]
Clone(path, withdraw) == [path EXCEPT !.withdraw = withdraw, !.levels = <<NoLevel>> \o @]

IsLocal(path) == path.source.local

GetNexthop(path) == AttrOr(path, "nexthop", AttrOr(path, "mpreach", Nothing))

PathSetNexthop(path, nexthop, v6) ==
  LET change(p, t) == IF Has(p, t) THEN setPathAttr(p, t, nexthop) ELSE p
  IN  IF path.family = "ipv4" /\ v6
      THEN setPathAttr(delPathAttr(path, "nexthop"), "mpreach", nexthop)
      ELSE change(change(path, "nexthop"), "mpreach")

-----------------------------------------------------------------------------
(* AS_PATH.                                                                 *)

MapAsPath(path, F(_)) ==
  IF Has(path, "aspath") THEN setPathAttr(path, "aspath", F(Attr(path, "aspath"))) ELSE path

PathPrependAsn(path, asn, repeat, confed) ==
  setPathAttr(path, "aspath",
              PrependAsn([aspath |-> AttrOr(path, "aspath", <<>>)], asn, repeat, confed).aspath)

NonEmpty(segments) == Kept(segments, {s \in ToSet(segments) : s.as # <<>>})

RemovePrivateAS(path, localAs, option) ==
  CASE option = "none"    -> path
    [] option = "all"     ->
         MapAsPath(path, LAMBDA segs :
           NonEmpty([i \in DOMAIN segs |->
             [segs[i] EXCEPT !.as = Kept(@, ToSet(@) \ PrivateASes)]]))
    [] option = "replace" ->
         MapAsPath(path, LAMBDA segs :
           NonEmpty([i \in DOMAIN segs |->
             [segs[i] EXCEPT !.as = [j \in DOMAIN @ |-> IF @[j] \in PrivateASes THEN localAs ELSE @[j]]]]))

removeConfedAs(path) == MapAsPath(path, NoConfed)

\* A path that does not name the AS is returned as it is, else a clone is changed.
ReplaceAS(path, localAs, peerAs) ==
  LET segs == AttrOr(path, "aspath", <<>>)
  IN  IF \A i \in DOMAIN segs : peerAs \notin ToSet(segs[i].as) THEN path
      ELSE setPathAttr(Clone(path, path.withdraw), "aspath",
             [i \in DOMAIN segs |->
               [segs[i] EXCEPT !.as = [j \in DOMAIN @ |-> IF @[j] = peerAs THEN localAs ELSE @[j]]]])

-----------------------------------------------------------------------------
(* On the way to a neighbor: [type, client, rsClient, localAs, peerAs,      *)
(* removePrivate, replacePeer, confed, address, v6, cluster, vrf, llgr].    *)

\* What is not for this neighbor: unknown types, unless transitive, and the attributes of
\* reflection unless it is a client.
NotForPeer(peer) ==
  NonTransitive \cup (IF peer.type = "internal" /\ peer.client THEN {} ELSE {"cluster", "originator"})

DeleteAll(path, types) == FoldSet(LAMBDA t, p : delPathAttr(p, t), path, types \cap DOMAIN GetPathAttrs(path))

(* mutant: private ASes are removed last *)
OwnAsThenPublic(path, peer) ==
  LET own == PathPrependAsn(path, peer.localAs, 1, peer.confed)
      bare == IF peer.confed THEN own ELSE removeConfedAs(own)
  IN  RemovePrivateAS(bare, peer.localAs, peer.removePrivate)

OwnAsFirst(path, peer) ==
  LET public == RemovePrivateAS(path, peer.localAs, peer.removePrivate)
      own == PathPrependAsn(public, peer.localAs, 1, peer.confed)
  IN  IF peer.confed THEN own ELSE removeConfedAs(own)

ExternalAttrs(path, peer) ==
  LET nh == IF ~IsLocal(path) \/ GetNexthop(path) = Unspecified
            THEN PathSetNexthop(path, peer.address, peer.v6) ELSE path
      own == OwnAsFirst(nh, peer)
  IN  IF Has(own, "med") /\ ~IsLocal(own) THEN delPathAttr(own, "med") ELSE own

\* ORIGINATOR_ID and CLUSTER_LIST for a client.
Reflected(global, path, peer) ==
  LET orig == IF path.family = "rtc"
              THEN setPathAttr(PathSetNexthop(path, peer.address, peer.v6), "originator", path.source.localId)
              ELSE IF Has(path, "originator") THEN path
              ELSE setPathAttr(path, "originator", IF IsLocal(path) THEN global.routerId ELSE path.source.id)
  IN  setPathAttr(orig, "cluster", <<peer.cluster>> \o AttrOr(path, "cluster", <<>>))

InternalAttrs(global, path, peer) ==
  LET nh == IF IsLocal(path) /\ GetNexthop(path) = Unspecified
            THEN PathSetNexthop(path, peer.address, peer.v6) ELSE path
      as == IF Has(nh, "aspath") THEN nh ELSE PathPrependAsn(nh, 0, 0, FALSE)
      pref == IF Has(as, "localpref") THEN as ELSE setPathAttr(as, "localpref", DefaultLocalPref)
  IN  IF peer.client THEN Reflected(global, pref, peer) ELSE pref

UpdatePathAttrs(global, peer, original) ==
  LET path == DeleteAll(Clone(original, original.withdraw), NotForPeer(peer))
  IN  IF peer.rsClient THEN original
      ELSE IF peer.type = "external" THEN ExternalAttrs(path, peer)
      ELSE InternalAttrs(global, path, peer)

\* postFilterpath: after the export policy.
PostFilterpath(peer, path) ==
  LET out == IF ~path.withdraw /\ ~peer.llgr /\ "llgrstale" \in AttrOr(path, "communities", {})
             THEN Clone(path, TRUE) ELSE path
  IN  IF peer.type # "internal" /\ ~peer.rsClient /\ Has(out, "localpref")
      THEN delPathAttr(out, "localpref") ELSE out

-----------------------------------------------------------------------------
(* VRFs: [rd, import, export]; route targets are extended communities.      *)

GlobalFamily == [ipv4 |-> "vpnv4", ipv6 |-> "vpnv6", evpn |-> "evpn"]
LocalFamily  == [vpnv4 |-> "ipv4", vpnv6 |-> "ipv6", flow4vpn |-> "flow4", flow6vpn |-> "flow6"]

NewPath(path, family, nlri) ==
  [path EXCEPT !.family = family, !.nlri = nlri,
               !.levels = <<[attrs |-> GetPathAttrs(path), dels |-> {}]>>]

\* The path identifier of an EVPN route is not carried over.
ToGlobal(path, vrf) ==
  LET family == GlobalFamily[path.family]
      nlri == [prefix |-> path.nlri.prefix, rd |-> vrf.rd,
               id |-> IF family = "evpn" THEN 0 ELSE path.nlri.id, localId |-> 0]
      new == NewPath(path, family, nlri)
      ext == setPathAttr(new, "ext", AttrOr(new, "ext", <<>>) \o vrf.export)
  IN  IF path.family \notin DOMAIN GlobalFamily THEN path
      ELSE setPathAttr(delPathAttr(ext, "nexthop"), "mpreach", GetNexthop(path))

(* mutant *)
ToLocalKeepsTargets(path) ==
  NewPath(path, LocalFamily[path.family], [path.nlri EXCEPT !.rd = Nothing, !.id = 0])

ToLocal(path) ==
  LET new == NewPath(path, LocalFamily[path.family], [path.nlri EXCEPT !.rd = Nothing, !.id = 0])
      bare == IF path.family \in {"vpnv4", "vpnv6"} THEN delPathAttr(new, "ext")
              ELSE setPathAttr(new, "ext", SelectSeq(AttrOr(new, "ext", <<>>), LAMBDA x : x.subtype # "rt"))
  IN  IF path.family \notin DOMAIN LocalFamily THEN path
      ELSE IF path.family = "vpnv4"
           THEN setPathAttr(delPathAttr(bare, "mpreach"), "nexthop", GetNexthop(bare))
           ELSE bare

\* Any of the VRF's import targets, by the extended community condition of policies.
CanImportToVrf(vrf, path) ==
  ExtCommunityHolds([option |-> "any", set |-> [exps |-> [i \in DOMAIN vrf.import |-> {vrf.import[i].value}],
                                                subtypes |-> [i \in DOMAIN vrf.import |-> "rt"]]],
                    [ext |-> AttrOr(path, "ext", <<>>)])

\* prePolicyFilterpath after its loop tests: what is given to the export policy, if anything.
ForPeer(global, peer, path) ==
  LET inVrf == IF peer.vrf = Nothing THEN path ELSE ToLocal(path)
      replaced == IF ~path.withdraw /\ peer.replacePeer
                  THEN ReplaceAS(inVrf, peer.localAs, peer.peerAs) ELSE inVrf
  IN  UpdatePathAttrs(global, peer, replaced)
ForVrf(peer, vrf, path) == path.family \in DOMAIN LocalFamily /\ CanImportToVrf(vrf, path)
=============================================================================
