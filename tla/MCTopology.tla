----------------------------- MODULE MCTopology -----------------------------
(***************************************************************************)
(* A set of two members, with an address x that is an alias of a and has    *)
(* two DNS records: seeds that name a by x, a direct connection, and a URI   *)
(* with the set.  The servers are of one release, or of two in the middle of *)
(* an upgrade.                                                              *)
(***************************************************************************)
EXTENDS Topology

MCAddr == {"x", "a", "b"}
MCMe == [x |-> "a", a |-> "a", b |-> "b"]
MCRecords == [x |-> 2, a |-> 1, b |-> 1]
MCConfigs == <<{"a", "b"}, {"b"}>>
MCUris == {[seeds |-> {"x", "b"}, set |-> NoSet, direct |-> "unset"],
           [seeds |-> {"b"}, set |-> "rs", direct |-> "unset"],
           [seeds |-> {"b"}, set |-> "rs", direct |-> "yes"]}
MCStart(ka, ra, kb, rb) ==
    [a |-> [kind |-> ka, rel |-> ra], b |-> [kind |-> kb, rel |-> rb]]
MCStarts == {MCStart("primary", 1, "secondary", 3),
             MCStart("ghost", 3, "primary", 3),
             MCStart("arbiter", 1, "other", 1),
             MCStart("mongos", 3, "standalone", 3),
             MCStart("standalone", 2, "standalone", 2)}
=============================================================================
