---------------------------- MODULE ConfigResolve ----------------------------
(***************************************************************************)
(* One call of the configuration resolver (client.go 53-64): newClient     *)
(* hands the Config it ended up with to parseClusterConfig or              *)
(* parseClientConfig according to the constructor used.  The input is any  *)
(* Config a caller can build, or defaultConfig.                            *)
(***************************************************************************)
EXTENDS Config

VARIABLES
  cfg,      \* c.cfg after the options
  cluster,  \* NewClusterClient (TRUE) or NewClient (FALSE)
  policy    \* the options handed to rdb.NewClient / rdb.NewClusterClient

vars == <<cfg, cluster, policy>>

NoPolicy == [none |-> TRUE]

Init ==
  /\ cfg \in ConfigRec \cup {DefaultConfig}
  /\ cluster \in BOOLEAN
  /\ policy = NoPolicy

(* newClient, client.go 53-64: the resolver for the chosen topology.      *)
Resolve ==
  /\ policy = NoPolicy
  /\ policy' = IF cluster THEN ParseClusterConfig(cfg) ELSE ParseClientConfig(cfg)
  /\ UNCHANGED <<cfg, cluster>>

Next == Resolve

Spec == Init /\ [][Next]_vars

-----------------------------------------------------------------------------
(* Spec 4.1 and 8: the addresses the resolver hands to the driver are the  *)
(* comma-separated pieces of Config.Addrs -- for a cluster all of them, in *)
(* order, none holding a comma, so that joining them gives the string      *)
(* back (an empty string is one empty address); for a single node the     *)
(* text before the first comma.                                            *)
AddressesResolved ==
  policy # NoPolicy =>
    IF cluster
    THEN /\ Len(policy.addrs) > 0
         /\ Join(policy.addrs) = cfg.addrs
         /\ \A i \in DOMAIN policy.addrs : CommaFree(policy.addrs[i])
    ELSE policy.addr = FirstAddr(cfg.addrs)

(* Spec 3, 4.1 and 8 ("a:1,b:2,c:3" gives 4): when the caller leaves the   *)
(* redirect budget unset, a cluster client gets the number of addresses    *)
(* plus one.                                                                *)
RedirectsFromNodeCount ==
  (policy # NoPolicy /\ cluster /\ cfg.maxRedirects = 0)
    => policy.maxRedirects = Len(Split(cfg.addrs)) + 1

(* Spec 3: the default applies "only when the caller left it unset": a     *)
(* redirect budget the caller sets reaches the cluster options.            *)
ExplicitRedirectsKept ==
  (policy # NoPolicy /\ cluster /\ cfg.maxRedirects # 0)
    => policy.maxRedirects = cfg.maxRedirects
=============================================================================
