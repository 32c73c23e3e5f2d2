------------------------------ MODULE MCContent ------------------------------
(* Values for the constants of WorkContent. *)
EXTENDS WorkContent

CONSTANTS za, zb, zc, p, s1, s2, none, k1, k2, user, nokey

Provided(name) == [name |-> name, subnet |-> FALSE, matches |-> FALSE]
Added(name)    == [name |-> name, subnet |-> FALSE, matches |-> TRUE]

Submitted == [ZeroObject EXCEPT !.complete = TRUE]

\* The controller fills in everything, on AWS and on Azure.
Plain      == [Submitted EXCEPT !.configure = TRUE]
PlainAzure == [Plain EXCEPT !.platform = "Azure"]
\* The user provides configuration, or more node pools than there are zones.
Configured == [Plain EXCEPT !.names = {"signing", "bundle"}]
Pooled     == [Plain EXCEPT !.pools = <<Provided(za), Provided(p), Provided(zc)>>]
\* The user brings the infrastructure, and a spec or references.
Inline     == [Submitted EXCEPT !.names = {"pull", "ssh", "key"}, !.pools = <<Added(p)>>, !.set = s1]
Referenced == [Submitted EXCEPT !.names = {"pull", "key"}, !.refs = {p}]
AzureRef   == [Referenced EXCEPT !.platform = "Azure", !.names = {"pull"}]
NoHost     == [Inline EXCEPT !.complete = FALSE]

ContentObjects  == {Plain, PlainAzure, Configured, Pooled, Inline, Referenced, AzureRef, NoHost}
KeyObjects      == {Plain}
FullHub         == {{"pull", "ssh", "key", "signing", "bundle"}}
EmptyHub        == {{}}
FullFleet       == {{<<"cluster", none>>} \cup {Exists(s1), Bound(s1), Selects(s1)}}
WithPrincipal   == {[principal |-> TRUE, ssh |-> FALSE]}
MCZones         == <<za, zb>>
EditedPools     == {<<Added(p)>>, <<Added(za), Provided(p)>>}
ReportOf(m, s)  == [manifest |-> m, status |-> s]
Reported        == {<<ReportOf(HostedCluster, "True"), ReportOf(za, "False"), ReportOf(zb, "True")>>,
                    <<ReportOf(za, "True"), ReportOf(zb, "none"), ReportOf(p, "False")>>}
=============================================================================
