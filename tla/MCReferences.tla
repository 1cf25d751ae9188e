---------------------------- MODULE MCReferences ----------------------------
(* An instance of References for TLC: two names, a manifest in a config map,
   ops in a secret or at a url, an implicit variable, and a link whose
   provider is a service with endpoints. *)
EXTENDS References

m == <<"configmap", "m">>
ops == <<"secret", "ops">>
url == <<"url", "ops">>
var == <<"secret", "var">>
link == <<"secret", "link">>
svc == <<"service", "svc">>
ep == <<"endpoints", "svc">>
pods == <<"pods", "svc">>

AllKeys == {m, ops, url, var, link, svc, ep, pods}

OneLink == {link}

SpecOf(refs, secrets) == [manifest |-> m, ops |-> refs, vars |-> secrets]

ThreeSpecs == {SpecOf({}, {}), SpecOf({ops}, {var}), SpecOf({url}, {})}

\* The second manifest names a key of the variable and consumes the link, the
\* third has a malformed update block.
ThreeManifests ==
    <<[implicit |-> {<<var, "value">>}, linked |-> FALSE, watchTime |-> TRUE],
      [implicit |-> {<<var, "other">>}, linked |-> TRUE, watchTime |-> TRUE],
      [implicit |-> {}, linked |-> FALSE, watchTime |-> FALSE]>>

\* The service is taken away from one deployment, then becomes one that selects
\* pods.
ThreeServices ==
    <<[provider |-> TRUE, label |-> "a", type |-> "endpoints"],
      [provider |-> FALSE, label |-> "b", type |-> "external"],
      [provider |-> TRUE, label |-> "a", type |-> "selector"]>>

At(manifest, service, rest) ==
    [k \in AllKeys |-> CASE k = m -> manifest
                         [] k = svc -> service
                         [] k = url -> 1
                         [] OTHER -> rest]

SomeStarts == {At(1, 0, 1), At(2, 1, 1), At(1, 0, 0)}

\* The manifest names a key of the variable.
SlashStart == {At(2, 1, 1)}
==============================================================================
