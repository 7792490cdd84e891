---------------------------- MODULE MCIndexTasks ----------------------------
EXTENDS IndexTasks, TLC

CONSTANTS r, a, b, fr, fa, fb

\* A chain r -> a -> b whose last directory bind-mounts the root again
\* (a cycle in what lstat shows), without and with the mount listed in
\* fstab; and a diamond where b is reached by two paths.
Cycle == (r :> {a}) @@ (a :> {b}) @@ (b :> {r})
Diamond == (r :> {a, b}) @@ (a :> {b}) @@ (b :> {})
Files == (r :> {fr}) @@ (a :> {fa}) @@ (b :> {fb})

\* fr was indexed at time 1 and is either unchanged or modified since;
\* fb is not a supported document type in the diamond.
Times(t) == (fr :> t) @@ (fa :> 1) @@ (fb :> 1)

MCFileSystems ==
    UNION {{ [root |-> r, sub |-> Cycle, files |-> Files, bind |-> {},
              mtime |-> Times(t), supported |-> {fr, fa, fb}],
             [root |-> r, sub |-> Cycle, files |-> Files, bind |-> {<<r, a, b, r>>},
              mtime |-> Times(t), supported |-> {fr, fa, fb}],
             [root |-> r, sub |-> Diamond, files |-> Files, bind |-> {<<r, b>>},
              mtime |-> Times(t), supported |-> {fr, fa}] } : t \in {1, 2}}

\* An update starting from an empty index, or from one holding fr at time 1.
MCOldIndexes == { {}, {<<<<<<r>>, fr>>, 1>>} }
=============================================================================
