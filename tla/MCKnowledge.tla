---------------------------- MODULE MCKnowledge ----------------------------
\* "k-8s" is "k8s" without its separator, "k8s" and "kubernetes" are listed as
\* aliases of each other, and "k-8s" and "kubernetes" are not: the match is
\* not transitive.
EXTENDS Knowledge

MCNames == {"kubernetes", "k8s", "k-8s"}

MCSame == {<<n, n>> : n \in MCNames}
            \union {<<"kubernetes", "k8s">>, <<"k8s", "kubernetes">>,
                    <<"k8s", "k-8s">>, <<"k-8s", "k8s">>}
=============================================================================
