------------------------- MODULE MCCapsuleRegistry -------------------------
\* Instances of CapsuleRegistry for TLC.  The requests find an empty database, one
\* in which a capsule with one or two versions was created before, or one in which
\* that capsule was deleted for good and another one with its id has two versions.
\* A request to publish to the first one was answered then, and may be repeated.
EXTENDS CapsuleRegistry, TLC

CONSTANTS FirstCapsule, FirstName, FirstContent, FirstRequest, FirstKey, Other

Holds(content, version, born) ==
    [capsule |-> FirstCapsule, version |-> version, content |-> content, born |-> born]

\* The capsule is there since the etag born and has latest versions
Has(born, latest) ==
    /\ rows = [c \in Capsules |-> IF c = FirstCapsule
                  THEN [name |-> FirstName, status |-> "active", latest |-> latest,
                        etag |-> born + latest - 1, born |-> born, mixed |-> FALSE]
                  ELSE None]
    /\ blobs = worm
    /\ etags = born + latest - 1

Started ==
    /\ \/ /\ worm = {FirstContent}
          /\ Has(1, 1)
          /\ versions = {Holds(FirstContent, 1, 1)}
       \/ /\ worm = {FirstContent, Other}
          /\ Has(1, 2)
          /\ versions = {Holds(FirstContent, 1, 1), Holds(Other, 2, 1)}
    /\ results = [k \in Keys |-> None]
    /\ calls = [r \in Requests |-> NewCall]

Reused ==
    /\ worm = Contents
    /\ Has(3, 2)
    /\ versions = {Holds(FirstContent, 1, 3), Holds(Other, 2, 3)}
    /\ \E h \in Contents \ {FirstContent, Other} :
        LET sent == Sent("publish", "done", FirstKey, FirstCapsule, h, None)
            made == Holds(h, 2, 1)
        IN  /\ results = [k \in Keys |-> IF k = FirstKey THEN made ELSE None]
            /\ calls = [r \in Requests |->
                   IF r = FirstRequest THEN [sent EXCEPT !.answer = made] ELSE NewCall]

MCSpec == (Init \/ Started \/ Reused) /\ [][Next]_vars

Symmetry == Permutations(Requests \ {FirstRequest})
=============================================================================
