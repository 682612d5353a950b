-------------------------- MODULE MCCatalogRelease --------------------------
(* Instance of CatalogRelease: a local and a deployed site; approved catalogs
   that disagree on an action's category and on a clan, one of them in another
   order; a draft; and files every check refuses. *)
EXTENDS CatalogInvariant, TLC

MCSymmetry == Permutations(Requests)

Category(code) == [kind |-> "category", key |-> code, code |-> code, ref |-> Blank,
                   value |-> [name |-> "w1", text |-> Blank]]
ActionIn(category, points) ==
    [kind |-> "action", key |-> "w1", code |-> "w1", ref |-> category,
     value |-> [name |-> "w1", text |-> "w1", points |-> points, limit |-> 1,
                type |-> "PHOTO", factor |-> 0, active |-> TRUE]]
CareerClan(key, name, text) ==
    [kind |-> "clan", key |-> key, code |-> name, ref |-> Blank,
     value |-> [text |-> <<text, "w1">>, type |-> "INSTITUTIONAL",
                privacy |-> "PUBLIC", alive |-> TRUE]]
File(status, items) == [parsed |-> TRUE, pinned |-> TRUE, approval |-> TRUE,
                        status |-> status, items |-> items]

ApprovedOne == File("APPROVED",
    <<Category("w1"), ActionIn("w1", 1),
      CareerClan("w1", "w1", "w1"), CareerClan("w2", "w2", "w1")>>)
ApprovedMoved == File("APPROVED",
    <<Category("w1"), Category("w2"), ActionIn("w2", 1)>>)
ApprovedReversed == File("APPROVED",
    <<CareerClan("w2", "w2", "w1"), CareerClan("w1", "w1", "w2")>>)
Draft == File("DRAFT", <<Category("w1"), ActionIn("w1", 2), CareerClan("w1", "w2", Blank)>>)

MCDeliveries ==
    {ApprovedOne, ApprovedMoved, ApprovedReversed, Draft,
     [ApprovedMoved EXCEPT !.pinned = FALSE],
     [ApprovedMoved EXCEPT !.approval = FALSE],
     [Draft EXCEPT !.parsed = FALSE],
     File("APPROVED", <<Category("w1"), ActionIn("w1", 0)>>),
     File("APPROVED", <<ActionIn("w1", 1)>>),
     File("APPROVED", <<Category("w1"), Category("w1")>>),
     File("APPROVED", <<CareerClan("w1", "w1", Blank)>>)}

Deployed == [deployed |-> TRUE, canonical |-> TRUE, role |-> "app",
             verified |-> TRUE, local |-> FALSE, tls |-> TRUE]
Local == [deployed |-> FALSE, canonical |-> FALSE, role |-> "app",
          verified |-> FALSE, local |-> TRUE, tls |-> FALSE]
MCSites == {Deployed, Local, [Deployed EXCEPT !.tls = FALSE],
            [Local EXCEPT !.local = FALSE]}
=============================================================================
