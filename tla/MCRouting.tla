------------------------------ MODULE MCRouting ------------------------------
EXTENDS Routing, TLC

CONSTANTS pages, ocr, page, text, pdf, hash

Declares(version, when, takes, kinds) ==
    [version |-> version, mimes |-> {pdf}, when |-> when, takes |-> takes, kinds |-> kinds]

\* pages renders page images and tells whether a file needs OCR; ocr reads the files that do,
\* and page images. Either may come to render pages.
MCDeclarable ==
    pages :> {Declares(1, FALSE, {}, {page}), Declares(2, FALSE, {}, {})}
    @@ ocr :> {Declares(1, TRUE, {page}, {text}), Declares(2, TRUE, {page}, {page})}

MCEnvelope ==
    pages :> {[kinds |-> {page}, tells |-> TRUE], [kinds |-> {}, tells |-> FALSE]}
    @@ ocr :> {[kinds |-> {}, tells |-> FALSE]}

MCSymmetry == Permutations(Request) \cup Permutations(FileVersion)
MCMediaType == [v \in FileVersion |-> pdf]
MCContent == [v \in FileVersion |-> hash]
==============================================================================
