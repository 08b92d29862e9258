---------------------------- MODULE MCProductMedia ----------------------------
(***************************************************************************)
(* Instances of ProductMedia small enough for TLC: a product with two      *)
(* images and one document, or one that is only going to be created.       *)
(***************************************************************************)
EXTENDS ProductMedia, TLC

CONSTANTS i1, i2, d1, old, new

TwoImages == <<i1, i2>>

listed(order, file) == [order |-> order, file |-> file]
imagesOnly(keep, add) == [NoWish EXCEPT !.images = {[keep |-> keep, add |-> add]}]
documentsOnly(keep, n) == [NoWish EXCEPT !.documents = {[keep |-> keep, add |-> n]}]
both(w, d) == [w EXCEPT !.documents = d.documents]
named(w, name) == [w EXCEPT !.name = {name}]
unfit(w) == [w EXCEPT !.fits = FALSE]

KeepFirst == imagesOnly(i1 :> listed(0, "kept"), <<>>)
SwapOrder == imagesOnly(i1 :> listed(1, "kept") @@ i2 :> listed(0, "kept"), <<>>)
NewFormat == imagesOnly(i1 :> listed(0, "other") @@ i2 :> listed(1, "kept"), <<>>)
SameFormat == imagesOnly(i1 :> listed(0, "same"), <<>>)
SecondAndNew == imagesOnly(i2 :> listed(0, "kept"), <<1>>)
BadOrder == imagesOnly(i1 :> listed(3, "kept"), <<>>)
NewDocument == documentsOnly({}, 1)
KeepDocument == documentsOnly({d1}, 1)

FirstImageAndDocument == both(imagesOnly(<<>>, <<0>>), NewDocument)
CreateWishes == {named(FirstImageAndDocument, new), named(unfit(NoWish), new)}
EditWishes ==
    {KeepFirst, SwapOrder, NewFormat, SecondAndNew, KeepDocument,
     both(SameFormat, NewDocument), both(BadOrder, NewDocument), named(NoWish, new), unfit(KeepFirst)}
RaceWishes == {KeepFirst, NewFormat, SecondAndNew, both(SameFormat, NewDocument)}

\* Edits are interchangeable.
EditSymmetry == Permutations(Edit)
===============================================================================
