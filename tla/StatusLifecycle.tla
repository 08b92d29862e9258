--------------------------- MODULE StatusLifecycle ---------------------------
(***************************************************************************)
(* The lifecycle of a product as a seller and a moderator see it: what     *)
(* Service.change_product_status promises when its requests do not overlap.*)
(* A change is one step here; ChangeStatus.tla models the handler's many.  *)
(***************************************************************************)
CONSTANT Product

VARIABLE row    \* the product table: status and is_active of each product

\* The edges a seller's request follows, and those the moderator follows.
SellerEdge ==
    {<<"new", "on_moderation">>, <<"needs_fix", "on_moderation">>,
     <<"ready_for_sale", "on_sale">>, <<"on_sale", "not_for_sale">>}
        \cup ({"new", "on_moderation", "ready_for_sale", "needs_fix", "on_sale", "not_for_sale"}
                \X {"deleted"})

ModeratorEdge == {"on_moderation"} \X {"ready_for_sale", "needs_fix"}

Status ==
    {"absent", "new", "on_moderation", "ready_for_sale", "needs_fix",
     "on_sale", "not_for_sale", "deleted"}

\* A product is active exactly while it is on sale.
Standing(status) == [status |-> status, active |-> status = "on_sale"]

Init == row \in [Product -> {Standing(s) : s \in Status}]

Create(p) ==
    /\ row[p] = Standing("absent")
    /\ row' = [row EXCEPT ![p] = Standing("new")]

Move(p, edges) ==
    \E e \in edges :
        /\ row[p] = Standing(e[1])
        /\ row' = [row EXCEPT ![p] = Standing(e[2])]

Next == \E p \in Product : Create(p) \/ Move(p, SellerEdge) \/ Move(p, ModeratorEdge)

Spec == Init /\ [][Next]_row
===============================================================================
