---------------------------- MODULE ProductStatus ----------------------------
(***************************************************************************)
(* The statuses of a product and the table of status changes a seller may  *)
(* ask for: the enums of app/models/fields_extensions_models.py and the    *)
(* match statement of Service.change_product_status.                       *)
(***************************************************************************)

\* What a seller may ask for.
ProductStatusForChange == {"on_sale", "not_for_sale", "on_moderation", "deleted"}

\* What a product can be.
ProductStatus ==
    ProductStatusForChange \cup {"new", "ready_for_sale", "needs_fix"}

\* The cases <<wanted, current>> that send a message before they commit ...
AnnouncedChange ==
    {<<"on_sale", "ready_for_sale">>, <<"not_for_sale", "on_sale">>, <<"deleted", "on_sale">>}

\* A mutant: a product taken off sale may be sent to moderation again.
SilentChangeOrRelisting ==
    ({"on_moderation"} \X {"new", "needs_fix", "not_for_sale"})
        \cup ({"deleted"} \X {"new", "on_moderation", "ready_for_sale", "needs_fix", "not_for_sale"})

\* ... and those that only write the status.
SilentChange ==
    ({"on_moderation"} \X {"new", "needs_fix"})
        \cup ({"deleted"} \X {"new", "on_moderation", "ready_for_sale", "needs_fix", "not_for_sale"})

\* The match has no other case: anything else is answered 406.
Accepts(wanted, current) == <<wanted, current>> \in AnnouncedChange \cup SilentChange

Announces(wanted, current) == <<wanted, current>> \in AnnouncedChange

\* is_active is reset to False before the match and set to True by one case.
ActiveAfter(wanted) == wanted = "on_sale"
===============================================================================
