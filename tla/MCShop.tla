------------------------------- MODULE MCShop -------------------------------
(***************************************************************************)
(* The pages of customers and staff with the backend behind them, for TLC.  They     *)
(* share no state, so one run follows any one of them: `part' says which, the others   *)
(* stay as they began.                                                      *)
(***************************************************************************)
EXTENDS Checkout, Cart, Wishlist, Accounts, ChatPage, Invoices, Catalog,
  OrderPages, Inquiries

VARIABLE part

Parts == {"checkout", "cart", "wishlist", "accounts", "chat", "invoices", "catalog",
          "orderpage", "desk", "forms"}

\* All carts hold one watch for 2; they differ in its engraving.
ShopLook == [c \in Cart |-> [slugs |-> {"w1"}, lines |-> 1, total |-> 2]]

\* A row that exists at the start may say any one face: they are alike.
FirstFace == CHOOSE f \in Faces : TRUE

ShopInit ==
  /\ part \in Parts
  /\ Init /\ CartInit /\ WishInit /\ ChatInit
  /\ AccountsInit /\ (part # "accounts" => userRow = NoAccount)
  /\ InvoiceInit /\ (part # "invoices" => provider)
  /\ OrderPagesInit /\ InquiriesInit
  /\ CatalogInit /\ \A l \in Listings :
       row[l] # NoRowYet => part = "catalog" /\ row[l].face = FirstFace

Rests(p, vs) == IF part = p THEN TRUE ELSE UNCHANGED vs

\* A step of part p: the others rest.
Of(p) ==
  /\ part = p /\ UNCHANGED part
  /\ Rests("checkout", vars)
  /\ Rests("cart", cartVars) /\ Rests("wishlist", wishVars)
  /\ Rests("accounts", accountVars) /\ Rests("chat", chatVars)
  /\ Rests("invoices", invoiceVars) /\ Rests("catalog", catalogVars)
  /\ Rests("forms", inquiryVars)
  /\ IF part \in {"orderpage", "desk"} THEN TRUE ELSE UNCHANGED orderPageVars

ShopNext ==
  \/ Of("checkout") /\ Next
  \/ Of("cart") /\ CartNext
  \/ Of("wishlist") /\ WishNext
  \/ Of("accounts") /\ AccountsNext
  \/ Of("chat") /\ ChatNext
  \/ Of("invoices") /\ InvoiceNext
  \/ Of("catalog") /\ CatalogNext
  \/ Of("orderpage") /\ CustomerPageNext
  \/ Of("desk") /\ DeskNext
  \/ Of("forms") /\ InquiriesNext

shopVars ==
  <<part, vars, cartVars, wishVars, accountVars, chatVars, invoiceVars, catalogVars,
    orderPageVars, inquiryVars>>

ShopSpec == ShopInit /\ [][ShopNext]_shopVars

-----------------------------------------------------------------------------
(* The variables of the part that moves keep their types.                       *)
ShopTypeOK ==
  CASE part = "checkout" -> TypeOK
    [] part = "cart" -> CartTypeOK
    [] part = "wishlist" -> WishTypeOK
    [] part = "accounts" -> AccountsTypeOK
    [] part = "chat" -> ChatTypeOK
    [] part = "invoices" -> InvoiceTypeOK
    [] part = "catalog" -> CatalogTypeOK
    [] part \in {"orderpage", "desk"} -> OrderPagesTypeOK
    [] part = "forms" -> InquiriesTypeOK

(* Pages agree with the backend behind them: the chat page's message, answer and buttons  *)
(* (ChatSound), who is signed in (AccountsSound), where an order stands                   *)
(* (OrderPagesSound), and what visitors have left in a form (FormsSound).                 *)
PagesSound == ChatSound /\ AccountsSound /\ OrderPagesSound /\ FormsSound

(* What staff do in the backoffice adds up: legal invoices (InvoiceSound), listings,       *)
(* their history and the search index (CatalogSound).                           *)
StaffSound == InvoiceSound /\ CatalogSound
=============================================================================
