SPECIFICATION ShopSpec
CONSTANTS
  Guest = {guest}
  User = {user}
  Cart = {c1}
  Key = {key1}
  Intent = {i1}
  Slot = {z1, z2}
  Approval = {a1}
  MaxOrders = 2
  NoOne = NoOne
  NoCart = NoCart
  NoKey = NoKey
  NoIntent = NoIntent
  NoSlot = NoSlot
  Cap = {2}
  Method = {"vnpay"}
  Look <- ShopLook
  Tabs = {b1, b2}
  Lines = {l1}
  MaxQty = 2
  NotAList = NotAList
  Slugs = {w1, w2}
  Pages = {o1, o2}
  Passwords = {q1, q2}
  NoCookie = NoCookie
  NoAccount = NoAccount
  MaxVersion = 2
  MaxAuthCalls = 2
  MaxChatTurns = 2
  MaxPresses = 2
  InvCallbacks = {v1, v2}
  Clerks = {k1, k2}
  MaxLegal = 2
  Listings = {g1}
  Admins = {m1}
  Searches = {s1}
  Faces = {f1, f2}
  MaxSaves = 2
  MaxRestarts = 1
  Desks = {dk1}
  Questions = {as1, as2}
  MaxTries = 3
  Forms = {dossier, newsletter}
  Dossiers = {dossier}
  Texts = {tx1}
  NoText = NoText
  MaxSendings = 2
  MaxOutages = 1
INVARIANTS
  ShopTypeOK
  AnswersAgree OwnAnswers 
   WishesKept
  
  
\* Rows, limits and calls run out.
CHECK_DEADLOCK FALSE
