\* Two runs at a time: a form is submitted again, or the decrypter is
\* mounted again, while a decryption is under way.
SPECIFICATION Spec
CONSTANTS
  d1 = d1
  x = x
  y = y
  Decrypters = {d1}
  Runs = {r1, r2}
  Ciphertexts = {x, y}
  Wanted <- Messages
  MaxPolls = 3
  MaxUnread = 2
  None = None
SYMMETRY Symmetry
INVARIANTS TypeOK OwnPlaintexts KeyOfLastPush TapHasRun
PROPERTIES UrlOfCard
