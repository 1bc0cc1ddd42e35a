--------------------------- MODULE PlugInProofs ---------------------------
(***************************************************************************)
(* The program memory of the HP-41 is whole, for any files, any number of  *)
(* banks and ports, and pages of any size.                                 *)
(***************************************************************************)
EXTENDS PlugIns, FiniteSetTheorems, SequenceTheorems, TLAPS

There(m, b, p) == m[b][p] # NoPage
Steps == {"idle", "read", "create", "group", "words", "protect"}
Loading == load.step # "idle"
Placing == load.step \in {"create", "group", "words", "protect"}
Filling == load.step \in {"group", "words", "protect"}
HomePage == Home(hepax.port)
FilePage(m, i) == File[m].page[i]
PagesOf(m) == 1..Len(File[m].page)

(* The memory's type *)
Memory(m) ==
  /\ m \in [Banks -> [Pages -> PageType \cup {NoPage}]]
  /\ \A b \in Banks, p \in Pages : There(m, b, p) => (m[b][p].write_enable => m[b][p].ram)

(* What a load is about, and to where it is.                               *)
LoadIs ==
  /\ load \in [step : Steps, module : Modules \cup {Nobody}, port : Ports \cup {0}, i : Nat \ {0}, bank : Banks,
               page : Pages \cup {8}, k : Words, group : [1..MAX_BANK_GROUP -> Nat]]
  /\ Loading => load.module \in Modules /\ load.port \in Ports /\ modules[load.port] = Nobody
  /\ Placing => /\ load.i \in PagesOf(load.module) /\ load.page \in Pages
                /\ load.bank = Here.bank \/ (load.bank = HIDDEN_BANK /\ Here.bank = 0 /\ Here.ram)
                /\ load.page \in {Home(load.port), Home(load.port) + 1} \/ (load.page < 8 /\ Half(Here.at) = "system")
                /\ Half(Here.at) = "any" \/ Half(Here.at) = Half(load.page)
  /\ load.step = "create" => load.k = 1

(* The chip, and the page that the ROM is moving from.                     *)
ChipPlaces ==
  /\ hepax # NoHepax =>
       /\ hepax.module \in Modules /\ IsHepax(hepax.module)
       /\ hepax.port \in Ports /\ modules[hepax.port] = hepax.module /\ hepax.rom_page \in Pages
  /\ moving # NotMoving => hepax # NoHepax /\ moving \in Pages /\ moving # hepax.rom_page
  /\ hepax # NoHepax /\ (hepax.rom_page # HomePage \/ moving # NotMoving) =>
       \A b \in RomBanks : There(mem, b, hepax.rom_page)

DeepIs ==
  /\ deep => ~awake
  /\ deep /\ hepax # NoHepax => IF moving = NotMoving THEN hepax.rom_page = HomePage ELSE moving = HomePage

HepaxRecords == [module : Modules \cup {Nobody}, port : 0..4, rom_page : Pages \cup {0}]
Types ==
  /\ Memory(mem)
  /\ active_bank \in [Pages -> RomBanks] /\ bank_group \in [Pages -> Nat]
  /\ hepax \in HepaxRecords
  /\ moving \in Pages \cup {NotMoving}
  /\ awake \in BOOLEAN /\ deep \in BOOLEAN
  /\ modules \in [Ports -> Modules \cup {Nobody}] /\ last_group \in Nat
  /\ upset \subseteq {"load", "restore"}

(* Every page that was created is in one place, in the bank of its file or *)
(* hidden.                                                                 *)
IsAt(m, b, p, image) == There(m, b, p) /\ m[b][p].image = image
BankOf(b) == IF b = HIDDEN_BANK THEN 0 ELSE b
Fits(m, c) ==
  /\ c \subseteq Images
  /\ \A image \in c : \E b \in Banks, p \in Pages : IsAt(m, b, p, image)
  /\ \A b \in Banks, p \in Pages : There(m, b, p) => m[b][p].image \in c \cup {Zero}
  /\ \A b1, b2 \in Banks, p1, p2 \in Pages, image \in c :
       IsAt(m, b1, p1, image) /\ IsAt(m, b2, p2, image) => b1 = b2 /\ p1 = p2
  /\ \A b \in Banks, p \in Pages, image \in c :
       IsAt(m, b, p, image) => BankOf(b) = FilePage(image[1], image[2]).bank

(* Which pages have been created *)
CreatedIs ==
  /\ \A image \in created : image[2] \in PagesOf(image[1])
  /\ \A port \in Ports : modules[port] # Nobody => \A i \in PagesOf(modules[port]) : Image(modules[port], i) \in created
  /\ Loading =>
       /\ \A i \in 1..(load.i - 1) : Image(load.module, i) \in created
       /\ \A i \in PagesOf(load.module) : i >= load.i => (Image(load.module, i) \in created <=> (i = load.i /\ Filling))
       /\ load.i <= Len(File[load.module].page) + 1

(* The pages are of files, and those that are complete have what the file  *)
(* has.                                                                    *)
WordIs(page, image, k) == page.word[k] = image \/ (page.ram /\ page.word[k] = Program)
Complete(list, l, image) ==
  (\E port \in Ports : list[port] = image[1]) \/ (l.step # "idle" /\ image[1] = l.module /\ image[2] < l.i)
GoodPage(page) ==
  /\ page.ram = FilePage(page.image[1], page.image[2]).ram
  /\ \A k \in Words : WordIs(page, page.image, k)
PagesAreGood ==
  \A b \in Banks, p \in Pages : There(mem, b, p) =>
    mem[b][p].image \in created /\ (Complete(modules, load, mem[b][p].image) => GoodPage(mem[b][p]))

(* The page that is being loaded stays where it was created.               *)
LoadStays ==
  Filling =>
    /\ IsAt(mem, load.bank, load.page, Image(load.module, load.i))
    /\ mem[load.bank][load.page].ram = Here.ram
    /\ \A k \in Words : k < load.k \/ load.step = "protect" =>
         WordIs(mem[load.bank][load.page], Image(load.module, load.i), k)
    /\ load.page # moving
    /\ load.bank # HIDDEN_BANK /\ hepax # NoHepax => load.page # hepax.rom_page
    /\ load.bank = HIDDEN_BANK => There(mem, 0, load.page)

(* What is where, as long as events come in the orders that the code       *)
(* provides for.                                                           *)
IsRom(image) == IsHepax(image[1]) /\ image[2] < MAX_BANK
Owns(port, m) == modules[port] = m \/ (Loading /\ load.port = port /\ load.module = m)
InPort(port, p, at) == p \in {Home(port), Home(port) + 1} \/ (p < 8 /\ Half(at) = "system")
InPlace ==
  \A b \in Banks, p \in Pages, image \in created :
    IsAt(mem, b, p, image) /\ ~(IsRom(image) /\ hepax # NoHepax) =>
      \A port \in Ports : Owns(port, image[1]) =>
        LET at == FilePage(image[1], image[2]).at
        IN  InPort(port, p, at) /\ Half(at) \in {"any", Half(p)}
RomIsThere ==
  /\ hepax # NoHepax => \A b \in RomBanks : IsAt(mem, b, hepax.rom_page, Image(hepax.module, b + 1))
  /\ Loading /\ IsHepax(load.module) =>
       /\ hepax = NoHepax
       /\ \A b \in RomBanks : Image(load.module, b + 1) \in created =>
            IsAt(mem, b, Home(load.port), Image(load.module, b + 1))
HomeIsFree ==
  /\ hepax # NoHepax /\ hepax.rom_page # HomePage =>
       /\ \A b \in RomBanks \ {0} : ~There(mem, b, HomePage)
       /\ moving # HomePage => ~There(mem, HIDDEN_BANK, HomePage)
  /\ moving # NotMoving => \A b \in RomBanks : ~There(mem, b, moving)
RamIsHidden ==
  /\ \A p \in Pages : There(mem, HIDDEN_BANK, p) => LeftOver(p) \/ (hepax # NoHepax /\ p \in {hepax.rom_page, moving})
  /\ Loading => \A p \in Pages : There(mem, HIDDEN_BANK, p) /\ There(mem, 0, p) /\ mem[0][p].image[1] = load.module =>
       IsHepax(load.module) /\ p = Home(load.port)

Always == Types /\ LoadIs /\ ChipPlaces /\ DeepIs /\ Fits(mem, created) /\ CreatedIs
Ordered == InPlace /\ RomIsThere /\ HomeIsFree /\ RamIsHidden
MInv ==
  /\ Always
  /\ "load" \notin upset => PagesAreGood /\ LoadStays
  /\ upset = {} => Ordered

-----------------------------------------------------------------------------
(* Banks, ports and pages *)
LEMMA BankFacts ==
  /\ 0 \in RomBanks /\ HIDDEN_BANK \in Banks /\ HIDDEN_BANK \notin RomBanks /\ HIDDEN_BANK # 0 /\ 0 \in Banks
  /\ RomBanks \subseteq Banks /\ \A b \in Banks : b \in RomBanks \/ b = HIDDEN_BANK
BY PlugInAssumption DEF RomBanks, Banks, HIDDEN_BANK

LEMMA PageFacts ==
  /\ \A p \in Pages : p \in Nat /\ p < 16 /\ p # NotMoving
  /\ NotMoving \notin Pages
BY PlugInAssumption DEF NotMoving

LEMMA PortFacts ==
  ASSUME NEW port \in Ports
  PROVE  /\ port \in 1..4 /\ Home(port) \in Pages /\ Home(port) + 1 \in Pages
         /\ Home(port) \in Nat /\ Home(port) >= 8 /\ Home(port) # NotMoving
         /\ \A q \in Ports : q # port =>
              {Home(port), Home(port) + 1} \cap {Home(q), Home(q) + 1} = {}
<1>1. Ports \subseteq 1..4 /\ {Home(port), Home(port) + 1} \subseteq Pages
  BY PlugInAssumption
<1>2. port \in 1..4 /\ Home(port) = 8 + 2 * (port - 1)
  BY <1>1 DEF Home
<1>3. ASSUME NEW q \in Ports, q # port
      PROVE  {Home(port), Home(port) + 1} \cap {Home(q), Home(q) + 1} = {}
  <2>1. q \in 1..4 /\ Home(q) = 8 + 2 * (q - 1)
    BY <1>1 DEF Home
  <2>2. Home(port) # Home(q) /\ Home(port) + 1 # Home(q) /\ Home(port) # Home(q) + 1 /\ Home(port) + 1 # Home(q) + 1
    BY <1>2, <2>1, <1>3
  <2> QED BY <2>2
<1>4. Home(port) \in Nat /\ Home(port) >= 8 /\ Home(port) # NotMoving
  BY <1>2 DEF NotMoving
<1> QED BY <1>1, <1>2, <1>3, <1>4

LEMMA HalfOfHome ==
  ASSUME NEW port \in Ports
  PROVE  Half(Home(port)) = "lower" /\ Half(Home(port) + 1) = "upper"
<1>1. port \in {1, 2, 3, 4}
  BY PlugInAssumption
<1> QED BY <1>1 DEF Half, Home, POSITION_ANY, POSITION_EVEN, POSITION_ODD

-----------------------------------------------------------------------------
(* What a page's move or a page's change leaves as it was                  *)
SameImages(m, n) ==
  \A b \in Banks, p \in Pages :
    (There(n, b, p) <=> There(m, b, p)) /\ (There(m, b, p) => n[b][p].image = m[b][p].image)

LEMMA SameIsAt ==
  ASSUME NEW m, NEW n, SameImages(m, n), NEW b \in Banks, NEW p \in Pages, NEW image
  PROVE  IsAt(n, b, p, image) <=> IsAt(m, b, p, image)
BY DEF SameImages, IsAt

LEMMA SameFits ==
  ASSUME NEW m, NEW n, NEW c, SameImages(m, n), Fits(m, c)
  PROVE  Fits(n, c)
<1>1. \A b \in Banks, p \in Pages : \A image : IsAt(n, b, p, image) <=> IsAt(m, b, p, image)
  BY SameIsAt
<1>2. c \subseteq Images
  BY DEF Fits
<1>3. \A image \in c : \E b \in Banks, p \in Pages : IsAt(n, b, p, image)
  BY <1>1 DEF Fits
<1>4. \A b \in Banks, p \in Pages : There(n, b, p) => n[b][p].image \in c \cup {Zero}
  BY DEF Fits, SameImages
<1>5. \A b1, b2 \in Banks, p1, p2 \in Pages, image \in c :
        IsAt(n, b1, p1, image) /\ IsAt(n, b2, p2, image) => b1 = b2 /\ p1 = p2
  BY <1>1 DEF Fits
<1>6. \A b \in Banks, p \in Pages, image \in c :
        IsAt(n, b, p, image) => BankOf(b) = FilePage(image[1], image[2]).bank
  BY <1>1 DEF Fits
<1> QED BY <1>2, <1>3, <1>4, <1>5, <1>6 DEF Fits

(* A move takes each page from one slot, and puts it in a bank that counts *)
(* as the same.                                                            *)
From(m, n, bank, page, b, p) ==
  /\ n[b][p] = m[bank[b][p]][page[b][p]]
  /\ bank[bank[b][p]][page[b][p]] = b /\ page[bank[b][p]][page[b][p]] = p
  /\ BankOf(bank[b][p]) = BankOf(b)

Moves(m, n) ==
  \E bank \in [Banks -> [Pages -> Banks]], page \in [Banks -> [Pages -> Pages]] :
    \A b \in Banks, p \in Pages : From(m, n, bank, page, b, p)

LEMMA MovesBy ==
  ASSUME NEW m, NEW n, NEW bank \in [Banks -> [Pages -> Banks]], NEW page \in [Banks -> [Pages -> Pages]],
         \A b \in Banks, p \in Pages : From(m, n, bank, page, b, p)
  PROVE  Moves(m, n)
BY DEF Moves

LEMMA MovesTo ==
  ASSUME NEW m, NEW n, Moves(m, n), NEW b \in Banks, NEW p \in Pages
  PROVE  /\ \E b0 \in Banks, p0 \in Pages : n[b][p] = m[b0][p0] /\ BankOf(b0) = BankOf(b)
         /\ \E b0 \in Banks, p0 \in Pages : n[b0][p0] = m[b][p] /\ BankOf(b0) = BankOf(b)
<1>1. PICK bank \in [Banks -> [Pages -> Banks]], page \in [Banks -> [Pages -> Pages]] :
        \A b1 \in Banks, p1 \in Pages : From(m, n, bank, page, b1, p1)
  BY DEF Moves
<1> DEFINE c == bank[b][p]
           q == page[b][p]
<1>2. c \in Banks /\ q \in Pages
  OBVIOUS
<1>3. From(m, n, bank, page, b, p)
  BY <1>1
<1>4. n[b][p] = m[c][q] /\ BankOf(c) = BankOf(b) /\ bank[c][q] = b /\ page[c][q] = p
  BY <1>3 DEF From
<1> HIDE DEF c, q
<1>5. From(m, n, bank, page, c, q)
  BY <1>1, <1>2
<1>6. n[c][q] = m[b][p]
  BY <1>4, <1>5 DEF From
<1> QED BY <1>2, <1>4, <1>6

LEMMA MovesOnce ==
  ASSUME NEW m, NEW n, NEW c, Moves(m, n), Fits(m, c), NEW image \in c,
         NEW b1 \in Banks, NEW p1 \in Pages, NEW b2 \in Banks, NEW p2 \in Pages,
         IsAt(n, b1, p1, image), IsAt(n, b2, p2, image)
  PROVE  b1 = b2 /\ p1 = p2
<1>1. PICK bank \in [Banks -> [Pages -> Banks]], page \in [Banks -> [Pages -> Pages]] :
        \A b \in Banks, p \in Pages : From(m, n, bank, page, b, p)
  BY DEF Moves
<1> DEFINE c1 == bank[b1][p1]
           q1 == page[b1][p1]
           c2 == bank[b2][p2]
           q2 == page[b2][p2]
<1>2. c1 \in Banks /\ q1 \in Pages /\ c2 \in Banks /\ q2 \in Pages
  OBVIOUS
<1>3. n[b1][p1] = m[c1][q1] /\ n[b2][p2] = m[c2][q2]
  BY <1>1 DEF From
<1>4. bank[c1][q1] = b1 /\ page[c1][q1] = p1 /\ bank[c2][q2] = b2 /\ page[c2][q2] = p2
  BY <1>1 DEF From
<1> HIDE DEF c1, q1, c2, q2
<1>5. IsAt(m, c1, q1, image) /\ IsAt(m, c2, q2, image)
  BY <1>3 DEF IsAt, There
<1>6. c1 = c2 /\ q1 = q2
  BY <1>2, <1>5 DEF Fits
<1> QED BY <1>4, <1>6

LEMMA MovesFits ==
  ASSUME NEW m, NEW n, NEW c, Moves(m, n), Fits(m, c)
  PROVE  Fits(n, c)
<1>1. c \subseteq Images
  BY DEF Fits
<1>2. ASSUME NEW image \in c PROVE \E b \in Banks, p \in Pages : IsAt(n, b, p, image)
  <2>1. PICK b \in Banks, p \in Pages : IsAt(m, b, p, image)
    BY DEF Fits
  <2>2. PICK b0 \in Banks, p0 \in Pages : n[b0][p0] = m[b][p]
    BY MovesTo
  <2> QED BY <2>1, <2>2 DEF IsAt, There
<1>3. ASSUME NEW b \in Banks, NEW p \in Pages, There(n, b, p) PROVE n[b][p].image \in c \cup {Zero}
  <2>1. PICK b0 \in Banks, p0 \in Pages : n[b][p] = m[b0][p0]
    BY MovesTo
  <2> QED BY <1>3, <2>1 DEF Fits, There
<1>4. \A b1, b2 \in Banks, p1, p2 \in Pages, image \in c :
        IsAt(n, b1, p1, image) /\ IsAt(n, b2, p2, image) => b1 = b2 /\ p1 = p2
  BY MovesOnce
<1>5. ASSUME NEW b \in Banks, NEW p \in Pages, NEW image \in c, IsAt(n, b, p, image)
      PROVE  BankOf(b) = FilePage(image[1], image[2]).bank
  <2>1. PICK b0 \in Banks, p0 \in Pages : n[b][p] = m[b0][p0] /\ BankOf(b0) = BankOf(b)
    BY MovesTo
  <2>2. IsAt(m, b0, p0, image)
    BY <1>5, <2>1 DEF IsAt, There
  <2> QED BY <2>1, <2>2 DEF Fits
<1> QED BY <1>1, <1>2, <1>3, <1>4, <1>5 DEF Fits

-----------------------------------------------------------------------------
(* The two moves of the HEPAX, slot by slot                                *)
Rebanked(m, p, from, to, b, q) ==
  IF There(m, from, p) /\ ~There(m, to, p) /\ q = p
  THEN IF b = to THEN m[from][p] ELSE IF b = from THEN NoPage ELSE m[b][q]
  ELSE m[b][q]

LEMMA RebankIs ==
  ASSUME NEW m \in [Banks -> [Pages -> PageType \cup {NoPage}]], NEW p \in Pages, NEW from \in Banks, NEW to \in Banks,
         from # to
  PROVE  /\ Rebank(m, p, from, to) \in [Banks -> [Pages -> PageType \cup {NoPage}]]
         /\ \A b \in Banks, q \in Pages : Rebank(m, p, from, to)[b][q] = Rebanked(m, p, from, to, b, q)
<1> DEFINE V == PageType \cup {NoPage}
<1>1. m[from] \in [Pages -> V] /\ m[to] \in [Pages -> V] /\ m[from][p] \in V /\ NoPage \in V
  OBVIOUS
<1> HIDE DEF V
<1>2. CASE m[from][p] # NoPage /\ m[to][p] = NoPage
  <2> DEFINE n == [m EXCEPT ![to][p] = m[from][p], ![from][p] = NoPage]
  <2>1. n \in [Banks -> [Pages -> V]]
    BY <1>1 DEF V
  <2>2. \A b \in Banks, q \in Pages :
          n[b][q] = IF q = p THEN IF b = to THEN m[from][p] ELSE IF b = from THEN NoPage ELSE m[b][q] ELSE m[b][q]
    OBVIOUS
  <2>3. Rebank(m, p, from, to) = n
    BY <1>2 DEF Rebank
  <2> HIDE DEF n
  <2> QED BY <1>2, <2>1, <2>2, <2>3 DEF Rebanked, There, V
<1>3. CASE ~(m[from][p] # NoPage /\ m[to][p] = NoPage)
  <2>1. Rebank(m, p, from, to) = m
    BY <1>3 DEF Rebank
  <2> QED BY <1>3, <2>1 DEF Rebanked, There
<1> QED BY <1>2, <1>3

Moved(m, from, to, b, q) ==
  IF b \in RomBanks /\ There(m, b, from) /\ ~There(m, b, to)
  THEN IF q = to THEN m[b][from] ELSE IF q = from THEN NoPage ELSE m[b][q]
  ELSE m[b][q]

LEMMA MoveIs ==
  ASSUME NEW m \in [Banks -> [Pages -> PageType \cup {NoPage}]], NEW from \in Pages, NEW to \in Pages, from # to
  PROVE  /\ nut_move_rom_page(m, RomBanks, from, to) \in [Banks -> [Pages -> PageType \cup {NoPage}]]
         /\ \A b \in Banks, q \in Pages :
              nut_move_rom_page(m, RomBanks, from, to)[b][q] = Moved(m, from, to, b, q)
<1> DEFINE V == PageType \cup {NoPage}
           n == nut_move_rom_page(m, RomBanks, from, to)
           row(b) == IF b \in RomBanks /\ m[b][from] # NoPage /\ m[b][to] = NoPage
                     THEN [m[b] EXCEPT ![to] = m[b][from], ![from] = NoPage] ELSE m[b]
<1>1. n = [b \in Banks |-> row(b)]
  BY DEF nut_move_rom_page
<1>2. ASSUME NEW b \in Banks
      PROVE  row(b) \in [Pages -> V] /\ \A q \in Pages : row(b)[q] = Moved(m, from, to, b, q)
  <2>1. m[b] \in [Pages -> V] /\ m[b][from] \in V /\ NoPage \in V
    OBVIOUS
  <2> HIDE DEF V
  <2>2. row(b) \in [Pages -> V]
    BY <2>1
  <2>3. \A q \in Pages : row(b)[q] = Moved(m, from, to, b, q)
    BY <2>1 DEF Moved, There
  <2> QED BY <2>2, <2>3
<1> HIDE DEF row, n
<1>3. n \in [Banks -> [Pages -> V]]
  BY <1>1, <1>2
<1>4. \A b \in Banks, q \in Pages : n[b][q] = Moved(m, from, to, b, q)
  BY <1>1, <1>2
<1> QED BY <1>3, <1>4 DEF n

LEMMA RebankMoves ==
  ASSUME NEW m \in [Banks -> [Pages -> PageType \cup {NoPage}]], NEW p \in Pages, NEW from \in Banks, NEW to \in Banks,
         from # to, BankOf(from) = BankOf(to)
  PROVE  Moves(m, Rebank(m, p, from, to))
<1> DEFINE moved == There(m, from, p) /\ ~There(m, to, p)
           bankOf(b, q) == IF moved /\ q = p THEN IF b = to THEN from ELSE IF b = from THEN to ELSE b ELSE b
           bank == [b \in Banks |-> [q \in Pages |-> bankOf(b, q)]]
           page == [b \in Banks |-> [q \in Pages |-> q]]
           n == Rebank(m, p, from, to)
<1>1. bank \in [Banks -> [Pages -> Banks]] /\ page \in [Banks -> [Pages -> Pages]]
  OBVIOUS
<1>2. ASSUME NEW b \in Banks, NEW q \in Pages
      PROVE  From(m, n, bank, page, b, q)
  <2>1. bank[b][q] = bankOf(b, q) /\ page[b][q] = q /\ bankOf(b, q) \in Banks
    OBVIOUS
  <2>2. bank[bankOf(b, q)][q] = bankOf(bankOf(b, q), q) /\ page[bankOf(b, q)][q] = q
    BY <2>1
  <2>3. n[b][q] = Rebanked(m, p, from, to, b, q)
    BY RebankIs
  <2>4. Rebanked(m, p, from, to, b, q) = m[bankOf(b, q)][q]
    BY DEF Rebanked, There
  <2>5. bankOf(bankOf(b, q), q) = b /\ BankOf(bankOf(b, q)) = BankOf(b)
    OBVIOUS
  <2> HIDE DEF bank, page, bankOf, n
  <2> QED BY <2>1, <2>2, <2>3, <2>4, <2>5 DEF From
<1> HIDE DEF bank, page, n
<1>3. Moves(m, n)
  BY <1>1, <1>2, MovesBy
<1> QED BY <1>3 DEF n

LEMMA MoveMoves ==
  ASSUME NEW m \in [Banks -> [Pages -> PageType \cup {NoPage}]], NEW from \in Pages, NEW to \in Pages, from # to
  PROVE  Moves(m, nut_move_rom_page(m, RomBanks, from, to))
<1> DEFINE moved(b) == b \in RomBanks /\ There(m, b, from) /\ ~There(m, b, to)
           pageOf(b, q) == IF moved(b) THEN IF q = to THEN from ELSE IF q = from THEN to ELSE q ELSE q
           bank == [b \in Banks |-> [q \in Pages |-> b]]
           page == [b \in Banks |-> [q \in Pages |-> pageOf(b, q)]]
           n == nut_move_rom_page(m, RomBanks, from, to)
<1>1. bank \in [Banks -> [Pages -> Banks]] /\ page \in [Banks -> [Pages -> Pages]]
  OBVIOUS
<1>2. ASSUME NEW b \in Banks, NEW q \in Pages
      PROVE  From(m, n, bank, page, b, q)
  <2>1. bank[b][q] = b /\ page[b][q] = pageOf(b, q) /\ pageOf(b, q) \in Pages
    OBVIOUS
  <2>2. bank[b][pageOf(b, q)] = b /\ page[b][pageOf(b, q)] = pageOf(b, pageOf(b, q))
    BY <2>1
  <2>3. n[b][q] = Moved(m, from, to, b, q)
    BY MoveIs
  <2>4. Moved(m, from, to, b, q) = m[b][pageOf(b, q)]
    BY DEF Moved, There
  <2>5. pageOf(b, pageOf(b, q)) = q
    OBVIOUS
  <2> HIDE DEF bank, page, pageOf, n
  <2> QED BY <2>1, <2>2, <2>3, <2>4, <2>5 DEF From
<1> HIDE DEF bank, page, n
<1>3. Moves(m, n)
  BY <1>1, <1>2, MovesBy
<1> QED BY <1>3 DEF n

-----------------------------------------------------------------------------
(* What keeps each part of the invariant                                   *)
SameLoad ==
  (Loading' <=> Loading) /\ (Loading => load'.module = load.module /\ load'.port = load.port)

LEMMA WhereThingsAre ==
  ASSUME ChipPlaces, LoadIs
  PROVE  /\ hepax # NoHepax => hepax.rom_page \in Pages /\ HomePage \in Pages /\ hepax.port \in Ports
         /\ moving # NotMoving => hepax # NoHepax /\ moving \in Pages /\ moving # hepax.rom_page
         /\ Loading => load.port \in Ports /\ Home(load.port) \in Pages /\ load.module \in Modules
<1>1. hepax # NoHepax => hepax.rom_page \in Pages /\ hepax.port \in Ports
  BY DEF ChipPlaces
<1>2. hepax # NoHepax => HomePage \in Pages
  BY <1>1, PortFacts DEF HomePage
<1>3. Loading => load.port \in Ports /\ load.module \in Modules
  BY DEF LoadIs
<1>4. Loading => Home(load.port) \in Pages
  BY <1>3, PortFacts
<1> QED BY <1>1, <1>2, <1>3, <1>4 DEF ChipPlaces

(* The order in memory depends on where the images are. *)
LEMMA OrderKept ==
  ASSUME ChipPlaces, LoadIs, Ordered, SameImages(mem, mem'), SameLoad, UNCHANGED <<hepax, moving, modules, created>>
  PROVE  Ordered'
<1>1. \A b \in Banks, p \in Pages : \A image : IsAt(mem', b, p, image) <=> IsAt(mem, b, p, image)
  BY SameIsAt
<1>2. \A b \in Banks, p \in Pages : There(mem', b, p) <=> There(mem, b, p)
  BY DEF SameImages
<1>3. \A port, m : Owns(port, m)' <=> Owns(port, m)
  BY DEF Owns, SameLoad
<1>4. \A p \in Pages : There(mem, 0, p) => mem'[0][p].image = mem[0][p].image
  BY BankFacts DEF SameImages
<1>5. \A p \in Pages : LeftOver(p)' <=> LeftOver(p)
  <2> SUFFICES ASSUME NEW p \in Pages PROVE LeftOver(p)' <=> LeftOver(p)
    OBVIOUS
  <2>1. There(mem', 0, p) <=> There(mem, 0, p)
    BY <1>2, BankFacts
  <2> QED BY <1>4, <2>1 DEF LeftOver, PageExists, There
<1>6. InPlace'
  BY <1>1, <1>3 DEF Ordered, InPlace, IsRom
<1>7. RomIsThere'
  <2>1. hepax' = hepax /\ created' = created /\ RomBanks \subseteq Banks
    BY BankFacts
  <2>2. hepax # NoHepax => \A b \in RomBanks : IsAt(mem', b, hepax.rom_page, Image(hepax.module, b + 1))
    BY <1>1, <2>1, WhereThingsAre DEF Ordered, RomIsThere
  <2>3. Loading /\ IsHepax(load.module) =>
          /\ hepax = NoHepax
          /\ \A b \in RomBanks : Image(load.module, b + 1) \in created =>
               IsAt(mem', b, Home(load.port), Image(load.module, b + 1))
    BY <1>1, <2>1, WhereThingsAre DEF Ordered, RomIsThere
  <2> QED BY <2>1, <2>2, <2>3 DEF RomIsThere, SameLoad
<1>8. HomeIsFree'
  <2>1. RomBanks \subseteq Banks /\ HIDDEN_BANK \in Banks
    BY BankFacts
  <2>2. hepax # NoHepax => HomePage' = HomePage /\ HomePage \in Pages
    BY WhereThingsAre DEF HomePage
  <2>3. hepax # NoHepax /\ hepax.rom_page # HomePage =>
          /\ \A b \in RomBanks \ {0} : ~There(mem', b, HomePage)
          /\ moving # HomePage => ~There(mem', HIDDEN_BANK, HomePage)
    BY <1>2, <2>1, <2>2 DEF Ordered, HomeIsFree
  <2>4. moving # NotMoving => \A b \in RomBanks : ~There(mem', b, moving)
    BY <1>2, <2>1, WhereThingsAre DEF Ordered, HomeIsFree
  <2> QED BY <2>2, <2>3, <2>4 DEF HomeIsFree
<1>9. RamIsHidden'
  <2>1. \A p \in Pages : There(mem', HIDDEN_BANK, p) =>
          LeftOver(p)' \/ (hepax # NoHepax /\ p \in {hepax.rom_page, moving})
    BY <1>2, <1>5, BankFacts DEF Ordered, RamIsHidden
  <2>2. Loading => \A p \in Pages :
          There(mem', HIDDEN_BANK, p) /\ There(mem', 0, p) /\ mem'[0][p].image[1] = load.module =>
            IsHepax(load.module) /\ p = Home(load.port)
    BY <1>2, <1>4, BankFacts DEF Ordered, RamIsHidden
  <2> QED BY <2>1, <2>2 DEF RamIsHidden, SameLoad
<1> QED BY <1>6, <1>7, <1>8, <1>9 DEF Ordered

(* A page that was written into, or not at all *)
PageKept(x, y) ==
  /\ y.image = x.image /\ y.ram = x.ram
  /\ \A k \in Words : y.word[k] = x.word[k] \/ (x.ram /\ y.word[k] = Program)

LEMMA PageKeptIsGood ==
  ASSUME NEW x, NEW y, PageKept(x, y), GoodPage(x)
  PROVE  GoodPage(y)
BY DEF PageKept, GoodPage, WordIs

LEMMA SameIsKept ==
  ASSUME NEW x
  PROVE  PageKept(x, x)
BY DEF PageKept

WasGood(y) ==
  \E b \in Banks, p \in Pages :
    There(mem, b, p) /\ PageKept(mem[b][p], y) /\ y.image \in created /\ Complete(modules, load, y.image)

LEMMA GoodKept ==
  ASSUME PagesAreGood,
         \A b \in Banks, p \in Pages : There(mem', b, p) =>
           /\ mem'[b][p].image \in created'
           /\ Complete(modules', load', mem'[b][p].image) => GoodPage(mem'[b][p]) \/ WasGood(mem'[b][p])
  PROVE  PagesAreGood'
<1> SUFFICES ASSUME NEW b \in Banks, NEW p \in Pages, There(mem', b, p), Complete(modules', load', mem'[b][p].image)
             PROVE  GoodPage(mem'[b][p])
  BY DEF PagesAreGood
<1>1. CASE GoodPage(mem'[b][p])
  BY <1>1
<1>2. CASE WasGood(mem'[b][p])
  <2> DEFINE y == mem'[b][p]
  <2> HIDE DEF y
  <2>1. WasGood(y)
    BY <1>2 DEF y
  <2>2. PICK b0 \in Banks, p0 \in Pages :
          There(mem, b0, p0) /\ PageKept(mem[b0][p0], y) /\ y.image \in created /\ Complete(modules, load, y.image)
    BY <2>1 DEF WasGood
  <2>3. mem[b0][p0].image = y.image
    BY <2>2 DEF PageKept
  <2>4. GoodPage(mem[b0][p0])
    BY <2>2, <2>3 DEF PagesAreGood
  <2>5. GoodPage(y)
    BY <2>2, <2>4, PageKeptIsGood
  <2> QED BY <2>5 DEF y
<1> QED BY <1>1, <1>2

(* Pages that only move *)
LEMMA GoodMoved ==
  ASSUME PagesAreGood, created' = created, \A image \in created : Complete(modules', load', image) => Complete(modules, load, image),
         \A b \in Banks, p \in Pages : There(mem', b, p) => \E b0 \in Banks, p0 \in Pages : mem'[b][p] = mem[b0][p0]
  PROVE  PagesAreGood'
<1>1. ASSUME NEW b \in Banks, NEW p \in Pages, There(mem', b, p)
      PROVE  /\ mem'[b][p].image \in created'
             /\ Complete(modules', load', mem'[b][p].image) => WasGood(mem'[b][p])
  <2> DEFINE y == mem'[b][p]
  <2>1. PICK b0 \in Banks, p0 \in Pages : y = mem[b0][p0]
    BY <1>1
  <2>2. There(mem, b0, p0)
    BY <1>1, <2>1 DEF There
  <2>3. y.image \in created
    BY <2>1, <2>2 DEF PagesAreGood
  <2> HIDE DEF y
  <2>4. PageKept(mem[b0][p0], y)
    BY <2>1, SameIsKept
  <2>5. Complete(modules', load', y.image) => WasGood(y)
    BY <2>2, <2>3, <2>4 DEF WasGood
  <2> QED BY <2>3, <2>5 DEF y
<1> QED BY <1>1, GoodKept

(* The page that is being loaded, in the simulator thread's steps          *)
LEMMA LoadPageKept ==
  ASSUME LoadIs, LoadStays, UNCHANGED load,
         Filling =>
           /\ There(mem', load.bank, load.page) /\ PageKept(mem[load.bank][load.page], mem'[load.bank][load.page])
           /\ load.bank = HIDDEN_BANK => There(mem', 0, load.page)
           /\ load.page # moving'
           /\ load.bank # HIDDEN_BANK /\ hepax' # NoHepax => load.page # hepax'.rom_page
  PROVE  LoadStays'
<1> SUFFICES ASSUME Filling PROVE LoadStays'
  BY DEF LoadStays, Filling
<1> DEFINE x == mem[load.bank][load.page]
           y == mem'[load.bank][load.page]
           image == Image(load.module, load.i)
<1>1. x.image = image /\ x.ram = Here.ram
      /\ \A k \in Words : k < load.k \/ load.step = "protect" => WordIs(x, image, k)
  BY DEF LoadStays, IsAt
<1>2. PageKept(x, y)
  OBVIOUS
<1>3. There(mem', load.bank, load.page)
  OBVIOUS
<1> HIDE DEF x, image, y
<1>4. y.image = image /\ y.ram = Here.ram
      /\ \A k \in Words : k < load.k \/ load.step = "protect" => WordIs(y, image, k)
  BY <1>1, <1>2 DEF PageKept, WordIs
<1>5. IsAt(mem', load.bank, load.page, image)
  BY <1>3, <1>4 DEF IsAt, y
<1>6. Here' = Here /\ Filling' = Filling
  BY DEF Here, Filling
<1> QED BY <1>4, <1>5, <1>6 DEF LoadStays, y, image

(* ... is not in the port that the HEPAX was put into.                     *)
LEMMA LoadElsewhere ==
  ASSUME LoadIs, ChipPlaces, Placing, hepax # NoHepax
  PROVE  load.page \in Pages /\ load.page # HomePage /\ load.port # hepax.port
<1>1. load.port \in Ports /\ modules[load.port] = Nobody /\ hepax.port \in Ports /\ hepax.module \in Modules
      /\ modules[hepax.port] = hepax.module
  BY DEF LoadIs, ChipPlaces, Loading, Placing
<1>2. load.port # hepax.port
  BY <1>1, PlugInAssumption
<1>3. load.page \in {Home(load.port), Home(load.port) + 1} \/ load.page < 8
  BY DEF LoadIs
<1>4. HomePage \in Nat /\ HomePage >= 8 /\ HomePage \in {HomePage, HomePage + 1}
  BY <1>1, PortFacts DEF HomePage
<1>5. {Home(load.port), Home(load.port) + 1} \cap {HomePage, HomePage + 1} = {}
  BY <1>1, <1>2, PortFacts DEF HomePage
<1>6. load.page \in Pages /\ load.page \in Nat
  BY PageFacts DEF LoadIs
<1>7. HomePage \notin {Home(load.port), Home(load.port) + 1}
  BY <1>5
<1>8. ~(HomePage < 8)
  BY <1>4
<1> HIDE DEF HomePage
<1>9. load.page # HomePage
  BY <1>3, <1>7, <1>8
<1> QED BY <1>2, <1>6, <1>9

-----------------------------------------------------------------------------
(* The HEPAX begins to move its ROM                                        *)
Basis == Memory(mem) /\ hepax \in HepaxRecords /\ LoadIs /\ ChipPlaces /\ Fits(mem, created) /\ CreatedIs

LEMMA BasisIs == Always => Basis
BY DEF Always, Basis, Types

(* ... to its port, which may hide the RAM there,                          *)
HidesHome(to) ==
  /\ to = HomePage /\ to # hepax.rom_page /\ moving' = to
  /\ mem' = Rebank(mem, HomePage, 0, HIDDEN_BANK)

(* ... or to a page that was found free.                                   *)
GoesTo(to) ==
  /\ to # HomePage /\ to # hepax.rom_page /\ Preflight(to) /\ moving' = to
  /\ mem' = mem

LEMMA StartOfMove ==
  ASSUME NEW to, hepax_move_rom_to_page(to)
  PROVE  (UNCHANGED <<mem, moving>> /\ (to # HomePage \/ hepax.rom_page = HomePage)) \/ HidesHome(to) \/ GoesTo(to)
BY DEF hepax_move_rom_to_page, HidesHome, GoesTo, HomePage

StillThere == UNCHANGED <<hepax, modules, load, created, upset>>

LEMMA HidingHome ==
  ASSUME Basis, HidesHome(HomePage), hepax # NoHepax
  PROVE  /\ mem' \in [Banks -> [Pages -> PageType \cup {NoPage}]]
         /\ \A b \in Banks, p \in Pages : mem'[b][p] = Rebanked(mem, HomePage, 0, HIDDEN_BANK, b, p)
         /\ \A b \in Banks, p \in Pages : p # HomePage => mem'[b][p] = mem[b][p]
         /\ \A b \in Banks, p \in Pages : \E b0 \in Banks : mem'[b][p] = mem[b0][p] \/ mem'[b][p] = NoPage
         /\ Moves(mem, mem')
<1>1. mem \in [Banks -> [Pages -> PageType \cup {NoPage}]] /\ HomePage \in Pages
  BY WhereThingsAre DEF Basis, Memory
<1>2. 0 \in Banks /\ HIDDEN_BANK \in Banks /\ 0 # HIDDEN_BANK /\ BankOf(0) = BankOf(HIDDEN_BANK)
  BY BankFacts DEF BankOf
<1>3. mem' = Rebank(mem, HomePage, 0, HIDDEN_BANK)
  BY DEF HidesHome
<1> HIDE DEF HomePage
<1>4. /\ mem' \in [Banks -> [Pages -> PageType \cup {NoPage}]]
      /\ \A b \in Banks, p \in Pages : mem'[b][p] = Rebanked(mem, HomePage, 0, HIDDEN_BANK, b, p)
  BY <1>1, <1>2, <1>3, RebankIs
<1>5. \A b \in Banks, p \in Pages : p # HomePage => mem'[b][p] = mem[b][p]
  BY <1>4 DEF Rebanked
<1>6. \A b \in Banks, p \in Pages : \E b0 \in Banks : mem'[b][p] = mem[b0][p] \/ mem'[b][p] = NoPage
  BY <1>2, <1>4 DEF Rebanked
<1>7. Moves(mem, mem')
  BY <1>1, <1>2, <1>3, RebankMoves
<1> QED BY <1>4, <1>5, <1>6, <1>7

LEMMA MovedMemory ==
  ASSUME NEW m, NEW n, Memory(m), n \in [Banks -> [Pages -> PageType \cup {NoPage}]],
         \A b \in Banks, p \in Pages : There(n, b, p) => \E b0 \in Banks, p0 \in Pages : n[b][p] = m[b0][p0]
  PROVE  Memory(n)
<1> SUFFICES ASSUME NEW b \in Banks, NEW p \in Pages, There(n, b, p) PROVE n[b][p].write_enable => n[b][p].ram
  BY DEF Memory
<1>1. PICK b0 \in Banks, p0 \in Pages : n[b][p] = m[b0][p0]
  OBVIOUS
<1> QED BY <1>1 DEF Memory, There

LEMMA HidingHomeKeeps ==
  ASSUME Basis, HidesHome(HomePage), hepax # NoHepax, moving = NotMoving, StillThere
  PROVE  /\ Memory(mem') /\ ChipPlaces' /\ Fits(mem', created)
         /\ PagesAreGood => PagesAreGood'
         /\ LoadStays => LoadStays'
<1>1. /\ mem' \in [Banks -> [Pages -> PageType \cup {NoPage}]]
      /\ \A b \in Banks, p \in Pages : p # HomePage => mem'[b][p] = mem[b][p]
      /\ \A b \in Banks, p \in Pages : \E b0 \in Banks : mem'[b][p] = mem[b0][p] \/ mem'[b][p] = NoPage
      /\ Moves(mem, mem')
  BY HidingHome
<1>2. \A b \in Banks, p \in Pages : There(mem', b, p) => \E b0 \in Banks, p0 \in Pages : mem'[b][p] = mem[b0][p0]
  BY <1>1 DEF There
<1>3. Memory(mem')
  BY <1>1, <1>2, MovedMemory DEF Basis
<1>4. Fits(mem', created)
  BY <1>1, MovesFits DEF Basis
<1>5. ChipPlaces'
  <2>1. hepax.rom_page \in Pages /\ HomePage \in Pages /\ hepax.rom_page # HomePage /\ moving' = HomePage
    BY WhereThingsAre DEF HidesHome, Basis
  <2>2. \A b \in RomBanks : There(mem, b, hepax.rom_page)
    BY <2>1 DEF Basis, ChipPlaces
  <2>3. \A b \in RomBanks : There(mem', b, hepax.rom_page)
    BY <1>1, <2>1, <2>2, BankFacts DEF There
  <2> QED BY <2>1, <2>3 DEF ChipPlaces, StillThere, Basis
<1>6. ASSUME PagesAreGood PROVE PagesAreGood'
  BY <1>2, <1>6, GoodMoved DEF StillThere
<1>7. ASSUME LoadStays PROVE LoadStays'
  <2>1. ASSUME Filling
        PROVE  /\ There(mem', load.bank, load.page) /\ PageKept(mem[load.bank][load.page], mem'[load.bank][load.page])
               /\ load.bank = HIDDEN_BANK => There(mem', 0, load.page)
               /\ load.page # moving'
               /\ load.bank # HIDDEN_BANK /\ hepax' # NoHepax => load.page # hepax'.rom_page
    <3>1. load.page \in Pages /\ load.page # HomePage /\ load.bank \in Banks
      BY <2>1, LoadElsewhere DEF Placing, Filling, Basis, LoadIs
    <3>2. mem'[load.bank][load.page] = mem[load.bank][load.page] /\ mem'[0][load.page] = mem[0][load.page]
      BY <1>1, <3>1, BankFacts
    <3>3. PageKept(mem[load.bank][load.page], mem'[load.bank][load.page])
      BY <3>2, SameIsKept
    <3> QED BY <1>7, <2>1, <3>1, <3>2, <3>3 DEF LoadStays, IsAt, There, HidesHome, StillThere
  <2> QED BY <1>7, <2>1, LoadPageKept DEF StillThere, Basis
<1> QED BY <1>3, <1>4, <1>5, <1>6, <1>7

LEMMA HidingHomeOrder ==
  ASSUME Basis, HidesHome(HomePage), hepax # NoHepax, moving = NotMoving, StillThere, Ordered
  PROVE  Ordered'
<1>1. /\ \A b \in Banks, p \in Pages : mem'[b][p] = Rebanked(mem, HomePage, 0, HIDDEN_BANK, b, p)
      /\ \A b \in Banks, p \in Pages : p # HomePage => mem'[b][p] = mem[b][p]
      /\ \A b \in Banks, p \in Pages : \E b0 \in Banks : mem'[b][p] = mem[b0][p] \/ mem'[b][p] = NoPage
  BY HidingHome
<1>2. /\ HomePage \in Pages /\ HomePage' = HomePage /\ moving' = HomePage
      /\ hepax.rom_page \in Pages /\ hepax.rom_page # HomePage
      /\ HomePage # NotMoving
  BY WhereThingsAre, PageFacts DEF HidesHome, Basis, StillThere, HomePage
<1>3. 0 \in Banks /\ 0 \in RomBanks /\ HIDDEN_BANK \in Banks /\ 0 # HIDDEN_BANK /\ RomBanks \subseteq Banks
      /\ HIDDEN_BANK \notin RomBanks
  BY BankFacts
<1> HIDE DEF HomePage
<1>4. \A b \in Banks, p \in Pages : p # HomePage => (There(mem', b, p) <=> There(mem, b, p))
  BY <1>1 DEF There
<1>5. InPlace'
  <2> SUFFICES ASSUME NEW b \in Banks, NEW p \in Pages, NEW image \in created, IsAt(mem', b, p, image),
                      ~(IsRom(image) /\ hepax # NoHepax), NEW port \in Ports, Owns(port, image[1])
               PROVE  LET at == FilePage(image[1], image[2]).at IN InPort(port, p, at) /\ Half(at) \in {"any", Half(p)}
    BY DEF InPlace, StillThere, Owns, Loading
  <2>1. PICK b0 \in Banks : mem'[b][p] = mem[b0][p]
    BY <1>1 DEF IsAt, There
  <2>2. IsAt(mem, b0, p, image)
    BY <2>1 DEF IsAt, There
  <2> QED BY <2>2 DEF Ordered, InPlace
<1>6. RomIsThere'
  <2>1. \A b \in RomBanks : IsAt(mem, b, hepax.rom_page, Image(hepax.module, b + 1))
    BY DEF Ordered, RomIsThere
  <2>2. \A b \in RomBanks : IsAt(mem', b, hepax.rom_page, Image(hepax.module, b + 1))
    BY <1>1, <1>2, <1>3, <2>1 DEF IsAt, There
  <2>3. ~(Loading /\ IsHepax(load.module))
    BY DEF Ordered, RomIsThere
  <2> QED BY <2>2, <2>3 DEF RomIsThere, StillThere, Loading
<1>7. HomeIsFree'
  <2>1. \A b \in RomBanks \ {0} : ~There(mem, b, HomePage)
    BY <1>2 DEF Ordered, HomeIsFree
  <2>2. ~There(mem, HIDDEN_BANK, HomePage)
    BY <1>2 DEF Ordered, HomeIsFree
  <2>3. \A b \in RomBanks \ {0} : ~There(mem', b, HomePage)
    BY <1>1, <1>2, <1>3, <2>1 DEF Rebanked, There
  <2>4. ~There(mem', 0, HomePage)
    BY <1>1, <1>2, <1>3, <2>2 DEF Rebanked, There
  <2> QED BY <1>2, <2>3, <2>4 DEF HomeIsFree, StillThere
<1>8. RamIsHidden'
  <2>1. ASSUME NEW p \in Pages, There(mem', HIDDEN_BANK, p)
        PROVE  LeftOver(p)' \/ (hepax # NoHepax /\ p \in {hepax.rom_page, moving'})
    <3>1. CASE p = HomePage
      BY <1>2, <3>1
    <3>2. CASE p # HomePage
      <4>1. There(mem, HIDDEN_BANK, p) /\ mem'[0][p] = mem[0][p]
        BY <1>1, <1>3, <1>4, <2>1, <3>2
      <4>2. LeftOver(p) \/ (hepax # NoHepax /\ p \in {hepax.rom_page, moving})
        BY <4>1 DEF Ordered, RamIsHidden
      <4>3. p # moving
        BY PageFacts
      <4> QED BY <4>1, <4>2, <4>3 DEF LeftOver, PageExists, StillThere
    <3> QED BY <3>1, <3>2
  <2>2. ASSUME Loading, NEW p \in Pages, There(mem', HIDDEN_BANK, p), There(mem', 0, p), mem'[0][p].image[1] = load.module
        PROVE  IsHepax(load.module) /\ p = Home(load.port)
    <3>1. p # HomePage
      <4>1. ~There(mem, HIDDEN_BANK, HomePage)
        BY <1>2 DEF Ordered, HomeIsFree
      <4>2. ~There(mem', 0, HomePage)
        BY <1>1, <1>2, <1>3, <4>1 DEF Rebanked, There
      <4> QED BY <2>2, <4>2
    <3>2. There(mem, HIDDEN_BANK, p) /\ There(mem, 0, p) /\ mem[0][p].image[1] = load.module
      BY <1>1, <1>3, <2>2, <3>1 DEF There
    <3> QED BY <2>2, <3>2 DEF Ordered, RamIsHidden
  <2> QED BY <2>1, <2>2 DEF RamIsHidden, StillThere, Loading
<1> QED BY <1>5, <1>6, <1>7, <1>8 DEF Ordered

LEMMA GoingTo ==
  ASSUME Basis, NEW to \in Pages, GoesTo(to), hepax # NoHepax, moving = NotMoving, StillThere
  PROVE  /\ Memory(mem') /\ ChipPlaces' /\ Fits(mem', created)
         /\ PagesAreGood => PagesAreGood'
         /\ LoadStays => LoadStays'
         /\ Ordered => Ordered'
<1>1. /\ mem' = mem /\ moving' = to /\ hepax' = hepax /\ to # hepax.rom_page /\ to # HomePage
      /\ HomePage' = HomePage /\ HomePage \in Pages /\ HomePage # NotMoving
      /\ \A b \in RomBanks : There(mem, b, hepax.rom_page) /\ ~There(mem, b, to)
  BY WhereThingsAre, PageFacts DEF GoesTo, StillThere, Preflight, There, HomePage, Basis
<1> HIDE DEF HomePage
<1>2. Memory(mem') /\ Fits(mem', created)
  BY <1>1 DEF Basis
<1>3. ChipPlaces'
  BY <1>1 DEF Basis, ChipPlaces, StillThere
<1>4. ASSUME PagesAreGood PROVE PagesAreGood'
  BY <1>1, <1>4, GoodMoved DEF StillThere
<1>5. ASSUME LoadStays PROVE LoadStays'
  <2>1. ASSUME Filling
        PROVE  /\ There(mem', load.bank, load.page) /\ PageKept(mem[load.bank][load.page], mem'[load.bank][load.page])
               /\ load.bank = HIDDEN_BANK => There(mem', 0, load.page)
               /\ load.page # moving'
               /\ load.bank # HIDDEN_BANK /\ hepax' # NoHepax => load.page # hepax'.rom_page
    <3>1. load.bank \in Banks /\ (load.bank \in RomBanks \/ load.bank = HIDDEN_BANK) /\ 0 \in RomBanks
      BY BankFacts DEF Basis, LoadIs
    <3>2. There(mem, load.bank, load.page) /\ (load.bank = HIDDEN_BANK => There(mem, 0, load.page))
      BY <1>5, <2>1 DEF LoadStays, IsAt
    <3>3. load.page # to
      BY <1>1, <3>1, <3>2
    <3>4. PageKept(mem[load.bank][load.page], mem'[load.bank][load.page])
      BY <1>1, SameIsKept
    <3> QED BY <1>1, <1>5, <2>1, <3>2, <3>3, <3>4 DEF LoadStays
  <2> QED BY <1>5, <2>1, LoadPageKept DEF StillThere, Basis
<1>6. ASSUME Ordered PROVE Ordered'
  <2>1. InPlace'
    BY <1>1, <1>6 DEF Ordered, InPlace, StillThere, Owns, Loading
  <2>2. RomIsThere'
    BY <1>1, <1>6 DEF Ordered, RomIsThere, StillThere, Loading
  <2>3. HomeIsFree'
    BY <1>1, <1>6 DEF Ordered, HomeIsFree, StillThere
  <2>4. RamIsHidden'
    <3>1. \A p \in Pages : p # moving
      BY PageFacts
    <3>2. \A p \in Pages : LeftOver(p)' <=> LeftOver(p)
      BY <1>1 DEF LeftOver, PageExists, StillThere
    <3>3. \A p \in Pages : There(mem, HIDDEN_BANK, p) => LeftOver(p)' \/ (hepax # NoHepax /\ p \in {hepax.rom_page, to})
      BY <1>6, <3>1, <3>2 DEF Ordered, RamIsHidden
    <3> QED BY <1>1, <1>6, <3>3 DEF Ordered, RamIsHidden, StillThere, Loading
  <2> QED BY <2>1, <2>2, <2>3, <2>4 DEF Ordered
<1> QED BY <1>2, <1>3, <1>4, <1>5, <1>6

(* What begins a move: the ROMBLK instruction, and a reset of the chip.    *)
LEMMA StartKeeps ==
  ASSUME Basis, NEW to \in Pages, hepax_move_rom_to_page(to), hepax # NoHepax, moving = NotMoving, StillThere
  PROVE  /\ Memory(mem') /\ ChipPlaces' /\ Fits(mem', created)
         /\ PagesAreGood => PagesAreGood'
         /\ LoadStays => LoadStays'
         /\ Ordered => Ordered'
         /\ moving' \in Pages \cup {NotMoving}
         /\ to = HomePage => IF moving' = NotMoving THEN hepax.rom_page = HomePage ELSE moving' = HomePage
<1>1. HomePage \in Pages /\ HomePage # NotMoving
  BY WhereThingsAre, PageFacts DEF Basis
<1>2. CASE UNCHANGED <<mem, moving>> /\ (to # HomePage \/ hepax.rom_page = HomePage)
  <2>1. Memory(mem') /\ ChipPlaces' /\ Fits(mem', created)
    BY <1>2 DEF Basis, ChipPlaces, StillThere, HomePage
  <2>2. ASSUME PagesAreGood PROVE PagesAreGood'
    BY <1>2, <2>2, GoodMoved DEF StillThere
  <2>3. ASSUME LoadStays PROVE LoadStays'
    BY <1>2, <2>3 DEF LoadStays, StillThere, Filling, Here
  <2>4. SameImages(mem, mem') /\ SameLoad
    BY <1>2 DEF SameImages, SameLoad, StillThere, Loading
  <2>5. ASSUME Ordered PROVE Ordered'
    BY <1>2, <2>4, <2>5, OrderKept DEF StillThere, Basis
  <2> QED BY <1>2, <2>1, <2>2, <2>3, <2>5
<1>3. CASE HidesHome(to)
  <2>1. to = HomePage /\ moving' = HomePage
    BY <1>3 DEF HidesHome
  <2>2. HidesHome(HomePage)
    BY <1>3, <2>1
  <2> QED BY <1>1, <2>1, <2>2, HidingHomeKeeps, HidingHomeOrder
<1>4. CASE GoesTo(to)
  <2>1. to # HomePage /\ moving' = to
    BY <1>4 DEF GoesTo
  <2> QED BY <1>4, <2>1, GoingTo
<1> QED BY <1>2, <1>3, <1>4, StartOfMove

LEMMA ResetKeeps ==
  ASSUME Basis, hepax_reset, moving = NotMoving, StillThere
  PROVE  /\ Memory(mem') /\ ChipPlaces' /\ Fits(mem', created)
         /\ PagesAreGood => PagesAreGood'
         /\ LoadStays => LoadStays'
         /\ Ordered => Ordered'
         /\ moving' \in Pages \cup {NotMoving}
         /\ hepax # NoHepax => IF moving' = NotMoving THEN hepax.rom_page = HomePage ELSE moving' = HomePage
<1>1. CASE hepax # NoHepax
  <2>1. hepax_move_rom_to_page(HomePage) /\ HomePage \in Pages
    BY <1>1, WhereThingsAre DEF hepax_reset, HomePage, Basis
  <2> QED BY <1>1, <2>1, StartKeeps
<1>2. CASE hepax = NoHepax
  <2>0. UNCHANGED <<mem, moving>>
    BY <1>2 DEF hepax_reset
  <2>1. Memory(mem') /\ ChipPlaces' /\ Fits(mem', created)
    BY <1>2, <2>0 DEF Basis, ChipPlaces, StillThere, HomePage
  <2>2. ASSUME PagesAreGood PROVE PagesAreGood'
    BY <2>0, <2>2, GoodMoved DEF StillThere
  <2>3. ASSUME LoadStays PROVE LoadStays'
    BY <2>0, <2>3 DEF LoadStays, StillThere, Filling, Here
  <2>4. SameImages(mem, mem') /\ SameLoad
    BY <2>0 DEF SameImages, SameLoad, StillThere, Loading
  <2>5. ASSUME Ordered PROVE Ordered'
    BY <2>0, <2>4, <2>5, OrderKept DEF StillThere, Basis
  <2> QED BY <1>2, <2>0, <2>1, <2>2, <2>3, <2>5
<1> QED BY <1>1, <1>2

-----------------------------------------------------------------------------
(* The HEPAX has moved its ROM                                             *)
MovedRom == nut_move_rom_page(mem, RomBanks, hepax.rom_page, moving)

(* The memory is that of before but for the two pages. *)
Landed(b, p) ==
  IF p \notin {hepax.rom_page, moving} \/ (b = HIDDEN_BANK /\ p = moving) THEN mem[b][p]
  ELSE IF p = moving THEN (IF There(mem, b, moving) THEN mem[b][moving] ELSE mem[b][hepax.rom_page])
  ELSE IF There(mem, IF b = HIDDEN_BANK THEN 0 ELSE b, moving) THEN mem[b][p]
  ELSE IF b = 0 THEN mem[HIDDEN_BANK][p] ELSE NoPage

LEMMA FinishIs ==
  ASSUME Basis, FinishMove
  PROVE  /\ mem' \in [Banks -> [Pages -> PageType \cup {NoPage}]]
         /\ \A b \in Banks, p \in Pages : mem'[b][p] = Landed(b, p)
         /\ Fits(mem', created)
         /\ \A b \in Banks, p \in Pages : \E b0 \in Banks, p0 \in Pages : mem'[b][p] = mem[b0][p0]
<1> DEFINE r == hepax.rom_page
           t == moving
           V == PageType \cup {NoPage}
           n == MovedRom
<1>1. hepax # NoHepax /\ r \in Pages /\ t \in Pages /\ r # t /\ \A b \in RomBanks : There(mem, b, r)
  BY WhereThingsAre DEF FinishMove, Basis, ChipPlaces
<1>2. mem \in [Banks -> [Pages -> V]]
  BY DEF Basis, Memory
<1>3. 0 \in RomBanks /\ 0 \in Banks /\ HIDDEN_BANK \in Banks /\ HIDDEN_BANK # 0 /\ HIDDEN_BANK \notin RomBanks
      /\ RomBanks \subseteq Banks /\ BankOf(HIDDEN_BANK) = BankOf(0) /\ \A b \in Banks : b \in RomBanks \/ b = HIDDEN_BANK
  BY BankFacts DEF BankOf
<1>4. mem' = Rebank(n, r, HIDDEN_BANK, 0)
  BY DEF FinishMove, Unhide, MovedRom
<1> HIDE DEF r, t
<1>5. /\ n \in [Banks -> [Pages -> V]]
      /\ \A b \in Banks, p \in Pages : n[b][p] = Moved(mem, r, t, b, p)
      /\ Moves(mem, n)
  BY <1>1, <1>2, MoveIs, MoveMoves DEF MovedRom, r, t
<1> HIDE DEF n
<1>6. /\ mem' \in [Banks -> [Pages -> V]]
      /\ \A b \in Banks, p \in Pages : mem'[b][p] = Rebanked(n, r, HIDDEN_BANK, 0, b, p)
      /\ Moves(n, mem')
  <2>1. n \in [Banks -> [Pages -> PageType \cup {NoPage}]] /\ r \in Pages
    BY <1>1, <1>5
  <2>2. /\ Rebank(n, r, HIDDEN_BANK, 0) \in [Banks -> [Pages -> PageType \cup {NoPage}]]
        /\ \A b \in Banks, p \in Pages : Rebank(n, r, HIDDEN_BANK, 0)[b][p] = Rebanked(n, r, HIDDEN_BANK, 0, b, p)
    BY <1>3, <2>1, RebankIs
  <2>3. Moves(n, Rebank(n, r, HIDDEN_BANK, 0))
    BY <1>3, <2>1, RebankMoves
  <2> QED BY <1>4, <2>2, <2>3
<1> HIDE DEF V
<1>7. ASSUME NEW b \in Banks, NEW p \in Pages PROVE mem'[b][p] = Landed(b, p)
  <2>1. CASE p # r /\ p # t
    <3>1. n[b][p] = mem[b][p]
      BY <1>5, <2>1 DEF Moved
    <3> QED BY <1>6, <2>1, <3>1 DEF Landed, Rebanked, r, t
  <2>2. CASE p = t
    <3>1. mem'[b][p] = n[b][p]
      BY <1>1, <1>6, <2>2 DEF Rebanked
    <3>2. n[b][t] = IF b \in RomBanks /\ ~There(mem, b, t) THEN mem[b][r] ELSE mem[b][t]
      BY <1>1, <1>5 DEF Moved
    <3>3. Landed(b, t) = IF b = HIDDEN_BANK THEN mem[b][t] ELSE IF There(mem, b, t) THEN mem[b][t] ELSE mem[b][r]
      BY <1>1 DEF Landed, r, t
    <3> QED BY <1>3, <2>2, <3>1, <3>2, <3>3
  <2>3. CASE p = r
    <3>1. \A c \in RomBanks : n[c][r] = IF There(mem, c, t) THEN mem[c][r] ELSE NoPage
      BY <1>1, <1>3, <1>5 DEF Moved
    <3>2. n[HIDDEN_BANK][r] = mem[HIDDEN_BANK][r]
      BY <1>1, <1>3, <1>5 DEF Moved
    <3>3. mem'[b][r] = IF There(n, HIDDEN_BANK, r) /\ ~There(n, 0, r)
                       THEN IF b = 0 THEN n[HIDDEN_BANK][r] ELSE IF b = HIDDEN_BANK THEN NoPage ELSE n[b][r]
                       ELSE n[b][r]
      BY <1>1, <1>6 DEF Rebanked
    <3>4. There(n, 0, r) <=> There(mem, 0, t)
      BY <1>1, <1>3, <3>1 DEF There
    <3>5. There(n, HIDDEN_BANK, r) <=> mem[HIDDEN_BANK][r] # NoPage
      BY <3>2 DEF There
    <3>6. Landed(b, r) = IF There(mem, IF b = HIDDEN_BANK THEN 0 ELSE b, t) THEN mem[b][r]
                         ELSE IF b = 0 THEN mem[HIDDEN_BANK][r] ELSE NoPage
      BY <1>1 DEF Landed, r, t
    <3>7. CASE b = HIDDEN_BANK
      BY <1>3, <2>3, <3>2, <3>3, <3>4, <3>5, <3>6, <3>7
    <3>8. CASE b = 0
      BY <1>3, <2>3, <3>1, <3>2, <3>3, <3>4, <3>5, <3>6, <3>8
    <3>9. CASE b \in RomBanks /\ b # 0
      BY <1>3, <2>3, <3>1, <3>3, <3>6, <3>9
    <3> QED BY <1>3, <3>7, <3>8, <3>9
  <2> QED BY <2>1, <2>2, <2>3
<1>8. Fits(mem', created)
  <2>1. Fits(n, created)
    BY <1>5, MovesFits DEF Basis
  <2> QED BY <1>6, <2>1, MovesFits
<1>9. ASSUME NEW b \in Banks, NEW p \in Pages PROVE \E b0 \in Banks, p0 \in Pages : mem'[b][p] = mem[b0][p0]
  <2>1. PICK b1 \in Banks, p1 \in Pages : mem'[b][p] = n[b1][p1]
    BY <1>6, MovesTo
  <2>2. PICK b0 \in Banks, p0 \in Pages : n[b1][p1] = mem[b0][p0]
    BY <1>5, MovesTo
  <2> QED BY <2>1, <2>2
<1> QED
  <2>1. \A b \in Banks, p \in Pages : mem'[b][p] = Landed(b, p)
    BY <1>7
  <2>2. \A b \in Banks, p \in Pages : \E b0 \in Banks, p0 \in Pages : mem'[b][p] = mem[b0][p0]
    BY <1>9
  <2> QED BY <1>6, <1>8, <2>1, <2>2 DEF V

(* ... which is where the register says, and is not where a page is loaded *)
LEMMA FinishKeeps ==
  ASSUME Basis, FinishMove
  PROVE  /\ Memory(mem') /\ ChipPlaces' /\ Fits(mem', created')
         /\ PagesAreGood => PagesAreGood'
         /\ LoadStays /\ "load" \notin upset' => LoadStays'
<1>1. /\ mem' \in [Banks -> [Pages -> PageType \cup {NoPage}]]
      /\ \A b \in Banks, p \in Pages : mem'[b][p] = Landed(b, p)
      /\ Fits(mem', created)
      /\ \A b \in Banks, p \in Pages : \E b0 \in Banks, p0 \in Pages : mem'[b][p] = mem[b0][p0]
  BY FinishIs
<1>2. /\ hepax # NoHepax /\ hepax.rom_page \in Pages /\ moving \in Pages /\ hepax.rom_page # moving
      /\ \A b \in RomBanks : There(mem, b, hepax.rom_page)
  BY WhereThingsAre DEF FinishMove, Basis, ChipPlaces
<1>3. /\ moving' = NotMoving /\ created' = created /\ load' = load /\ modules' = modules
      /\ hepax' = [hepax EXCEPT !.rom_page = moving]
  BY DEF FinishMove, loader
<1>4. /\ hepax'.module = hepax.module /\ hepax'.port = hepax.port /\ hepax'.rom_page = moving
      /\ hepax' # NoHepax /\ HomePage' = HomePage
  <2>1. hepax \in HepaxRecords
    BY DEF Basis
  <2>2. /\ hepax'.module = hepax.module /\ hepax'.port = hepax.port /\ hepax'.rom_page = moving
    BY <1>3, <2>1 DEF HepaxRecords
  <2>3. hepax.module \in Modules
    BY <1>2 DEF Basis, ChipPlaces
  <2>4. hepax'.module # Nobody
    BY <2>2, <2>3, PlugInAssumption
  <2> QED BY <2>2, <2>4 DEF NoHepax, HomePage
<1>5. Memory(mem')
  BY <1>1, MovedMemory DEF Basis
<1>6. ASSUME PagesAreGood PROVE PagesAreGood'
  BY <1>1, <1>3, <1>6, GoodMoved
<1>7. ChipPlaces'
  <2>1. ASSUME NEW b \in RomBanks PROVE There(mem', b, moving)
    <3>1. b \in Banks /\ b # HIDDEN_BANK
      BY BankFacts
    <3>2. mem'[b][moving] = IF There(mem, b, moving) THEN mem[b][moving] ELSE mem[b][hepax.rom_page]
      BY <1>1, <1>2, <3>1 DEF Landed
    <3> QED BY <1>2, <3>2 DEF There
  <2> QED BY <1>2, <1>3, <1>4, <2>1 DEF Basis, ChipPlaces
<1>8. ASSUME LoadStays, "load" \notin upset' PROVE LoadStays'
  <2>1. ASSUME Filling
        PROVE  /\ There(mem', load.bank, load.page) /\ PageKept(mem[load.bank][load.page], mem'[load.bank][load.page])
               /\ load.bank = HIDDEN_BANK => There(mem', 0, load.page)
               /\ load.page # moving'
               /\ load.bank # HIDDEN_BANK /\ hepax' # NoHepax => load.page # hepax'.rom_page
    <3>1. load.bank \in Banks /\ load.page \in Pages /\ load.page # moving
          /\ (load.bank # HIDDEN_BANK => load.page # hepax.rom_page)
          /\ There(mem, load.bank, load.page) /\ (load.bank = HIDDEN_BANK => There(mem, 0, load.page))
      BY <1>2, <1>8, <2>1 DEF LoadStays, Basis, LoadIs, IsAt, Placing, Filling
    <3>2. ~(load.bank = HIDDEN_BANK /\ load.page = hepax.rom_page)
      BY <1>8, <2>1 DEF FinishMove, Filling
    <3>3. load.page # hepax.rom_page
      BY <3>1, <3>2
    <3>4. mem'[load.bank][load.page] = mem[load.bank][load.page] /\ mem'[0][load.page] = mem[0][load.page]
      BY <1>1, <3>1, <3>3, BankFacts DEF Landed
    <3>5. PageKept(mem[load.bank][load.page], mem'[load.bank][load.page])
      BY <3>4, SameIsKept
    <3>6. load.page # NotMoving
      BY <3>1, PageFacts
    <3> QED BY <1>3, <1>4, <3>1, <3>4, <3>5, <3>6 DEF There
  <2> QED BY <1>3, <1>8, <2>1, LoadPageKept DEF Basis
<1> QED BY <1>1, <1>3, <1>5, <1>6, <1>7, <1>8

LEMMA FinishOrder ==
  ASSUME Basis, FinishMove, Ordered
  PROVE  Ordered'
<1> DEFINE r == hepax.rom_page
           t == moving
<1>1. \A b \in Banks, p \in Pages : mem'[b][p] = Landed(b, p)
  BY FinishIs
<1>2. /\ hepax # NoHepax /\ r \in Pages /\ t \in Pages /\ r # t /\ HomePage \in Pages /\ HomePage # NotMoving
      /\ IsHepax(hepax.module) /\ hepax.module \in Modules
  BY WhereThingsAre, PageFacts DEF FinishMove, Basis, ChipPlaces
<1>3. /\ moving' = NotMoving /\ created' = created /\ load' = load /\ modules' = modules
      /\ hepax' = [hepax EXCEPT !.rom_page = moving]
  BY DEF FinishMove, loader
<1>4. /\ hepax'.module = hepax.module /\ hepax'.rom_page = t /\ hepax' # NoHepax /\ HomePage' = HomePage
  <2>1. hepax \in HepaxRecords
    BY DEF Basis
  <2>2. /\ hepax'.module = hepax.module /\ hepax'.port = hepax.port /\ hepax'.rom_page = moving
    BY <1>3, <2>1 DEF HepaxRecords
  <2>3. hepax'.module # Nobody
    BY <1>2, <2>2, PlugInAssumption
  <2> QED BY <2>2, <2>3 DEF NoHepax, HomePage
<1>5. \A b \in RomBanks : ~There(mem, b, t)
  BY <1>2, PageFacts DEF Ordered, HomeIsFree
<1>6. 0 \in RomBanks /\ 0 \in Banks /\ HIDDEN_BANK \in Banks /\ HIDDEN_BANK # 0 /\ HIDDEN_BANK \notin RomBanks
      /\ RomBanks \subseteq Banks /\ \A b \in Banks : b \in RomBanks \/ b = HIDDEN_BANK
  BY BankFacts
<1>7. /\ \A b \in Banks, p \in Pages : p # r /\ p # t => mem'[b][p] = mem[b][p]
      /\ \A b \in RomBanks : mem'[b][t] = mem[b][r]
      /\ mem'[HIDDEN_BANK][t] = mem[HIDDEN_BANK][t]
      /\ \A b \in Banks \ {0} : mem'[b][r] = NoPage
      /\ mem'[0][r] = mem[HIDDEN_BANK][r]
  <2>1. \A b \in Banks, p \in Pages : p # r /\ p # t => mem'[b][p] = mem[b][p]
    BY <1>1 DEF Landed
  <2>2. \A b \in RomBanks : mem'[b][t] = mem[b][r]
    BY <1>1, <1>2, <1>5, <1>6 DEF Landed
  <2>3. mem'[HIDDEN_BANK][t] = mem[HIDDEN_BANK][t]
    BY <1>1, <1>2, <1>6 DEF Landed
  <2>4. \A b \in Banks \ {0} : mem'[b][r] = NoPage
    BY <1>1, <1>2, <1>5, <1>6 DEF Landed
  <2>5. mem'[0][r] = mem[HIDDEN_BANK][r]
    BY <1>1, <1>2, <1>5, <1>6 DEF Landed
  <2> QED BY <2>1, <2>2, <2>3, <2>4, <2>5
<1>8. \A b \in RomBanks : IsAt(mem, b, r, Image(hepax.module, b + 1))
  BY <1>2 DEF Ordered, RomIsThere
<1>9. ~(Loading /\ IsHepax(load.module))
  BY <1>2 DEF Ordered, RomIsThere
<1> HIDE DEF r, t, HomePage
<1>10. InPlace'
  <2> SUFFICES ASSUME NEW b \in Banks, NEW p \in Pages, NEW image \in created, IsAt(mem', b, p, image),
                      ~IsRom(image), NEW port \in Ports, Owns(port, image[1])
               PROVE  LET at == FilePage(image[1], image[2]).at IN InPort(port, p, at) /\ Half(at) \in {"any", Half(p)}
    BY <1>3, <1>4 DEF InPlace, Owns, Loading
  <2>1. \E b0 \in Banks : mem'[b][p] = mem[b0][p]
    <3>1. CASE p # r /\ p # t
      BY <1>7, <3>1
    <3>2. CASE p = r
      BY <1>6, <1>7, <3>2 DEF IsAt, There
    <3>3. CASE p = t /\ b = HIDDEN_BANK
      BY <1>6, <1>7, <3>3
    <3>4. CASE p = t /\ b \in RomBanks
      <4>1. image = Image(hepax.module, b + 1)
        BY <1>7, <1>8, <3>4 DEF IsAt
      <4>2. b \in Nat /\ b + 1 < MAX_BANK
        BY <3>4, PlugInAssumption DEF RomBanks
      <4>3. IsRom(image)
        BY <1>2, <4>1, <4>2 DEF IsRom, Image
      <4> QED BY <4>3
    <3> QED BY <1>6, <3>1, <3>2, <3>3, <3>4
  <2>2. PICK b0 \in Banks : mem'[b][p] = mem[b0][p]
    BY <2>1
  <2>3. IsAt(mem, b0, p, image)
    BY <2>2 DEF IsAt, There
  <2> QED BY <2>3 DEF Ordered, InPlace
<1>11. RomIsThere'
  <2>1. \A b \in RomBanks : IsAt(mem', b, t, Image(hepax.module, b + 1))
    BY <1>7, <1>8 DEF IsAt, There
  <2> QED BY <1>3, <1>4, <1>9, <2>1 DEF RomIsThere, Loading
<1>12. HomeIsFree'
  <2>1. ASSUME t # HomePage
        PROVE  (\A b \in RomBanks \ {0} : ~There(mem', b, HomePage)) /\ ~There(mem', HIDDEN_BANK, HomePage)
    <3>1. CASE HomePage = r
      BY <1>6, <1>7, <3>1 DEF There
    <3>2. CASE HomePage # r
      <4>1. (\A b \in RomBanks \ {0} : ~There(mem, b, HomePage)) /\ ~There(mem, HIDDEN_BANK, HomePage)
        BY <1>2, <2>1, <3>2 DEF Ordered, HomeIsFree, r, t
      <4> QED BY <1>2, <1>6, <1>7, <2>1, <3>2, <4>1 DEF There
    <3> QED BY <3>1, <3>2
  <2> QED BY <1>3, <1>4, <2>1 DEF HomeIsFree
<1>13. RamIsHidden'
  <2>1. ASSUME NEW p \in Pages, There(mem', HIDDEN_BANK, p)
        PROVE  LeftOver(p)' \/ p = t
    <3>1. CASE p = r
      BY <1>6, <1>7, <2>1, <3>1 DEF There
    <3>2. CASE p # r /\ p # t
      <4>1. There(mem, HIDDEN_BANK, p) /\ mem'[0][p] = mem[0][p]
        BY <1>6, <1>7, <2>1, <3>2 DEF There
      <4>2. LeftOver(p)
        BY <3>2, <4>1 DEF Ordered, RamIsHidden, r, t
      <4> QED BY <1>3, <4>1, <4>2 DEF LeftOver, PageExists
    <3> QED BY <3>1, <3>2
  <2>2. ASSUME Loading, NEW p \in Pages, There(mem', HIDDEN_BANK, p), There(mem', 0, p), mem'[0][p].image[1] = load.module
        PROVE  IsHepax(load.module) /\ p = Home(load.port)
    <3>1. CASE p = r
      BY <1>6, <1>7, <2>2, <3>1 DEF There
    <3>2. CASE p = t
      <4>1. IsAt(mem, 0, r, Image(hepax.module, 1)) /\ mem'[0][t] = mem[0][r]
        <5>1. 0 + 1 = 1
          OBVIOUS
        <5> QED BY <1>6, <1>7, <1>8, <5>1
      <4>2. load.module = hepax.module
        BY <2>2, <3>2, <4>1 DEF IsAt, Image
      <4> QED BY <1>2, <1>9, <2>2, <4>2
    <3>3. CASE p # r /\ p # t
      <4>1. There(mem, HIDDEN_BANK, p) /\ There(mem, 0, p) /\ mem[0][p].image[1] = load.module
        BY <1>6, <1>7, <2>2, <3>3 DEF There
      <4> QED BY <2>2, <4>1 DEF Ordered, RamIsHidden
    <3> QED BY <3>1, <3>2, <3>3
  <2> QED BY <1>3, <1>4, <2>1, <2>2 DEF RamIsHidden, Loading
<1> QED BY <1>10, <1>11, <1>12, <1>13 DEF Ordered

-----------------------------------------------------------------------------
(* A page that is there is changed                                         *)
LEMMA EditIs ==
  ASSUME Memory(mem), NEW b0 \in Banks, NEW p0 \in Pages, NEW x \in PageType, x.write_enable => x.ram,
         mem' = [mem EXCEPT ![b0][p0] = x]
  PROVE  /\ Memory(mem') /\ mem'[b0][p0] = x
         /\ \A b \in Banks, p \in Pages : b # b0 \/ p # p0 => mem'[b][p] = mem[b][p]
         /\ \A b \in Banks, p \in Pages : There(mem', b, p) <=> (There(mem, b, p) \/ (b = b0 /\ p = p0))
<1> DEFINE V == PageType \cup {NoPage}
<1>1. mem \in [Banks -> [Pages -> V]] /\ x \in V
  BY DEF Memory
<1> HIDE DEF V
<1>2. mem' \in [Banks -> [Pages -> V]]
  BY <1>1
<1>3. mem'[b0][p0] = x /\ \A b \in Banks, p \in Pages : b # b0 \/ p # p0 => mem'[b][p] = mem[b][p]
  BY <1>1
<1>4. x # NoPage
  BY NoPageAssumption
<1>5. \A b \in Banks, p \in Pages : There(mem', b, p) <=> (There(mem, b, p) \/ (b = b0 /\ p = p0))
  BY <1>3, <1>4 DEF There
<1>6. \A b \in Banks, p \in Pages : There(mem', b, p) => (mem'[b][p].write_enable => mem'[b][p].ram)
  <2> SUFFICES ASSUME NEW b \in Banks, NEW p \in Pages, There(mem', b, p)
               PROVE  mem'[b][p].write_enable => mem'[b][p].ram
    OBVIOUS
  <2>1. CASE b = b0 /\ p = p0
    BY <1>3, <2>1
  <2>2. CASE b # b0 \/ p # p0
    BY <1>3, <1>5, <2>2 DEF Memory
  <2> QED BY <2>1, <2>2
<1> QED BY <1>2, <1>3, <1>5, <1>6 DEF Memory, V

LEMMA EditKeeps ==
  ASSUME Basis, NEW b0 \in Banks, NEW p0 \in Pages, There(mem, b0, p0), NEW x \in PageType, x.write_enable => x.ram,
         mem' = [mem EXCEPT ![b0][p0] = x], PageKept(mem[b0][p0], x),
         UNCHANGED <<hepax, moving, modules, load, created, upset>>
  PROVE  /\ Memory(mem') /\ ChipPlaces' /\ Fits(mem', created)
         /\ PagesAreGood => PagesAreGood'
         /\ LoadStays => LoadStays'
         /\ Ordered => Ordered'
<1>1. /\ Memory(mem') /\ mem'[b0][p0] = x
      /\ \A b \in Banks, p \in Pages : b # b0 \/ p # p0 => mem'[b][p] = mem[b][p]
      /\ \A b \in Banks, p \in Pages : There(mem', b, p) <=> (There(mem, b, p) \/ (b = b0 /\ p = p0))
  BY EditIs DEF Basis
<1>2. \A b \in Banks, p \in Pages : There(mem', b, p) <=> There(mem, b, p)
  BY <1>1
<1>3. ASSUME NEW b \in Banks, NEW p \in Pages PROVE PageKept(mem[b][p], mem'[b][p])
  <2>1. CASE b = b0 /\ p = p0
    BY <1>1, <2>1
  <2>2. CASE b # b0 \/ p # p0
    BY <1>1, <2>2, SameIsKept
  <2> QED BY <2>1, <2>2
<1>4. SameImages(mem, mem')
  BY <1>2, <1>3 DEF SameImages, PageKept
<1>5. Fits(mem', created)
  BY <1>4, SameFits DEF Basis
<1>6. ChipPlaces'
  <2>1. hepax # NoHepax /\ (hepax.rom_page # HomePage \/ moving # NotMoving) =>
          \A b \in RomBanks : There(mem', b, hepax.rom_page)
    BY <1>2, BankFacts, WhereThingsAre DEF Basis, ChipPlaces
  <2> QED BY <2>1 DEF Basis, ChipPlaces, HomePage
<1>7. ASSUME PagesAreGood PROVE PagesAreGood'
  <2>1. ASSUME NEW b \in Banks, NEW p \in Pages, There(mem', b, p)
        PROVE  /\ mem'[b][p].image \in created'
               /\ Complete(modules', load', mem'[b][p].image) => WasGood(mem'[b][p])
    <3>1. There(mem, b, p) /\ PageKept(mem[b][p], mem'[b][p])
      BY <1>2, <1>3, <2>1
    <3>2. mem'[b][p].image \in created
      BY <1>7, <3>1 DEF PagesAreGood, PageKept
    <3> QED BY <3>1, <3>2 DEF WasGood
  <2> QED BY <1>7, <2>1, GoodKept
<1>8. ASSUME LoadStays PROVE LoadStays'
  <2>1. ASSUME Filling
        PROVE  /\ There(mem', load.bank, load.page) /\ PageKept(mem[load.bank][load.page], mem'[load.bank][load.page])
               /\ load.bank = HIDDEN_BANK => There(mem', 0, load.page)
               /\ load.page # moving'
               /\ load.bank # HIDDEN_BANK /\ hepax' # NoHepax => load.page # hepax'.rom_page
    <3>1. load.bank \in Banks /\ load.page \in Pages
      BY <2>1 DEF Basis, LoadIs, Placing, Filling
    <3>2. There(mem, load.bank, load.page) /\ (load.bank = HIDDEN_BANK => There(mem, 0, load.page))
      BY <1>8, <2>1 DEF LoadStays, IsAt
    <3> QED BY <1>2, <1>3, <1>8, <2>1, <3>1, <3>2, BankFacts DEF LoadStays
  <2> QED BY <1>8, <2>1, LoadPageKept DEF Basis
<1>9. ASSUME Ordered PROVE Ordered'
  <2>1. SameLoad
    BY DEF SameLoad, Loading
  <2> QED BY <1>4, <1>9, <2>1, OrderKept DEF Basis
<1> QED BY <1>1, <1>5, <1>6, <1>7, <1>8, <1>9

-----------------------------------------------------------------------------
(* The steps of the simulator's thread                                     *)
LEMMA LoadIsKept ==
  ASSUME LoadIs, CreatedIs, UNCHANGED <<load, modules, created>>
  PROVE  LoadIs' /\ CreatedIs'
BY DEF LoadIs, CreatedIs, Loading, Placing, Filling, Here

LEMMA WptogKeeps ==
  ASSUME MInv, NEW d \in Pages, Wptog(d)
  PROVE  MInv'
<1>0. MInv /\ Basis /\ Always
  BY BasisIs DEF MInv
<1>1. PICK b \in RamOf(d) : mem' = [mem EXCEPT ![b][d].write_enable = ~@]
  BY DEF Wptog
<1>2. b \in Banks /\ There(mem, b, d) /\ mem[b][d].ram
  BY <1>1, BankFacts DEF RamOf, There
<1> DEFINE old == mem[b][d]
           x == [old EXCEPT !.write_enable = ~@]
<1>3. old \in PageType
  BY <1>0, <1>2 DEF Basis, Memory, There
<1>4. mem' = [mem EXCEPT ![b][d] = x]
  BY <1>1
<1>5. old.ram
  BY <1>2
<1> HIDE DEF old
<1>6. x \in PageType /\ x.ram /\ PageKept(old, x)
  BY <1>3, <1>5 DEF PageType, PageKept
<1> HIDE DEF x
<1>7. UNCHANGED <<hepax, moving, modules, load, created, upset, active_bank, bank_group, awake, deep, last_group>>
  BY DEF Wptog, chip, cpu, loader, history
<1>8. /\ Memory(mem') /\ ChipPlaces' /\ Fits(mem', created)
      /\ PagesAreGood => PagesAreGood'
      /\ LoadStays => LoadStays'
      /\ Ordered => Ordered'
  BY <1>0, <1>2, <1>4, <1>6, <1>7, EditKeeps DEF old
<1>9. LoadIs' /\ CreatedIs' /\ DeepIs'
  BY <1>0, <1>7, LoadIsKept DEF Always, DeepIs, HomePage
<1>10. Types'
  BY <1>0, <1>7, <1>8 DEF Always, Types
<1> QED BY <1>0, <1>7, <1>8, <1>9, <1>10 DEF MInv, Always

LEMMA WriteKeeps ==
  ASSUME MInv, NEW p \in Pages, NEW k \in Words, nut_set_ucode(p, k)
  PROVE  MInv'
<1>0. MInv /\ Basis /\ Always
  BY BasisIs DEF MInv
<1> DEFINE b == active_bank[p]
           old == mem[b][p]
           x == [old EXCEPT !.word[k] = Program]
<1>1. /\ old # NoPage /\ old.ram
      /\ mem' = [mem EXCEPT ![b][p].word[k] = Program]
  BY DEF nut_set_ucode
<1>2. b \in Banks
  BY <1>0, BankFacts DEF Always, Types
<1> HIDE DEF b
<1>3. mem' = [mem EXCEPT ![b][p] = x]
  BY <1>1
<1>4. old \in PageType /\ There(mem, b, p) /\ (old.write_enable => old.ram)
  BY <1>0, <1>1, <1>2 DEF Basis, Memory, There
<1> HIDE DEF old
<1>5. x \in PageType /\ x.ram = old.ram /\ PageKept(old, x)
  <2>1. old.word \in [Words -> Images \cup {Zero, Program}] /\ Program \in Images \cup {Zero, Program}
    BY <1>4 DEF PageType
  <2>2. x \in PageType /\ x.ram = old.ram /\ x.image = old.image
    BY <1>4, <2>1 DEF PageType
  <2>3. \A j \in Words : x.word[j] = IF j = k THEN Program ELSE old.word[j]
    BY <1>4, <2>1 DEF PageType
  <2> HIDE DEF x
  <2> QED BY <1>1, <2>2, <2>3 DEF PageKept
<1>6. UNCHANGED <<hepax, moving, modules, load, created, upset, active_bank, bank_group, awake, deep, last_group>>
  BY DEF nut_set_ucode, chip, cpu, loader, history
<1> HIDE DEF x
<1>7. x.write_enable => x.ram
  BY <1>1, <1>5
<1>8. /\ Memory(mem') /\ ChipPlaces' /\ Fits(mem', created)
      /\ PagesAreGood => PagesAreGood'
      /\ LoadStays => LoadStays'
      /\ Ordered => Ordered'
  BY <1>0, <1>2, <1>3, <1>4, <1>5, <1>6, <1>7, EditKeeps DEF old
<1>9. LoadIs' /\ CreatedIs' /\ DeepIs'
  BY <1>0, <1>6, LoadIsKept DEF Always, DeepIs, HomePage
<1>10. Types'
  BY <1>0, <1>6, <1>8 DEF Always, Types
<1> QED BY <1>0, <1>6, <1>8, <1>9, <1>10 DEF MInv, Always

(* A step that begins a move, or none *)
LEMMA MoveStartedKeeps ==
  ASSUME MInv, moving = NotMoving, StillThere, UNCHANGED <<bank_group, last_group>>,
         active_bank' \in [Pages -> RomBanks], awake' \in BOOLEAN, deep' \in BOOLEAN, DeepIs',
         \/ UNCHANGED <<mem, moving>>
         \/ hepax_reset
         \/ hepax # NoHepax /\ \E to \in Pages : hepax_move_rom_to_page(to)
  PROVE  MInv'
<1>0. MInv /\ Basis /\ Always
  BY BasisIs DEF MInv
<1>1. /\ Memory(mem') /\ ChipPlaces' /\ Fits(mem', created)
      /\ PagesAreGood => PagesAreGood'
      /\ LoadStays => LoadStays'
      /\ Ordered => Ordered'
      /\ moving' \in Pages \cup {NotMoving}
  <2>1. CASE hepax_reset
    BY <1>0, <2>1, ResetKeeps
  <2>2. CASE hepax # NoHepax /\ \E to \in Pages : hepax_move_rom_to_page(to)
    BY <1>0, <2>2, StartKeeps
  <2>3. CASE UNCHANGED <<mem, moving>>
    <3>1. Memory(mem') /\ ChipPlaces' /\ Fits(mem', created)
      BY <1>0, <2>3 DEF Basis, ChipPlaces, StillThere, HomePage
    <3>2. ASSUME PagesAreGood PROVE PagesAreGood'
      BY <2>3, <3>2, GoodMoved DEF StillThere
    <3>3. ASSUME LoadStays PROVE LoadStays'
      BY <2>3, <3>3 DEF LoadStays, StillThere, Filling, Here
    <3>4. SameImages(mem, mem') /\ SameLoad
      BY <2>3 DEF SameImages, SameLoad, StillThere, Loading
    <3>5. ASSUME Ordered PROVE Ordered'
      BY <1>0, <2>3, <3>4, <3>5, OrderKept DEF StillThere, Basis
    <3> QED BY <2>3, <3>1, <3>2, <3>3, <3>5
  <2> QED BY <2>1, <2>2, <2>3
<1>2. UNCHANGED <<hepax, modules, load, created, upset>>
  BY DEF StillThere
<1>3. LoadIs' /\ CreatedIs'
  BY <1>0, <1>2, LoadIsKept DEF Always
<1>4. Types'
  BY <1>0, <1>1, <1>2 DEF Always, Types
<1> QED BY <1>0, <1>1, <1>2, <1>3, <1>4 DEF MInv, Always

LEMMA RomblkKeeps ==
  ASSUME MInv, NEW d \in Pages, Romblk(d)
  PROVE  MInv'
<1>1. moving = NotMoving /\ awake /\ hepax # NoHepax /\ hepax_move_rom_to_page(d)
  BY DEF Romblk, Runs
<1>2. StillThere /\ UNCHANGED <<bank_group, last_group, active_bank, awake, deep>>
  BY DEF Romblk, cpu, loader, history, StillThere
<1>3. ~deep
  BY <1>1 DEF MInv, Always, DeepIs
<1>4. DeepIs'
  BY <1>2, <1>3 DEF DeepIs
<1>5. active_bank' \in [Pages -> RomBanks] /\ awake' \in BOOLEAN /\ deep' \in BOOLEAN
  BY <1>2 DEF MInv, Always, Types
<1> QED BY <1>1, <1>2, <1>4, <1>5, MoveStartedKeeps

LEMMA SleepKeeps ==
  ASSUME MInv, NEW display_off \in BOOLEAN, Sleep(display_off)
  PROVE  MInv'
<1>1. /\ moving = NotMoving /\ awake' = FALSE /\ deep' = display_off /\ active_bank' = [p \in Pages |-> 0]
      /\ IF display_off THEN hepax_reset ELSE UNCHANGED <<mem, moving>>
  BY DEF Sleep, Runs
<1>2. StillThere /\ UNCHANGED <<bank_group, last_group>>
  BY DEF Sleep, loader, history, StillThere
<1>3. active_bank' \in [Pages -> RomBanks]
  BY <1>1, BankFacts
<1>4. Basis
  BY BasisIs DEF MInv
<1>5. DeepIs'
  <2>1. CASE display_off
    <3>1. hepax # NoHepax => IF moving' = NotMoving THEN hepax.rom_page = HomePage ELSE moving' = HomePage
      BY <1>1, <1>2, <1>4, <2>1, ResetKeeps
    <3> QED BY <1>1, <1>2, <3>1 DEF DeepIs, StillThere, HomePage
  <2>2. CASE ~display_off
    BY <1>1, <2>2 DEF DeepIs
  <2> QED BY <2>1, <2>2
<1> QED BY <1>1, <1>2, <1>3, <1>5, MoveStartedKeeps

LEMMA WakeKeeps ==
  ASSUME MInv, Wake
  PROVE  MInv'
<1>1. /\ moving = NotMoving /\ awake' = TRUE /\ deep' = FALSE
      /\ IF deep THEN hepax_reset ELSE UNCHANGED <<mem, moving>>
  BY DEF Wake
<1>2. StillThere /\ UNCHANGED <<bank_group, last_group, active_bank>>
  BY DEF Wake, loader, history, StillThere
<1>3. active_bank' \in [Pages -> RomBanks]
  BY <1>2 DEF MInv, Always, Types
<1>4. DeepIs'
  BY <1>1 DEF DeepIs
<1> QED BY <1>1, <1>2, <1>3, <1>4, MoveStartedKeeps

LEMMA ResetIsKept ==
  ASSUME MInv, Reset
  PROVE  MInv'
<1>1. moving = NotMoving /\ awake' = TRUE /\ deep' = FALSE /\ hepax_reset /\ active_bank' = [p \in Pages |-> 0]
  BY DEF Reset
<1>2. StillThere /\ UNCHANGED <<bank_group, last_group>>
  BY DEF Reset, loader, history, StillThere
<1>3. active_bank' \in [Pages -> RomBanks]
  BY <1>1, BankFacts
<1>4. DeepIs'
  BY <1>1 DEF DeepIs
<1> QED BY <1>1, <1>2, <1>3, <1>4, MoveStartedKeeps

LEMMA EnbankKeeps ==
  ASSUME MInv, NEW p \in Pages, NEW new_bank \in RomBanks, Enbank(p, new_bank)
  PROVE  MInv'
<1>1. moving = NotMoving
  BY DEF Enbank, Runs
<1>2. StillThere /\ UNCHANGED <<mem, moving, bank_group, last_group, awake, deep>>
  BY DEF Enbank, chip, cpu, loader, history, StillThere
<1>3. active_bank \in [Pages -> RomBanks]
  BY DEF MInv, Always, Types
<1>4. active_bank' \in [Pages -> RomBanks]
  BY <1>3 DEF Enbank
<1>5. DeepIs' /\ awake' \in BOOLEAN /\ deep' \in BOOLEAN
  BY <1>2 DEF MInv, Always, Types, DeepIs, StillThere, HomePage
<1> QED BY <1>1, <1>2, <1>4, <1>5, MoveStartedKeeps

LEMMA FinishMoveKeeps ==
  ASSUME MInv, FinishMove
  PROVE  MInv'
<1>0. MInv /\ Basis /\ Always
  BY BasisIs DEF MInv
<1>1. /\ Memory(mem') /\ ChipPlaces' /\ Fits(mem', created')
      /\ PagesAreGood => PagesAreGood'
      /\ LoadStays /\ "load" \notin upset' => LoadStays'
  BY <1>0, FinishKeeps
<1>2. /\ moving' = NotMoving /\ UNCHANGED <<modules, load, created, active_bank, bank_group, awake, deep, last_group>>
      /\ hepax' = [hepax EXCEPT !.rom_page = moving]
      /\ upset \subseteq upset' /\ upset' \subseteq upset \cup {"load"}
  BY DEF FinishMove, cpu, loader
<1>3. LoadIs' /\ CreatedIs'
  BY <1>0, <1>2, LoadIsKept DEF Always
<1>4. moving # NotMoving /\ hepax # NoHepax /\ moving \in Pages
  BY <1>0, WhereThingsAre DEF FinishMove, Always
<1>5. hepax' \in HepaxRecords
  BY <1>0, <1>2, <1>4 DEF Basis, HepaxRecords
<1>6. Types'
  BY <1>0, <1>1, <1>2, <1>5 DEF Always, Types
<1>7. DeepIs'
  <2>1. hepax'.rom_page = moving /\ hepax'.port = hepax.port
    BY <1>0, <1>2 DEF Basis, HepaxRecords
  <2>2. deep => ~awake /\ moving = HomePage
    BY <1>0, <1>4 DEF Always, DeepIs
  <2> QED BY <1>2, <2>1, <2>2 DEF DeepIs, HomePage
<1>8. "load" \notin upset' => PagesAreGood' /\ LoadStays'
  BY <1>0, <1>1, <1>2 DEF MInv
<1>9. ASSUME upset' = {} PROVE Ordered'
  <2>1. upset = {}
    BY <1>2, <1>9
  <2>2. Ordered
    BY <1>0, <2>1 DEF MInv
  <2> QED BY <1>0, <2>2, FinishOrder
<1> QED BY <1>1, <1>3, <1>6, <1>7, <1>8, <1>9 DEF MInv, Always

-----------------------------------------------------------------------------
(* The steps of the GUI thread: the state file is read                     *)
LEMMA RestoreKeeps ==
  ASSUME MInv, NEW p \in Pages, Restore(p)
  PROVE  MInv'
<1>0. MInv /\ Basis /\ Always
  BY BasisIs DEF MInv
<1> DEFINE home == HomePage
           fits == \A b \in RomBanks : mem[b][home] # NoPage /\ mem[b][p] = NoPage
<1>1. /\ hepax # NoHepax /\ moving = NotMoving /\ load.step = "idle"
      /\ hepax' = [hepax EXCEPT !.rom_page = home]
      /\ moving' = IF p # home /\ fits THEN p ELSE NotMoving
      /\ upset' = IF hepax.rom_page = home THEN upset ELSE upset \cup {"restore"}
      /\ awake' \in BOOLEAN /\ deep' = FALSE
  BY DEF Restore, HomePage, At
<1>2. UNCHANGED <<mem, active_bank, bank_group, modules, load, last_group, created>>
  BY DEF Restore, map, loader
<1>3. home \in Pages /\ hepax.port \in Ports /\ hepax.module \in Modules /\ p # NotMoving
  BY <1>0, <1>1, WhereThingsAre, PageFacts DEF Basis, ChipPlaces
<1>4. hepax' \in HepaxRecords /\ hepax'.rom_page = home /\ hepax'.module = hepax.module /\ hepax'.port = hepax.port
  BY <1>0, <1>1, <1>3 DEF Basis, HepaxRecords
<1>5. hepax' # NoHepax /\ HomePage' = home
  BY <1>3, <1>4, PlugInAssumption DEF NoHepax, HomePage
<1> HIDE DEF home
<1>6. LoadIs' /\ CreatedIs'
  BY <1>0, <1>2, LoadIsKept DEF Always
<1>7. moving' # NotMoving => moving' = p /\ p # home /\ \A b \in RomBanks : There(mem, b, home) /\ ~There(mem, b, p)
  BY <1>1 DEF There
<1>8. Memory(mem') /\ Fits(mem', created')
  BY <1>0, <1>2 DEF Basis
<1>9. ChipPlaces'
  <2>1. hepax.module \in Modules /\ IsHepax(hepax.module) /\ modules[hepax.port] = hepax.module
    BY <1>0, <1>1 DEF Basis, ChipPlaces
  <2>2. hepax'.module \in Modules /\ IsHepax(hepax'.module) /\ modules'[hepax'.port] = hepax'.module /\ hepax'.port \in Ports
    BY <1>2, <1>3, <1>4, <2>1
  <2> QED BY <1>2, <1>3, <1>4, <1>5, <1>7, <2>2 DEF ChipPlaces
<1>10. DeepIs' /\ moving' \in Pages \cup {NotMoving} /\ upset' \subseteq upset \cup {"restore"}
  BY <1>1 DEF DeepIs
<1>11. Types'
  BY <1>0, <1>1, <1>2, <1>4, <1>8, <1>10 DEF Always, Types
<1>12. ASSUME "load" \notin upset' PROVE PagesAreGood' /\ LoadStays'
  <2>1. "load" \notin upset
    BY <1>1, <1>12
  <2>2. PagesAreGood
    BY <1>0, <2>1 DEF MInv
  <2>3. PagesAreGood'
    BY <1>2, <2>2, GoodMoved
  <2>4. ~Filling'
    BY <1>1, <1>2 DEF Filling
  <2> QED BY <2>3, <2>4 DEF LoadStays
<1>13. ASSUME upset' = {} PROVE Ordered'
  <2>1. upset = {} /\ hepax.rom_page = home
    BY <1>1, <1>13
  <2>2. Ordered
    BY <1>0, <2>1 DEF MInv
  <2>3. hepax' = hepax
    BY <1>0, <1>1, <2>1 DEF Basis, HepaxRecords
  <2>4. InPlace'
    BY <1>2, <2>2, <2>3 DEF Ordered, InPlace, Owns, Loading
  <2>5. RomIsThere'
    BY <1>2, <2>2, <2>3 DEF Ordered, RomIsThere, Loading
  <2>6. HomeIsFree'
    BY <1>2, <1>4, <1>5, <1>7 DEF HomeIsFree
  <2>7. RamIsHidden'
    <3>1. \A q \in Pages : q # moving
      BY <1>1, PageFacts
    <3>2. \A q \in Pages : LeftOver(q)' <=> LeftOver(q)
      BY <1>2 DEF LeftOver, PageExists
    <3>3. \A q \in Pages : There(mem, HIDDEN_BANK, q) => LeftOver(q)' \/ (hepax # NoHepax /\ q \in {hepax.rom_page, moving'})
      BY <2>2, <3>1, <3>2 DEF Ordered, RamIsHidden
    <3> QED BY <1>2, <2>2, <2>3, <3>3 DEF Ordered, RamIsHidden, Loading
  <2> QED BY <2>4, <2>5, <2>6, <2>7 DEF Ordered
<1> QED BY <1>6, <1>8, <1>9, <1>10, <1>11, <1>12, <1>13 DEF MInv, Always

-----------------------------------------------------------------------------
(* A load begins, fails or gives a page its place: the memory is as it was *)
LEMMA LoadTurns ==
  ASSUME MInv, UNCHANGED <<mem, active_bank, bank_group, hepax, moving, awake, deep, modules, last_group, created, upset>>,
         LoadIs', CreatedIs', load'.step \in {"idle", "read", "create"},
         \A image \in created : Complete(modules', load', image) => Complete(modules, load, image),
         Ordered => InPlace' /\ (Loading' /\ IsHepax(load'.module) => RomIsThere')
                    /\ (Loading' =>
                          \/ load'.module = load.module /\ load'.port = load.port /\ Loading
                          \/ \A b \in Banks, p \in Pages : There(mem, b, p) => mem[b][p].image[1] # load'.module)
  PROVE  MInv'
<1>0. MInv /\ Basis /\ Always
  BY BasisIs DEF MInv
<1>1. HomePage' = HomePage
  BY DEF HomePage
<1>2. Types' /\ ChipPlaces' /\ DeepIs' /\ Fits(mem', created')
  BY <1>0, <1>1 DEF Always, Types, ChipPlaces, DeepIs
<1>3. ASSUME "load" \notin upset' PROVE PagesAreGood' /\ LoadStays'
  <2>1. PagesAreGood
    BY <1>0, <1>3 DEF MInv
  <2>2. PagesAreGood'
    BY <2>1, GoodMoved
  <2>3. ~Filling'
    BY DEF Filling
  <2> QED BY <2>2, <2>3 DEF LoadStays
<1>4. ASSUME upset' = {} PROVE Ordered'
  <2>1. Ordered
    BY <1>0, <1>4 DEF MInv
  <2>2. InPlace'
    BY <2>1
  <2>3. RomIsThere'
    <3>1. CASE Loading' /\ IsHepax(load'.module)
      BY <2>1, <3>1
    <3>2. CASE ~(Loading' /\ IsHepax(load'.module))
      BY <2>1, <3>2 DEF Ordered, RomIsThere
    <3> QED BY <3>1, <3>2
  <2>4. HomeIsFree'
    BY <1>1, <2>1 DEF Ordered, HomeIsFree
  <2>5. RamIsHidden'
    <3>1. \A p \in Pages : LeftOver(p)' <=> LeftOver(p)
      BY DEF LeftOver, PageExists
    <3>2. ASSUME Loading', NEW p \in Pages, There(mem, HIDDEN_BANK, p), There(mem, 0, p), mem[0][p].image[1] = load'.module
          PROVE  IsHepax(load'.module) /\ p = Home(load'.port)
      <4>1. load'.module = load.module /\ load'.port = load.port /\ Loading
        BY <2>1, <3>2, BankFacts
      <4> QED BY <2>1, <3>2, <4>1 DEF Ordered, RamIsHidden
    <3> QED BY <2>1, <3>1, <3>2 DEF Ordered, RamIsHidden
  <2> QED BY <2>2, <2>3, <2>4, <2>5 DEF Ordered
<1> QED BY <1>0, <1>2, <1>3, <1>4 DEF MInv, Always

(* a file whose pages are not there *)
Fresh(m) == \A image \in created : image[1] # m

LEMMA StartIsFresh ==
  ASSUME Fits(mem, created), CreatedIs, NEW m \in Modules, \A j \in 1..Len(File[m].page) : Image(m, j) \notin created
  PROVE  /\ Fresh(m)
         /\ \A b \in Banks, p \in Pages : There(mem, b, p) => mem[b][p].image[1] # m
<1>1. ASSUME NEW image \in created, image[1] = m PROVE FALSE
  <2>1. image \in Images /\ image[2] \in PagesOf(m)
    BY <1>1 DEF Fits, CreatedIs
  <2>2. image = Image(m, image[2])
    BY <1>1, <2>1 DEF Images, Image
  <2> QED BY <1>1, <2>1, <2>2 DEF PagesOf
<1>2. Zero[1] # m
  BY PlugInAssumption DEF Zero
<1>3. ASSUME NEW b \in Banks, NEW p \in Pages, There(mem, b, p) PROVE mem[b][p].image[1] # m
  <2>1. mem[b][p].image \in created \cup {Zero}
    BY <1>3 DEF Fits
  <2> QED BY <1>1, <1>2, <2>1
<1> QED BY <1>1, <1>3 DEF Fresh

LEMMA FileFacts ==
  ASSUME NEW m \in Modules
  PROVE  /\ File[m].page \in Seq(FilePages) /\ Len(File[m].page) \in Nat
         /\ \A i \in PagesOf(m) : FilePage(m, i) \in FilePages
         /\ IsHepax(m) => \A b \in RomBanks : /\ b + 1 \in PagesOf(m) /\ b + 1 < MAX_BANK /\ FilePage(m, b + 1).bank = b
                                              /\ ~FilePage(m, b + 1).ram /\ Half(FilePage(m, b + 1).at) = "lower"
<1>1. File[m].page \in Seq(FilePages)
  BY PlugInFileAssumption
<1>2. Len(File[m].page) \in Nat /\ \A i \in 1..Len(File[m].page) : File[m].page[i] \in FilePages
  BY <1>1
<1>3. ASSUME IsHepax(m), NEW b \in RomBanks
      PROVE  /\ b + 1 \in PagesOf(m) /\ b + 1 < MAX_BANK /\ FilePage(m, b + 1).bank = b
             /\ ~FilePage(m, b + 1).ram /\ Half(FilePage(m, b + 1).at) = "lower"
  <2>1. MAX_BANK - 1 <= Len(File[m].page) /\ b \in 0..(MAX_BANK - 2) /\ MAX_BANK \in Nat
    BY <1>3, PlugInFileAssumption, PlugInAssumption DEF RomBanks
  <2>2. b + 1 \in PagesOf(m) /\ b + 1 < MAX_BANK
    BY <1>2, <2>1 DEF PagesOf
  <2>3. FilePage(m, b + 1).bank = b /\ ~FilePage(m, b + 1).ram /\ Half(FilePage(m, b + 1).at) = "lower"
    BY <1>3, PlugInFileAssumption DEF FilePage
  <2> QED BY <2>2, <2>3
<1> QED BY <1>1, <1>2, <1>3 DEF PagesOf, FilePage

LEMMA IdleIs ==
  ASSUME NEW groups \in [1..MAX_BANK_GROUP -> Nat]
  PROVE  Idle(groups) \in [step : Steps, module : Modules \cup {Nobody}, port : Ports \cup {0}, i : Nat \ {0}, bank : Banks,
               page : Pages \cup {8}, k : Words, group : [1..MAX_BANK_GROUP -> Nat]]
BY PlugInAssumption, BankFacts DEF Idle, Steps, Words

LEMMA StartLoadKeeps ==
  ASSUME MInv, NEW m \in Modules, NEW port \in Ports, StartLoad(m, port)
  PROVE  MInv'
<1>0. MInv /\ Basis /\ Always
  BY BasisIs DEF MInv
<1>1. UNCHANGED <<mem, active_bank, bank_group, hepax, moving, awake, deep, modules, last_group, created, upset>>
  BY DEF StartLoad, map, chip, cpu, history
<1>2. /\ Fresh(m)
      /\ \A b \in Banks, p \in Pages : There(mem, b, p) => mem[b][p].image[1] # m
  BY <1>0, StartIsFresh DEF StartLoad, Basis
<1> DEFINE Loads == [step : Steps, module : Modules \cup {Nobody}, port : Ports \cup {0}, i : Nat \ {0}, bank : Banks,
                     page : Pages \cup {8}, k : Words, group : [1..MAX_BANK_GROUP -> Nat]]
<1>3. NoGroups \in [1..MAX_BANK_GROUP -> Nat]
  BY DEF NoGroups
<1>4. /\ load' \in Loads
      /\ load'.step = "read" /\ load'.module = m /\ load'.port = port /\ load'.i = 1
  <2>1. Idle(NoGroups) \in Loads /\ Idle(NoGroups).i = 1
    BY <1>3, IdleIs DEF Idle
  <2>2. load' = [Idle(NoGroups) EXCEPT !.step = "read", !.module = m, !.port = port]
    BY DEF StartLoad, NewGroups
  <2> QED BY <2>1, <2>2 DEF Steps
<1>5. modules[port] = Nobody
  BY DEF StartLoad
<1>6. LoadIs'
  <2>1. ~Placing' /\ modules' = modules
    BY <1>1, <1>4 DEF Placing
  <2> QED BY <1>4, <1>5, <2>1 DEF LoadIs
<1>7. CreatedIs'
  <2>1. ~Filling' /\ \A i \in PagesOf(m) : Image(m, i) \notin created
    BY <1>4 DEF Filling, StartLoad, PagesOf
  <2>2. \A i \in 1..(load'.i - 1) : Image(load'.module, i) \in created
    BY <1>4
  <2>3. load'.i <= Len(File[load'.module].page) + 1
    BY <1>4, FileFacts
  <2> QED BY <1>0, <1>1, <1>4, <2>1, <2>2, <2>3 DEF Basis, CreatedIs
<1>8. ASSUME NEW image \in created, Complete(modules', load', image) PROVE Complete(modules, load, image)
  <2>1. image[1] # m
    BY <1>2 DEF Fresh
  <2> QED BY <1>1, <1>4, <1>8, <2>1 DEF Complete
<1>9. ASSUME Ordered PROVE InPlace'
  <2>1. \A image \in created, q \in Ports : Owns(q, image[1])' => Owns(q, image[1])
    BY <1>1, <1>2, <1>4 DEF Owns, Fresh
  <2> QED BY <1>1, <1>9, <2>1 DEF Ordered, InPlace
<1>10. ASSUME Ordered, IsHepax(m) PROVE RomIsThere'
  <2>1. hepax = NoHepax
    <3>1. SUFFICES ASSUME hepax # NoHepax PROVE FALSE
      OBVIOUS
    <3>2. hepax.module \in Modules /\ IsHepax(hepax.module) /\ hepax.port \in Ports /\ modules[hepax.port] = hepax.module
      BY <1>0, <3>1 DEF Basis, ChipPlaces
    <3>3. hepax.module = m
      BY <1>10, <3>2, PlugInFileAssumption
    <3>4. 0 + 1 \in PagesOf(m)
      BY <1>10, BankFacts, FileFacts
    <3>5. m # Nobody
      BY PlugInAssumption
    <3>6. Image(m, 0 + 1) \in created
      BY <1>0, <3>2, <3>3, <3>4, <3>5 DEF Basis, CreatedIs
    <3>7. Image(m, 0 + 1)[1] = m
      BY DEF Image
    <3> QED BY <1>2, <3>6, <3>7 DEF Fresh
  <2>2. \A b \in RomBanks : Image(m, b + 1) \notin created
    BY <1>2 DEF Fresh, Image
  <2> QED BY <1>1, <1>4, <2>1, <2>2 DEF RomIsThere
<1> HIDE DEF Loads
<1>11. load'.step \in {"idle", "read", "create"}
  BY <1>4
<1>12. Ordered => InPlace' /\ (Loading' /\ IsHepax(load'.module) => RomIsThere')
                    /\ (Loading' =>
                          \/ load'.module = load.module /\ load'.port = load.port /\ Loading
                          \/ \A b \in Banks, p \in Pages : There(mem, b, p) => mem[b][p].image[1] # load'.module)
  BY <1>2, <1>4, <1>9, <1>10
<1> QED BY <1>1, <1>6, <1>7, <1>8, <1>11, <1>12, LoadTurns

LEMMA FailKeeps ==
  ASSUME MInv, Fail, UNCHANGED <<mem, active_bank, bank_group, hepax, moving, awake, deep, modules, last_group, created, upset>>
  PROVE  MInv'
<1>0. MInv /\ Basis /\ Always
  BY BasisIs DEF MInv
<1>1. load' = Idle(load.group) /\ load.group \in [1..MAX_BANK_GROUP -> Nat]
  BY <1>0 DEF Fail, Basis, LoadIs
<1>2. load'.step = "idle" /\ ~Loading' /\ ~Placing'
  BY <1>1 DEF Idle, Loading, Placing
<1>3. LoadIs'
  BY <1>1, <1>2, IdleIs DEF LoadIs
<1>4. CreatedIs'
  BY <1>0, <1>2 DEF Basis, CreatedIs
<1>5. \A image \in created : Complete(modules', load', image) => Complete(modules, load, image)
  BY <1>2 DEF Complete
<1>6. ASSUME Ordered PROVE InPlace'
  <2>1. \A image \in created, q \in Ports : Owns(q, image[1])' => Owns(q, image[1])
    BY <1>2 DEF Owns
  <2> QED BY <1>6, <2>1 DEF Ordered, InPlace
<1>7. Ordered => InPlace' /\ (Loading' /\ IsHepax(load'.module) => RomIsThere')
                    /\ (Loading' =>
                          \/ load'.module = load.module /\ load'.port = load.port /\ Loading
                          \/ \A b \in Banks, p \in Pages : There(mem, b, p) => mem[b][p].image[1] # load'.module)
  BY <1>2, <1>6
<1> QED BY <1>2, <1>3, <1>4, <1>5, <1>7, LoadTurns

(* Where sim_read_mod1_page puts a page *)
PlaceOf(at) ==
  LET first == Home(load.port)
  IN  CASE at = POSITION_ANY  -> IF PageExists(Here.bank, first) THEN first + 1 ELSE first
        [] at = POSITION_EVEN -> first
        [] at = POSITION_ODD  -> first + 1
        [] OTHER              -> at
BankFor(page) == IF Here.bank = 0 /\ Here.ram /\ PageExists(0, page) THEN HIDDEN_BANK ELSE Here.bank
OtherPort(page) == page >= 8 /\ page \notin {Home(load.port), Home(load.port) + 1}

LEMMA PlaceIs ==
  ASSUME LoadIs, Loading, NEW at \in Pages \cup {POSITION_ANY, POSITION_EVEN, POSITION_ODD}, ~OtherPort(PlaceOf(at))
  PROVE  /\ PlaceOf(at) \in Pages
         /\ PlaceOf(at) \in {Home(load.port), Home(load.port) + 1} \/ (PlaceOf(at) < 8 /\ Half(at) = "system")
         /\ Half(at) = "any" \/ Half(at) = Half(PlaceOf(at))
<1>1. load.port \in Ports
  BY DEF LoadIs
<1> DEFINE first == Home(load.port)
<1>2. first \in Pages /\ first + 1 \in Pages /\ Half(first) = "lower" /\ Half(first + 1) = "upper"
  BY <1>1, PortFacts, HalfOfHome
<1> HIDE DEF first
<1>3. CASE at = POSITION_ANY
  BY <1>2, <1>3 DEF PlaceOf, Half, first
<1>4. CASE at = POSITION_EVEN
  <2>1. PlaceOf(at) = first
    BY <1>4 DEF PlaceOf, first, POSITION_ANY, POSITION_EVEN, POSITION_ODD
  <2>2. Half(at) = "lower"
    BY <1>4 DEF Half, POSITION_ANY, POSITION_EVEN
  <2> QED BY <1>2, <2>1, <2>2 DEF first
<1>5. CASE at = POSITION_ODD
  <2>1. PlaceOf(at) = first + 1
    BY <1>5 DEF PlaceOf, first, POSITION_ANY, POSITION_EVEN, POSITION_ODD
  <2>2. Half(at) = "upper"
    BY <1>5 DEF Half, POSITION_ANY, POSITION_EVEN, POSITION_ODD
  <2> QED BY <1>2, <2>1, <2>2 DEF first
<1>6. CASE at \in Pages
  <2>0. at \in Nat /\ at < 16
    BY <1>6, PageFacts
  <2>1. PlaceOf(at) = at
    BY <2>0 DEF PlaceOf, POSITION_ANY, POSITION_EVEN, POSITION_ODD
  <2>2. at < 8 => Half(at) = "system"
    BY <2>0 DEF Half, POSITION_ANY, POSITION_EVEN, POSITION_ODD
  <2>3. at >= 8 => at \in {first, first + 1}
    BY <2>1 DEF OtherPort, first
  <2> QED BY <1>6, <2>0, <2>1, <2>2, <2>3 DEF first
<1> QED BY <1>3, <1>4, <1>5, <1>6

LEMMA ReadPageIs ==
  ASSUME ReadPage
  PROVE  LET page == PlaceOf(Here.at)
         IN  IF ~Here.valid \/ OtherPort(page) THEN Fail
             ELSE load' = [load EXCEPT !.step = "create", !.page = page, !.bank = BankFor(page), !.k = 1]
BY DEF ReadPage, PlaceOf, BankFor, OtherPort

LEMMA ReadPageKeeps ==
  ASSUME MInv, ReadPage
  PROVE  MInv'
<1>0. MInv /\ Basis /\ Always
  BY BasisIs DEF MInv
<1>1. UNCHANGED <<mem, active_bank, bank_group, hepax, moving, awake, deep, modules, last_group, created, upset>>
  BY DEF ReadPage, map, chip, cpu, history
<1> DEFINE page == PlaceOf(Here.at)
           bank == BankFor(page)
<1>2. Fail \/ (~OtherPort(page) /\ load' = [load EXCEPT !.step = "create", !.page = page, !.bank = bank, !.k = 1])
  BY ReadPageIs
<1>3. CASE Fail
  BY <1>1, <1>3, FailKeeps
<1>4. CASE ~OtherPort(page) /\ load' = [load EXCEPT !.step = "create", !.page = page, !.bank = bank, !.k = 1]
  <2>1. load.step = "read" /\ load.i <= Len(File[load.module].page)
    BY DEF ReadPage, At
  <2>2. load.module \in Modules /\ load.i \in Nat \ {0} /\ Loading /\ load.port \in Ports /\ modules[load.port] = Nobody
    BY <1>0, <2>1 DEF Basis, LoadIs, Loading
  <2>3. load.i \in PagesOf(load.module) /\ Here \in FilePages /\ Here = FilePage(load.module, load.i)
    BY <2>1, <2>2, FileFacts DEF PagesOf, Here, FilePage
  <2>4. Here.at \in Pages \cup {POSITION_ANY, POSITION_EVEN, POSITION_ODD} /\ Here.bank \in RomBanks
    BY <2>3 DEF FilePages
  <2>5. /\ page \in Pages
        /\ page \in {Home(load.port), Home(load.port) + 1} \/ (page < 8 /\ Half(Here.at) = "system")
        /\ Half(Here.at) = "any" \/ Half(Here.at) = Half(page)
    BY <1>0, <1>4, <2>2, <2>4, PlaceIs DEF Basis
  <2>6. bank \in Banks /\ (bank = Here.bank \/ (bank = HIDDEN_BANK /\ Here.bank = 0 /\ Here.ram))
    BY <2>4, BankFacts DEF BankFor
  <2>7. 1 \in Words
    BY PlugInAssumption DEF Words
  <2> HIDE DEF page, bank
  <2> DEFINE Loads == [step : Steps, module : Modules \cup {Nobody}, port : Ports \cup {0}, i : Nat \ {0}, bank : Banks,
                       page : Pages \cup {8}, k : Words, group : [1..MAX_BANK_GROUP -> Nat]]
  <2>8. load \in Loads
    BY <1>0 DEF Basis, LoadIs
  <2>9. load' \in Loads
    <3>1. "create" \in Steps
      BY DEF Steps
    <3>2. load' = [load EXCEPT !.step = "create", !.page = page, !.bank = bank, !.k = 1]
      BY <1>4
    <3> QED BY <2>5, <2>6, <2>7, <2>8, <3>1, <3>2
  <2>10. /\ load'.step = "create" /\ load'.page = page /\ load'.bank = bank /\ load'.k = 1
         /\ load'.module = load.module /\ load'.port = load.port /\ load'.i = load.i
    <3>1. load' = [load EXCEPT !.step = "create", !.page = page, !.bank = bank, !.k = 1]
      BY <1>4
    <3> QED BY <2>8, <3>1
  <2>11. Here' = Here
    BY <2>10 DEF Here
  <2>12. LoadIs'
    BY <1>1, <2>2, <2>3, <2>5, <2>6, <2>9, <2>10, <2>11 DEF LoadIs
  <2> HIDE DEF Loads
  <2>13. CreatedIs'
    <3>1. ~Filling /\ ~Filling' /\ Loading
      BY <2>1, <2>10 DEF Filling, Loading
    <3> QED BY <1>0, <1>1, <2>10, <3>1 DEF Basis, CreatedIs
  <2>14. \A image \in created : Complete(modules', load', image) => Complete(modules, load, image)
    BY <1>1, <2>1, <2>10 DEF Complete
  <2>15. ASSUME Ordered PROVE InPlace' /\ RomIsThere'
    <3>1. Loading' /\ Loading
      BY <2>1, <2>10 DEF Loading
    <3>2. InPlace'
      BY <1>1, <2>10, <2>15, <3>1 DEF Ordered, InPlace, Owns
    <3>3. RomIsThere'
      BY <1>1, <2>10, <2>15, <3>1 DEF Ordered, RomIsThere
    <3> QED BY <3>2, <3>3
  <2>16. Ordered => InPlace' /\ (Loading' /\ IsHepax(load'.module) => RomIsThere')
                      /\ (Loading' =>
                            \/ load'.module = load.module /\ load'.port = load.port /\ Loading
                            \/ \A b \in Banks, p \in Pages : There(mem, b, p) => mem[b][p].image[1] # load'.module)
    BY <2>2, <2>10, <2>15
  <2> QED BY <1>1, <2>10, <2>12, <2>13, <2>14, <2>16, LoadTurns
<1> QED BY <1>2, <1>3, <1>4

-----------------------------------------------------------------------------
(* A page is loaded                                                        *)
StillLoading ==
  /\ UNCHANGED <<active_bank, hepax, moving, awake, deep, modules, created, upset>>
  /\ Loading /\ Loading' /\ load'.module = load.module /\ load'.port = load.port

LEMMA LoadGoesOn ==
  ASSUME MInv, StillLoading, bank_group' \in [Pages -> Nat], last_group' \in Nat, Memory(mem'), LoadIs', CreatedIs',
         SameImages(mem, mem') \/ ("load" \in upset /\ Fits(mem', created)
                                   /\ \A b \in Banks, p \in Pages : There(mem, b, p) => There(mem', b, p)),
         "load" \notin upset => PagesAreGood' /\ LoadStays'
  PROVE  MInv'
<1>0. MInv /\ Basis /\ Always
  BY BasisIs DEF MInv
<1>1. UNCHANGED <<active_bank, hepax, moving, awake, deep, modules, created, upset>> /\ HomePage' = HomePage
  BY DEF StillLoading, HomePage
<1>2. Types' /\ DeepIs'
  BY <1>0, <1>1 DEF Always, Types, DeepIs
<1>3. Fits(mem', created')
  BY <1>0, <1>1, SameFits DEF Basis
<1>4. \A b \in Banks, p \in Pages : There(mem, b, p) => There(mem', b, p)
  BY DEF SameImages
<1>5. ChipPlaces'
  <2>1. hepax # NoHepax /\ (hepax.rom_page # HomePage \/ moving # NotMoving) =>
          \A b \in RomBanks : There(mem', b, hepax.rom_page)
    BY <1>0, <1>4, BankFacts, WhereThingsAre DEF Basis, ChipPlaces
  <2> QED BY <1>0, <1>1, <2>1 DEF Basis, ChipPlaces
<1>6. ASSUME upset' = {} PROVE Ordered'
  <2>1. Ordered /\ SameImages(mem, mem')
    BY <1>0, <1>1, <1>6 DEF MInv
  <2>2. SameLoad
    BY DEF SameLoad, StillLoading
  <2> QED BY <1>0, <1>1, <2>1, <2>2, OrderKept DEF Basis
<1> QED BY <1>1, <1>2, <1>3, <1>5, <1>6 DEF MInv, Always

LEMMA SetGroupKeeps ==
  ASSUME MInv, SetGroup
  PROVE  MInv'
<1>0. MInv /\ Basis /\ Always
  BY BasisIs DEF MInv
<1> DEFINE here == Here.group
           g == IF load.group[here] = 0 THEN last_group + 1 ELSE load.group[here]
           Loads == [step : Steps, module : Modules \cup {Nobody}, port : Ports \cup {0}, i : Nat \ {0}, bank : Banks,
                     page : Pages \cup {8}, k : Words, group : [1..MAX_BANK_GROUP -> Nat]]
<1>1. load \in Loads /\ load.step = "group" /\ last_group \in Nat /\ bank_group \in [Pages -> Nat]
  BY <1>0 DEF Always, LoadIs, Types, SetGroup, At
<1>2. Filling /\ Placing /\ Loading
  BY <1>1 DEF Filling, Placing, Loading
<1>3. load.module \in Modules /\ load.i \in PagesOf(load.module) /\ load.page \in Pages
  BY <1>0, <1>2 DEF Basis, LoadIs
<1>4. here \in 0..MAX_BANK_GROUP
  BY <1>3, FileFacts DEF Here, FilePage, FilePages
<1>5. here # 0 => here \in 1..MAX_BANK_GROUP
  BY <1>4, PlugInAssumption
<1>6. ASSUME here # 0 PROVE g \in Nat
  <2>1. load.group \in [1..MAX_BANK_GROUP -> Nat] /\ here \in 1..MAX_BANK_GROUP
    BY <1>1, <1>5, <1>6
  <2>2. load.group[here] \in Nat
    BY <2>1
  <2> HIDE DEF here
  <2> QED BY <1>1, <2>2
<1>7. /\ UNCHANGED <<mem, active_bank, hepax, moving, awake, deep, modules, created, upset>>
      /\ IF here = 0
         THEN load' = [load EXCEPT !.step = "words"] /\ UNCHANGED <<bank_group, last_group>>
         ELSE /\ load' = [load EXCEPT !.step = "words", !.group[here] = g]
              /\ bank_group' = [bank_group EXCEPT ![load.page] = g]
              /\ last_group' = IF g > last_group THEN g ELSE last_group
  BY DEF SetGroup, chip, cpu, history
<1> HIDE DEF g, here
<1>8. "words" \in Steps
  BY DEF Steps
<1>9. /\ load' \in Loads /\ load'.step = "words"
      /\ load'.module = load.module /\ load'.port = load.port /\ load'.i = load.i
      /\ load'.bank = load.bank /\ load'.page = load.page /\ load'.k = load.k
  <2>1. CASE here = 0
    <3>1. load' = [load EXCEPT !.step = "words"]
      BY <1>7, <2>1
    <3> QED BY <1>1, <1>8, <3>1
  <2>2. CASE here # 0
    <3>1. load' = [load EXCEPT !.step = "words", !.group[here] = g]
      BY <1>7, <2>2
    <3> QED BY <1>1, <1>5, <1>6, <1>8, <2>2, <3>1
  <2> QED BY <2>1, <2>2
<1>10. bank_group' \in [Pages -> Nat] /\ last_group' \in Nat
  BY <1>1, <1>6, <1>7
<1>11. Filling' /\ Placing' /\ Loading' /\ Here' = Here /\ StillLoading
  BY <1>2, <1>7, <1>9 DEF Filling, Placing, Loading, Here, StillLoading
<1>12. LoadIs'
  <2>1. load.step # "create"
    BY <1>1
  <2> QED BY <1>0, <1>2, <1>7, <1>9, <1>11, <2>1 DEF Basis, LoadIs
<1> HIDE DEF Loads
<1>13. CreatedIs'
  BY <1>0, <1>2, <1>7, <1>9, <1>11 DEF Basis, CreatedIs
<1>14. Memory(mem') /\ SameImages(mem, mem')
  BY <1>0, <1>7 DEF Basis, SameImages
<1>15. ASSUME "load" \notin upset PROVE PagesAreGood' /\ LoadStays'
  <2>1. PagesAreGood /\ LoadStays
    BY <1>0, <1>15 DEF MInv
  <2>2. \A image \in created : Complete(modules', load', image) => Complete(modules, load, image)
    BY <1>1, <1>7, <1>9 DEF Complete
  <2>3. PagesAreGood'
    BY <1>7, <2>1, <2>2, GoodMoved
  <2>4. LoadStays'
    BY <1>1, <1>2, <1>7, <1>9, <1>11, <2>1 DEF LoadStays
  <2> QED BY <2>3, <2>4
<1> QED BY <1>10, <1>11, <1>12, <1>13, <1>14, <1>15, LoadGoesOn

(* One page is changed: it keeps its image and stays RAM or ROM.           *)
LEMMA SamePage ==
  ASSUME Basis, NEW b0 \in Banks, NEW p0 \in Pages, There(mem, b0, p0), NEW x \in PageType, x.write_enable => x.ram,
         mem' = [mem EXCEPT ![b0][p0] = x], x.image = mem[b0][p0].image
  PROVE  /\ Memory(mem') /\ SameImages(mem, mem') /\ mem'[b0][p0] = x
         /\ \A b \in Banks, p \in Pages : b # b0 \/ p # p0 => mem'[b][p] = mem[b][p]
<1>1. /\ Memory(mem') /\ mem'[b0][p0] = x
      /\ \A b \in Banks, p \in Pages : b # b0 \/ p # p0 => mem'[b][p] = mem[b][p]
      /\ \A b \in Banks, p \in Pages : There(mem', b, p) <=> (There(mem, b, p) \/ (b = b0 /\ p = p0))
  BY EditIs DEF Basis
<1>2. SameImages(mem, mem')
  <2> SUFFICES ASSUME NEW b \in Banks, NEW p \in Pages
               PROVE  /\ There(mem', b, p) <=> There(mem, b, p)
                      /\ There(mem, b, p) => mem'[b][p].image = mem[b][p].image
    BY DEF SameImages
  <2>1. CASE b = b0 /\ p = p0
    BY <1>1, <2>1
  <2>2. CASE b # b0 \/ p # p0
    BY <1>1, <2>2
  <2> QED BY <2>1, <2>2
<1> QED BY <1>1, <1>2

(* A word of the file, in its page *)
LoadedWord(x, k) == [x EXCEPT !.word[k] = Image(load.module, load.i)]

LEMMA LoadedWordIs ==
  ASSUME NEW x \in PageType, NEW k \in Words, load.module \in Modules, load.i \in Nat \ {0}
  PROVE  /\ LoadedWord(x, k) \in PageType
         /\ LoadedWord(x, k).image = x.image /\ LoadedWord(x, k).ram = x.ram
         /\ LoadedWord(x, k).write_enable = x.write_enable
         /\ \A j \in Words : LoadedWord(x, k).word[j] = IF j = k THEN Image(load.module, load.i) ELSE x.word[j]
<1>1. Image(load.module, load.i) \in Images
  BY DEF Image, Images
<1> DEFINE im == Image(load.module, load.i)
<1> HIDE DEF im
<1>2. x.word \in [Words -> Images \cup {Zero, Program}] /\ im \in Images \cup {Zero, Program}
  BY <1>1 DEF PageType, im
<1>3. LoadedWord(x, k) = [x EXCEPT !.word[k] = im]
  BY DEF LoadedWord, im
<1>4. LoadedWord(x, k) \in PageType /\ LoadedWord(x, k).image = x.image /\ LoadedWord(x, k).ram = x.ram
      /\ LoadedWord(x, k).write_enable = x.write_enable
  BY <1>2, <1>3 DEF PageType
<1>5. \A j \in Words : LoadedWord(x, k).word[j] = IF j = k THEN im ELSE x.word[j]
  BY <1>2, <1>3 DEF PageType
<1> QED BY <1>4, <1>5 DEF im

LEMMA BlankIs ==
  /\ NewPage(Zero, FALSE) \in PageType /\ NewPage(Zero, FALSE).image = Zero /\ ~NewPage(Zero, FALSE).write_enable
  /\ Zero \notin Images
<1>1. Zero \notin Images
  BY PlugInAssumption DEF Zero, Images
<1> QED BY <1>1 DEF NewPage, PageType

LEMMA LoadWordMemory ==
  ASSUME Basis, LoadWord
  PROVE  LET b == load.bank  p == load.page
             old == IF There(mem, b, p) THEN mem[b][p] ELSE NewPage(Zero, FALSE)
         IN  /\ b \in Banks /\ p \in Pages /\ old \in PageType /\ LoadedWord(old, load.k) \in PageType
             /\ LoadedWord(old, load.k).write_enable => LoadedWord(old, load.k).ram
             /\ mem' = [mem EXCEPT ![b][p] = LoadedWord(old, load.k)]
             /\ load.module \in Modules /\ load.i \in PagesOf(load.module) /\ load.i \in Nat \ {0} /\ load.k \in Words
<1> DEFINE b == load.bank
           p == load.page
           old == IF There(mem, b, p) THEN mem[b][p] ELSE NewPage(Zero, FALSE)
<1>1. Placing /\ Loading
  BY DEF LoadWord, At, Placing, Loading
<1>2. b \in Banks /\ p \in Pages /\ load.module \in Modules /\ load.i \in Nat \ {0} /\ load.k \in Words
      /\ load.i \in PagesOf(load.module)
  BY <1>1 DEF Basis, LoadIs
<1>3. mem' = [mem EXCEPT ![b][p] = LoadedWord(old, load.k)]
  BY DEF LoadWord, LoadedWord, There, PageExists
<1> HIDE DEF b, p
<1>4. old \in PageType /\ (old.write_enable => old.ram)
  <2>1. CASE There(mem, b, p)
    BY <1>2, <2>1 DEF Basis, Memory, There
  <2>2. CASE ~There(mem, b, p)
    BY <2>2, BlankIs
  <2> QED BY <2>1, <2>2
<1> HIDE DEF old
<1>5. LoadedWord(old, load.k) \in PageType /\ (LoadedWord(old, load.k).write_enable => LoadedWord(old, load.k).ram)
  BY <1>2, <1>4, LoadedWordIs
<1> QED BY <1>2, <1>3, <1>4, <1>5 DEF b, p, old

LEMMA LoadWordKeeps ==
  ASSUME MInv, LoadWord
  PROVE  MInv'
<1>0. MInv /\ Basis /\ Always
  BY BasisIs DEF MInv
<1> DEFINE b == load.bank
           p == load.page
           k == load.k
           old == IF There(mem, b, p) THEN mem[b][p] ELSE NewPage(Zero, FALSE)
           new == LoadedWord(old, k)
           im == Image(load.module, load.i)
           Loads == [step : Steps, module : Modules \cup {Nobody}, port : Ports \cup {0}, i : Nat \ {0}, bank : Banks,
                     page : Pages \cup {8}, k : Words, group : [1..MAX_BANK_GROUP -> Nat]]
<1>1. /\ b \in Banks /\ p \in Pages /\ old \in PageType /\ new \in PageType /\ (new.write_enable => new.ram)
      /\ mem' = [mem EXCEPT ![b][p] = new]
      /\ load.module \in Modules /\ load.i \in PagesOf(load.module) /\ load.i \in Nat \ {0} /\ k \in Words
  BY <1>0, LoadWordMemory
<1>2. /\ load \in Loads /\ load.step = "words" /\ Filling /\ Placing /\ Loading
  BY <1>0 DEF Basis, LoadIs, LoadWord, At, Filling, Placing, Loading
<1>3. /\ UNCHANGED <<active_bank, bank_group, hepax, moving, awake, deep, modules, last_group, created, upset>>
      /\ load' = IF k = PAGE_WORDS THEN [load EXCEPT !.step = "protect"] ELSE [load EXCEPT !.k = @ + 1]
  BY DEF LoadWord, chip, cpu, history
<1>4. k \in 1..PAGE_WORDS /\ PAGE_WORDS \in Nat
  BY <1>1, PlugInAssumption DEF Words
<1>5. /\ load' \in Loads /\ load'.step \in {"words", "protect"}
      /\ load'.module = load.module /\ load'.port = load.port /\ load'.i = load.i
      /\ load'.bank = load.bank /\ load'.page = load.page
      /\ \A j \in Words : j < load'.k \/ load'.step = "protect" => j < k \/ j = k
  <2>1. CASE k = PAGE_WORDS
    <3>1. load' = [load EXCEPT !.step = "protect"] /\ "protect" \in Steps
      BY <1>3, <2>1 DEF Steps
    <3>2. \A j \in Words : j < k \/ j = k
      BY <2>1, <1>4 DEF Words
    <3> HIDE DEF k
    <3> QED BY <1>2, <3>1, <3>2
  <2>2. CASE k # PAGE_WORDS
    <3>1. load' = [load EXCEPT !.k = k + 1]
      BY <1>3, <2>2
    <3>2. k + 1 \in Words /\ \A j \in Words : j < k + 1 => j < k \/ j = k
      BY <1>4, <2>2 DEF Words
    <3> HIDE DEF k
    <3> QED BY <1>2, <3>1, <3>2
  <2> QED BY <2>1, <2>2
<1> HIDE DEF new, old, b, p, k
<1>6. Filling' /\ Placing' /\ Loading' /\ Here' = Here /\ StillLoading
  BY <1>2, <1>3, <1>5 DEF Filling, Placing, Loading, Here, StillLoading
<1>7. LoadIs'
  <2>1. load'.step # "create"
    BY <1>5
  <2> QED BY <1>0, <1>2, <1>3, <1>5, <1>6, <2>1 DEF Basis, LoadIs
<1> HIDE DEF Loads
<1>8. CreatedIs'
  BY <1>0, <1>2, <1>3, <1>5, <1>6 DEF Basis, CreatedIs
<1>9. bank_group' \in [Pages -> Nat] /\ last_group' \in Nat
  BY <1>0, <1>3 DEF Always, Types
<1>10. CASE There(mem, b, p)
  <2>1. old = mem[b][p]
    BY <1>10 DEF old
  <2>2. /\ new.image = old.image /\ new.ram = old.ram
        /\ \A j \in Words : new.word[j] = IF j = k THEN im ELSE old.word[j]
    BY <1>1, LoadedWordIs DEF new
  <2>3. /\ Memory(mem') /\ SameImages(mem, mem') /\ mem'[b][p] = new
        /\ \A c \in Banks, q \in Pages : c # b \/ q # p => mem'[c][q] = mem[c][q]
    <3>1. new.image = mem[b][p].image
      BY <2>1, <2>2
    <3>2. Basis /\ b \in Banks /\ p \in Pages /\ new \in PageType /\ mem' = [mem EXCEPT ![b][p] = new]
      BY <1>0, <1>1
    <3>3. new.write_enable => new.ram
      BY <1>1
    <3> QED BY ONLY <1>10, <3>1, <3>2, <3>3, SamePage
  <2>4. ASSUME "load" \notin upset PROVE PagesAreGood' /\ LoadStays'
    <3>1. PagesAreGood /\ LoadStays
      BY <1>0, <2>4 DEF MInv
    <3>2. /\ old.image = im /\ old.ram = Here.ram
          /\ \A j \in Words : j < k => WordIs(old, im, j)
          /\ p # moving
          /\ b # HIDDEN_BANK /\ hepax # NoHepax => p # hepax.rom_page
          /\ b = HIDDEN_BANK => There(mem, 0, p)
      BY <1>2, <2>1, <3>1 DEF LoadStays, IsAt, b, p, k
    <3> HIDE DEF im
    <3>3. GoodPage(old) => GoodPage(new)
      BY <2>2, <3>2 DEF GoodPage, WordIs
    <3>4. \A image : Complete(modules', load', image) => Complete(modules, load, image)
      BY <1>2, <1>3, <1>5 DEF Complete
    <3>5. ASSUME NEW c \in Banks, NEW q \in Pages, There(mem', c, q)
          PROVE  /\ mem'[c][q].image \in created'
                 /\ Complete(modules', load', mem'[c][q].image) => GoodPage(mem'[c][q]) \/ WasGood(mem'[c][q])
      <4>1. There(mem, c, q) /\ mem'[c][q].image = mem[c][q].image
        BY <2>3, <3>5 DEF SameImages
      <4>2. mem'[c][q].image \in created'
        BY <1>3, <3>1, <4>1 DEF PagesAreGood
      <4>3. ASSUME Complete(modules', load', mem'[c][q].image) PROVE GoodPage(mem'[c][q])
        <5>1. GoodPage(mem[c][q])
          BY <3>1, <3>4, <4>1, <4>3 DEF PagesAreGood
        <5>2. CASE c = b /\ q = p
          BY <2>1, <2>3, <3>3, <5>1, <5>2
        <5>3. CASE c # b \/ q # p
          BY <2>3, <5>1, <5>3
        <5> QED BY <5>2, <5>3
      <4> QED BY <4>2, <4>3
    <3>6. PagesAreGood'
      BY <3>1, <3>5, GoodKept
    <3>7. LoadStays'
      <4>1. load'.bank = b /\ load'.page = p /\ Image(load'.module, load'.i) = im
        BY <1>5 DEF b, p, im
      <4>2. IsAt(mem', b, p, im)
        BY <1>1, <1>10, <2>2, <2>3, <3>2 DEF IsAt, SameImages
      <4>3. \A j \in Words : j < load'.k \/ load'.step = "protect" => WordIs(new, im, j)
        BY <1>5, <2>2, <3>2 DEF WordIs
      <4>4. b = HIDDEN_BANK => There(mem', 0, p)
        BY <1>1, <2>3, <3>2, BankFacts DEF SameImages
      <4> QED BY <1>3, <1>6, <2>2, <2>3, <3>2, <4>1, <4>2, <4>3, <4>4 DEF LoadStays
    <3> QED BY <3>6, <3>7
  <2> QED BY <1>6, <1>7, <1>8, <1>9, <2>3, <2>4, LoadGoesOn
<1>11. CASE ~There(mem, b, p)
  <2>1. "load" \in upset
    BY <1>0, <1>2, <1>11 DEF MInv, LoadStays, IsAt, b, p
  <2>2. old = NewPage(Zero, FALSE)
    BY <1>11 DEF old
  <2>3. new.image = Zero
    BY <1>1, <2>2, LoadedWordIs, BlankIs DEF new
  <2>4. /\ Memory(mem') /\ mem'[b][p] = new
        /\ \A c \in Banks, q \in Pages : c # b \/ q # p => mem'[c][q] = mem[c][q]
        /\ \A c \in Banks, q \in Pages : There(mem', c, q) <=> (There(mem, c, q) \/ (c = b /\ q = p))
    BY <1>0, <1>1, EditIs DEF Basis
  <2>5. ASSUME NEW c \in Banks, NEW q \in Pages, NEW image \in created PROVE IsAt(mem', c, q, image) <=> IsAt(mem, c, q, image)
    <3>1. image # Zero
      BY <1>0, BlankIs DEF Basis, Fits
    <3>2. CASE c = b /\ q = p
      BY <1>11, <2>3, <2>4, <3>1, <3>2 DEF IsAt
    <3>3. CASE c # b \/ q # p
      BY <2>4, <3>3 DEF IsAt
    <3> QED BY <3>2, <3>3
  <2>6. Fits(mem', created)
    <3>1. \A image \in created : \E c \in Banks, q \in Pages : IsAt(mem', c, q, image)
      BY <1>0, <2>5 DEF Basis, Fits
    <3>2. ASSUME NEW c \in Banks, NEW q \in Pages, There(mem', c, q) PROVE mem'[c][q].image \in created \cup {Zero}
      BY <1>0, <2>3, <2>4, <3>2 DEF Basis, Fits
    <3>3. \A b1, b2 \in Banks, p1, p2 \in Pages, image \in created :
            IsAt(mem', b1, p1, image) /\ IsAt(mem', b2, p2, image) => b1 = b2 /\ p1 = p2
      BY <1>0, <2>5 DEF Basis, Fits
    <3>4. \A c \in Banks, q \in Pages, image \in created :
            IsAt(mem', c, q, image) => BankOf(c) = FilePage(image[1], image[2]).bank
      BY <1>0, <2>5 DEF Basis, Fits
    <3> QED BY <1>0, <3>1, <3>2, <3>3, <3>4 DEF Basis, Fits
  <2> QED BY <1>6, <1>7, <1>8, <1>9, <2>1, <2>4, <2>6, LoadGoesOn
<1> QED BY <1>10, <1>11

LEMMA WriteEnableKeeps ==
  ASSUME MInv, WriteEnable
  PROVE  MInv'
<1>0. MInv /\ Basis /\ Always
  BY BasisIs DEF MInv
<1> DEFINE b == load.bank
           p == load.page
           old == mem[b][p]
           new == WriteEnabled(old, Here.ram /\ ~Here.protect)
           im == Image(load.module, load.i)
           Loads == [step : Steps, module : Modules \cup {Nobody}, port : Ports \cup {0}, i : Nat \ {0}, bank : Banks,
                     page : Pages \cup {8}, k : Words, group : [1..MAX_BANK_GROUP -> Nat]]
<1>1. /\ load \in Loads /\ load.step = "protect" /\ Filling /\ Placing /\ Loading
  BY <1>0 DEF Basis, LoadIs, WriteEnable, At, Filling, Placing, Loading
<1>2. b \in Banks /\ p \in Pages /\ load.module \in Modules /\ load.i \in PagesOf(load.module) /\ load.i \in Nat \ {0}
  BY <1>0, <1>1 DEF Basis, LoadIs
<1>3. /\ UNCHANGED <<active_bank, bank_group, hepax, moving, awake, deep, modules, last_group, created, upset>>
      /\ load' = [load EXCEPT !.step = "read", !.i = @ + 1]
      /\ mem' = IF There(mem, b, p) THEN [mem EXCEPT ![b][p] = new] ELSE mem
  BY DEF WriteEnable, chip, cpu, history, There, PageExists
<1>4. /\ load' \in Loads /\ load'.step = "read" /\ load'.i = load.i + 1
      /\ load'.module = load.module /\ load'.port = load.port
  <2>1. "read" \in Steps /\ load.i + 1 \in Nat \ {0}
    BY <1>2 DEF Steps
  <2> QED BY <1>1, <1>3, <2>1
<1>5. ~Filling' /\ ~Placing' /\ Loading' /\ StillLoading
  BY <1>1, <1>3, <1>4 DEF Filling, Placing, Loading, StillLoading
<1>6. LoadIs'
  BY <1>0, <1>1, <1>3, <1>4, <1>5 DEF Basis, LoadIs
<1> HIDE DEF Loads
<1>7. CreatedIs'
  <2>1. Len(File[load.module].page) \in Nat /\ load.i \in 1..Len(File[load.module].page) /\ load.i \in Nat \ {0}
    BY <1>2, FileFacts DEF PagesOf
  <2>2. \A i \in 1..(load.i - 1) : Image(load.module, i) \in created
    BY <1>0, <1>1 DEF Basis, CreatedIs
  <2>3. \A i \in PagesOf(load.module) : i >= load.i => (Image(load.module, i) \in created <=> i = load.i)
    BY <1>0, <1>1 DEF Basis, CreatedIs
  <2>4. \A i \in 1..((load.i + 1) - 1) : Image(load.module, i) \in created
    BY <1>2, <2>1, <2>2, <2>3
  <2>5. \A i \in PagesOf(load.module) : i >= load.i + 1 => Image(load.module, i) \notin created
    BY <2>1, <2>3 DEF PagesOf
  <2>6. load.i + 1 <= Len(File[load.module].page) + 1
    BY <2>1
  <2>7. /\ \A image \in created' : image[2] \in PagesOf(image[1])
        /\ \A port \in Ports : modules'[port] # Nobody =>
             \A i \in PagesOf(modules'[port]) : Image(modules'[port], i) \in created'
    BY <1>0, <1>3 DEF Basis, CreatedIs
  <2>8. /\ \A i \in 1..(load'.i - 1) : Image(load'.module, i) \in created'
        /\ \A i \in PagesOf(load'.module) :
             i >= load'.i => (Image(load'.module, i) \in created' <=> (i = load'.i /\ Filling'))
        /\ load'.i <= Len(File[load'.module].page) + 1
    <3>1. created' = created /\ load'.i = load.i + 1 /\ load'.module = load.module /\ ~Filling'
      BY <1>3, <1>4, <1>5
    <3>2. \A i \in 1..(load'.i - 1) : Image(load'.module, i) \in created'
      BY <2>4, <3>1
    <3>3. \A i \in PagesOf(load'.module) : i >= load'.i => Image(load'.module, i) \notin created'
      BY <2>5, <3>1
    <3>4. load'.i <= Len(File[load'.module].page) + 1
      BY <2>6, <3>1
    <3> QED BY <3>1, <3>2, <3>3, <3>4
  <2> QED BY <2>7, <2>8 DEF CreatedIs
<1>8. bank_group' \in [Pages -> Nat] /\ last_group' \in Nat
  BY <1>0, <1>3 DEF Always, Types
<1> HIDE DEF b, p, new
<1>9. CASE ~There(mem, b, p)
  <2>1. "load" \in upset
    BY <1>0, <1>1, <1>9 DEF MInv, LoadStays, IsAt, b, p
  <2>2. mem' = mem
    BY <1>3, <1>9
  <2>3. Memory(mem') /\ SameImages(mem, mem')
    BY <1>0, <2>2 DEF Basis, SameImages
  <2> QED BY <1>5, <1>6, <1>7, <1>8, <2>1, <2>3, LoadGoesOn
<1>10. CASE There(mem, b, p)
  <2>1. old \in PageType /\ (old.write_enable => old.ram)
    BY <1>0, <1>2, <1>10 DEF Basis, Memory, There
  <2>2. Here.ram \in BOOLEAN /\ Here.protect \in BOOLEAN
    BY <1>2, FileFacts DEF Here, FilePage, FilePages
  <2> DEFINE enable == Here.ram /\ ~Here.protect
  <2>3. enable \in BOOLEAN
    OBVIOUS
  <2> HIDE DEF enable, old
  <2>4. new \in PageType /\ new.image = old.image /\ new.ram = old.ram /\ new.word = old.word
        /\ (new.write_enable => new.ram)
    <3>1. new = IF ~old.ram /\ enable THEN old ELSE [old EXCEPT !.write_enable = enable]
      BY DEF new, enable, WriteEnabled
    <3>2. CASE ~old.ram /\ enable
      BY <2>1, <3>1, <3>2
    <3>3. CASE ~(~old.ram /\ enable)
      <4>1. new = [old EXCEPT !.write_enable = enable]
        BY <3>1, <3>3
      <4>2. new \in PageType /\ new.image = old.image /\ new.ram = old.ram /\ new.word = old.word
        BY <2>1, <2>3, <4>1 DEF PageType
      <4>3. new.write_enable = enable
        BY <2>1, <2>3, <4>1 DEF PageType
      <4> QED BY <3>3, <4>2, <4>3
    <3> QED BY <3>2, <3>3
  <2>5. PageKept(old, new)
    BY <2>4 DEF PageKept
  <2>6. /\ Memory(mem') /\ SameImages(mem, mem') /\ mem'[b][p] = new
        /\ \A c \in Banks, q \in Pages : c # b \/ q # p => mem'[c][q] = mem[c][q]
    <3>1. new.image = mem[b][p].image
      BY <2>4 DEF old
    <3>2. Basis /\ b \in Banks /\ p \in Pages /\ new \in PageType /\ mem' = [mem EXCEPT ![b][p] = new]
      BY <1>0, <1>2, <1>3, <1>10, <2>4
    <3>3. new.write_enable => new.ram
      BY <2>4
    <3> QED BY ONLY <1>10, <3>1, <3>2, <3>3, SamePage
  <2>7. ASSUME "load" \notin upset PROVE PagesAreGood' /\ LoadStays'
    <3>1. PagesAreGood /\ LoadStays
      BY <1>0, <2>7 DEF MInv
    <3>2. IsAt(mem, b, p, im) /\ old.ram = Here.ram /\ \A j \in Words : WordIs(old, im, j)
      BY <1>1, <3>1 DEF LoadStays, b, p, old
    <3>3. im \in created
      BY <1>0, <1>1, <1>2 DEF Basis, CreatedIs
    <3>4. old.image = im
      BY <3>2 DEF IsAt, old
    <3>5. GoodPage(old)
      <4>1. Here = FilePage(im[1], im[2])
        BY DEF Here, FilePage, Image
      <4> QED BY <3>2, <3>4, <4>1 DEF GoodPage
    <3>6. GoodPage(new)
      BY <2>5, <3>5, PageKeptIsGood
    <3>7. ASSUME NEW image \in created, Complete(modules', load', image), image # im PROVE Complete(modules, load, image)
      <4>1. image \in Images
        BY <1>0 DEF Basis, Fits
      <4>2. image = <<image[1], image[2]>> /\ image[2] \in Nat
        BY <4>1 DEF Images
      <4>3. image[1] = load.module => image[2] # load.i
        BY <3>7, <4>2 DEF Image
      <4>4. CASE \E port \in Ports : modules'[port] = image[1]
        BY <1>3, <4>4 DEF Complete
      <4>5. CASE image[1] = load.module /\ image[2] < load.i + 1
        <5>1. image[2] < load.i
          BY <1>2, <4>2, <4>3, <4>5
        <5> QED BY <1>1, <4>5, <5>1 DEF Complete
      <4> QED BY <1>4, <3>7, <4>4, <4>5 DEF Complete
    <3>8. ASSUME NEW c \in Banks, NEW q \in Pages, There(mem', c, q)
          PROVE  /\ mem'[c][q].image \in created'
                 /\ Complete(modules', load', mem'[c][q].image) => GoodPage(mem'[c][q]) \/ WasGood(mem'[c][q])
      <4>1. There(mem, c, q) /\ mem'[c][q].image = mem[c][q].image /\ mem[c][q].image \in created
        BY <2>6, <3>1, <3>8 DEF SameImages, PagesAreGood
      <4>2. ASSUME Complete(modules', load', mem'[c][q].image) PROVE GoodPage(mem'[c][q])
        <5>1. CASE c = b /\ q = p
          BY <2>6, <3>6, <5>1
        <5>2. CASE c # b \/ q # p
          <6>1. mem[c][q].image # im
            <7>1. SUFFICES ASSUME mem[c][q].image = im PROVE FALSE
              OBVIOUS
            <7>2. IsAt(mem, c, q, im)
              BY <4>1, <7>1 DEF IsAt
            <7> QED BY <1>0, <1>2, <3>2, <3>3, <5>2, <7>2 DEF Basis, Fits
          <6>2. Complete(modules, load, mem[c][q].image)
            BY <3>7, <4>1, <4>2, <6>1
          <6>3. GoodPage(mem[c][q])
            BY <3>1, <4>1, <6>2 DEF PagesAreGood
          <6> QED BY <2>6, <5>2, <6>3
        <5> QED BY <5>1, <5>2
      <4> QED BY <1>3, <4>1, <4>2
    <3>9. PagesAreGood'
      BY <3>1, <3>8, GoodKept
    <3> QED BY <1>5, <3>9 DEF LoadStays
  <2> QED BY <1>5, <1>6, <1>7, <1>8, <2>6, <2>7, LoadGoesOn
<1> QED BY <1>9, <1>10

-----------------------------------------------------------------------------
(* sim_create_page makes the page, in a bank and a page that are free      *)
Creating == CreatePage /\ ~There(mem, load.bank, load.page)
NewImage == Image(load.module, load.i)

LEMMA NotListed ==
  ASSUME Basis, Loading, load.i \in PagesOf(load.module), NewImage \notin created, NEW port \in Ports
  PROVE  modules[port] # load.module
<1>1. load.module \in Modules
  BY DEF Basis, LoadIs
<1>2. load.module # Nobody
  BY <1>1, PlugInAssumption
<1> QED BY <1>2 DEF Basis, CreatedIs, NewImage

LEMMA CreatingIs ==
  ASSUME Basis, Creating
  PROVE  /\ Memory(mem') /\ mem'[load.bank][load.page] = NewPage(NewImage, Here.ram)
         /\ \A b \in Banks, p \in Pages : b # load.bank \/ p # load.page => mem'[b][p] = mem[b][p]
         /\ \A b \in Banks, p \in Pages : There(mem', b, p) <=> (There(mem, b, p) \/ (b = load.bank /\ p = load.page))
         /\ load.bank \in Banks /\ load.page \in Pages
         /\ load.step = "create" /\ load.k = 1 /\ Loading /\ Placing /\ ~Filling
         /\ load.module \in Modules /\ load.i \in PagesOf(load.module) /\ load.i \in Nat \ {0} /\ load.port \in Ports
         /\ NewImage \in Images /\ NewImage \notin created
         /\ UNCHANGED <<active_bank, bank_group, hepax, moving, awake, deep, modules, last_group>>
         /\ load' = [load EXCEPT !.step = "group"]
         /\ created' = created \cup {NewImage}
         /\ upset' = IF load.page = moving \/ (load.bank = HIDDEN_BANK /\ ~There(mem, 0, load.page))
                     THEN upset \cup {"load"} ELSE upset
<1>1. load.step = "create" /\ Loading /\ Placing /\ ~Filling
  BY DEF Creating, CreatePage, At, Loading, Placing, Filling
<1>2. /\ load.bank \in Banks /\ load.page \in Pages /\ load.k = 1 /\ load.port \in Ports
      /\ load.module \in Modules /\ load.i \in PagesOf(load.module) /\ load.i \in Nat \ {0}
  BY <1>1 DEF Basis, LoadIs
<1>3. /\ UNCHANGED <<active_bank, bank_group, hepax, moving, awake, deep, modules, last_group>>
      /\ load' = [load EXCEPT !.step = "group"]
      /\ created' = created \cup {NewImage}
      /\ upset' = IF load.page = moving \/ (load.bank = HIDDEN_BANK /\ ~There(mem, 0, load.page))
                  THEN upset \cup {"load"} ELSE upset
      /\ mem' = [mem EXCEPT ![load.bank][load.page] = NewPage(NewImage, Here.ram)]
  BY DEF Creating, CreatePage, There, PageExists, chip, cpu, NewImage
<1>4. NewImage \in Images
  BY <1>2 DEF NewImage, Image, Images
<1>5. NewImage \notin created
  BY <1>1, <1>2 DEF Basis, CreatedIs, NewImage
<1>6. Here.ram \in BOOLEAN
  BY <1>2, FileFacts DEF Here, FilePage, FilePages
<1>7. NewPage(NewImage, Here.ram) \in PageType /\ ~NewPage(NewImage, Here.ram).write_enable
  <2> DEFINE im == NewImage
             ram == Here.ram
  <2>1. im \in Images /\ ram \in BOOLEAN
    BY <1>4, <1>6
  <2> HIDE DEF im, ram
  <2>2. NewPage(im, ram) \in PageType /\ ~NewPage(im, ram).write_enable
    BY <2>1 DEF NewPage, PageType
  <2> QED BY <2>2 DEF im, ram
<1> DEFINE b0 == load.bank
           p0 == load.page
           x == NewPage(NewImage, Here.ram)
<1> HIDE DEF b0, p0, x
<1>8. /\ Memory(mem') /\ mem'[b0][p0] = x
      /\ \A b \in Banks, p \in Pages : b # b0 \/ p # p0 => mem'[b][p] = mem[b][p]
      /\ \A b \in Banks, p \in Pages : There(mem', b, p) <=> (There(mem, b, p) \/ (b = b0 /\ p = p0))
  <2>1. Memory(mem) /\ b0 \in Banks /\ p0 \in Pages /\ x \in PageType /\ (x.write_enable => x.ram)
        /\ mem' = [mem EXCEPT ![b0][p0] = x]
    BY <1>2, <1>3, <1>7 DEF Basis, b0, p0, x
  <2> QED BY ONLY <2>1, EditIs, NoPageAssumption
<1> QED BY <1>1, <1>2, <1>3, <1>4, <1>5, <1>8 DEF b0, p0, x

(* The images that were there are where they were. *)
LEMMA CreatingKeeps ==
  ASSUME Basis, Creating
  PROVE  /\ \A b \in Banks, p \in Pages, image \in created : IsAt(mem', b, p, image) <=> IsAt(mem, b, p, image)
         /\ \A b \in Banks, p \in Pages : IsAt(mem', b, p, NewImage) <=> (b = load.bank /\ p = load.page)
         /\ Fits(mem', created')
<1>1. /\ mem'[load.bank][load.page] = NewPage(NewImage, Here.ram)
      /\ \A b \in Banks, p \in Pages : b # load.bank \/ p # load.page => mem'[b][p] = mem[b][p]
      /\ \A b \in Banks, p \in Pages : There(mem', b, p) <=> (There(mem, b, p) \/ (b = load.bank /\ p = load.page))
      /\ load.bank \in Banks /\ load.page \in Pages /\ load.module \in Modules /\ load.i \in PagesOf(load.module)
      /\ NewImage \in Images /\ NewImage \notin created /\ created' = created \cup {NewImage} /\ Placing
  BY CreatingIs
<1> DEFINE b0 == load.bank
           p0 == load.page
           im == NewImage
<1>2. /\ There(mem', b0, p0) /\ mem'[b0][p0].image = im /\ ~There(mem, b0, p0)
      /\ \A b \in Banks, p \in Pages : b # b0 \/ p # p0 => mem'[b][p] = mem[b][p]
      /\ \A b \in Banks, p \in Pages : There(mem', b, p) <=> (There(mem, b, p) \/ (b = b0 /\ p = p0))
      /\ b0 \in Banks /\ p0 \in Pages /\ im \in Images /\ im \notin created /\ created' = created \cup {im}
  BY <1>1 DEF Creating, NewPage
<1>3. Fits(mem, created) /\ im # Zero
  BY <1>1, BlankIs DEF Basis
<1>4. BankOf(b0) = FilePage(im[1], im[2]).bank
  <2>1. b0 = Here.bank \/ (b0 = HIDDEN_BANK /\ Here.bank = 0)
    BY <1>1 DEF Basis, LoadIs
  <2>2. Here.bank \in RomBanks /\ Here = FilePage(im[1], im[2])
    BY <1>1, FileFacts DEF Here, FilePage, FilePages, NewImage, Image
  <2> QED BY <2>1, <2>2, BankFacts DEF BankOf
<1> HIDE DEF b0, p0, im
<1>5. ASSUME NEW b \in Banks, NEW p \in Pages, NEW image \in created PROVE IsAt(mem', b, p, image) <=> IsAt(mem, b, p, image)
  <2>1. CASE b = b0 /\ p = p0
    BY <1>2, <2>1 DEF IsAt
  <2>2. CASE b # b0 \/ p # p0
    BY <1>2, <2>2 DEF IsAt
  <2> QED BY <2>1, <2>2
<1>6. ASSUME NEW b \in Banks, NEW p \in Pages PROVE IsAt(mem', b, p, im) <=> (b = b0 /\ p = p0)
  <2>1. CASE b = b0 /\ p = p0
    BY <1>2, <2>1 DEF IsAt
  <2>2. CASE b # b0 \/ p # p0
    <3>1. There(mem', b, p) => mem[b][p].image \in created \cup {Zero} /\ mem'[b][p] = mem[b][p]
      BY <1>2, <1>3, <2>2 DEF Fits
    <3> QED BY <1>2, <1>3, <2>2, <3>1 DEF IsAt
  <2> QED BY <2>1, <2>2
<1>7. created' \subseteq Images
  BY <1>2, <1>3 DEF Fits
<1>8. ASSUME NEW image \in created' PROVE \E b \in Banks, p \in Pages : IsAt(mem', b, p, image)
  <2>1. CASE image \in created
    BY <1>3, <1>5, <2>1 DEF Fits
  <2>2. CASE image = im
    BY <1>2, <1>6, <2>2
  <2> QED BY <1>2, <2>1, <2>2
<1>9. ASSUME NEW b \in Banks, NEW p \in Pages, There(mem', b, p) PROVE mem'[b][p].image \in created' \cup {Zero}
  <2>1. CASE b = b0 /\ p = p0
    BY <1>2, <2>1
  <2>2. CASE b # b0 \/ p # p0
    BY <1>2, <1>3, <1>9, <2>2 DEF Fits
  <2> QED BY <2>1, <2>2
<1>10. ASSUME NEW b1 \in Banks, NEW b2 \in Banks, NEW p1 \in Pages, NEW p2 \in Pages, NEW image \in created',
              IsAt(mem', b1, p1, image), IsAt(mem', b2, p2, image)
       PROVE  b1 = b2 /\ p1 = p2
  <2>1. CASE image \in created
    BY <1>3, <1>5, <1>10, <2>1 DEF Fits
  <2>2. CASE image = im
    BY <1>6, <1>10, <2>2
  <2> QED BY <1>2, <2>1, <2>2
<1>11. ASSUME NEW b \in Banks, NEW p \in Pages, NEW image \in created', IsAt(mem', b, p, image)
       PROVE  BankOf(b) = FilePage(image[1], image[2]).bank
  <2>1. CASE image \in created
    BY <1>3, <1>5, <1>11, <2>1 DEF Fits
  <2>2. CASE image = im
    BY <1>4, <1>6, <1>11, <2>2
  <2> QED BY <1>2, <2>1, <2>2
<1>12. Fits(mem', created')
  BY <1>7, <1>8, <1>9, <1>10, <1>11 DEF Fits
<1> QED BY <1>5, <1>6, <1>12 DEF b0, p0, im

LEMMA CreatingAlways ==
  ASSUME Always, Creating
  PROVE  Always' /\ load'.step = "group" /\ load'.k = 1 /\ Filling' /\ Loading' /\ Here' = Here
         /\ UNCHANGED <<load.module, load.port, load.i, load.bank, load.page>>
<1>0. Always /\ Basis
  BY BasisIs
<1>1. /\ Memory(mem')
      /\ \A b \in Banks, p \in Pages : There(mem', b, p) <=> (There(mem, b, p) \/ (b = load.bank /\ p = load.page))
      /\ load.step = "create" /\ load.k = 1 /\ Loading /\ Placing /\ ~Filling
      /\ load.module \in Modules /\ load.i \in PagesOf(load.module) /\ load.i \in Nat \ {0} /\ load.port \in Ports
      /\ NewImage \in Images /\ NewImage \notin created
      /\ UNCHANGED <<active_bank, bank_group, hepax, moving, awake, deep, modules, last_group>>
      /\ load' = [load EXCEPT !.step = "group"]
      /\ created' = created \cup {NewImage}
      /\ upset' \subseteq upset \cup {"load"}
  BY <1>0, CreatingIs
<1> DEFINE Loads == [step : Steps, module : Modules \cup {Nobody}, port : Ports \cup {0}, i : Nat \ {0}, bank : Banks,
                     page : Pages \cup {8}, k : Words, group : [1..MAX_BANK_GROUP -> Nat]]
<1>2. load \in Loads /\ "group" \in Steps
  BY <1>0 DEF Basis, LoadIs, Steps
<1>3. /\ load' \in Loads /\ load'.step = "group" /\ load'.k = load.k
      /\ load'.module = load.module /\ load'.port = load.port /\ load'.i = load.i
      /\ load'.bank = load.bank /\ load'.page = load.page
  BY <1>1, <1>2
<1>4. Filling' /\ Loading' /\ Placing' /\ Here' = Here
  BY <1>3 DEF Filling, Loading, Placing, Here
<1>5. LoadIs'
  BY <1>0, <1>1, <1>3, <1>4 DEF Basis, LoadIs
<1> HIDE DEF Loads
<1>6. CreatedIs'
  <2>1. NewImage[1] = load.module /\ NewImage[2] = load.i
    BY DEF NewImage, Image
  <2>2. \A image \in created' : image[2] \in PagesOf(image[1])
    BY <1>0, <1>1, <2>1 DEF Basis, CreatedIs
  <2>3. \A port \in Ports : modules'[port] # Nobody =>
          \A i \in PagesOf(modules'[port]) : Image(modules'[port], i) \in created'
    BY <1>0, <1>1 DEF Basis, CreatedIs
  <2>4. \A i \in 1..(load'.i - 1) : Image(load'.module, i) \in created'
    BY <1>0, <1>1, <1>3 DEF Basis, CreatedIs
  <2>5. \A i \in PagesOf(load.module) : i >= load.i => Image(load.module, i) \notin created
    BY <1>0, <1>1 DEF Basis, CreatedIs
  <2>6. \A i \in PagesOf(load.module) : i >= load.i => (Image(load.module, i) \in created' <=> i = load.i)
    <3>1. \A i \in PagesOf(load.module) : Image(load.module, i) = NewImage <=> i = load.i
      BY DEF NewImage, Image
    <3> QED BY <1>1, <2>5, <3>1
  <2>7. load.i <= Len(File[load.module].page) + 1
    BY <1>0, <1>1 DEF Basis, CreatedIs
  <2> QED BY <1>3, <1>4, <2>2, <2>3, <2>4, <2>6, <2>7 DEF CreatedIs
<1>7. HomePage' = HomePage
  BY <1>1 DEF HomePage
<1>8. ChipPlaces'
  <2>1. hepax # NoHepax /\ (hepax.rom_page # HomePage \/ moving # NotMoving) =>
          \A b \in RomBanks : There(mem', b, hepax.rom_page)
    BY <1>0, <1>1, BankFacts, WhereThingsAre DEF Basis, ChipPlaces
  <2> QED BY <1>0, <1>1, <1>7, <2>1 DEF Basis, ChipPlaces
<1>9. DeepIs' /\ Types'
  <2>1. upset' \subseteq {"load", "restore"}
    BY <1>0, <1>1 DEF Always, Types
  <2> QED BY <1>0, <1>1, <1>7, <2>1 DEF Always, DeepIs, Types
<1>10. Fits(mem', created')
  BY <1>0, CreatingKeeps
<1> QED BY <1>1, <1>3, <1>4, <1>5, <1>6, <1>8, <1>9, <1>10 DEF Always

(* The page is not made where the HEPAX ROM is. *)
LEMMA NotInRom ==
  ASSUME Basis, Creating, hepax # NoHepax, load.bank \in RomBanks
  PROVE  load.page # hepax.rom_page
<1>1. Placing /\ ~There(mem, load.bank, load.page)
  BY CreatingIs DEF Creating
<1>2. load.page # HomePage
  BY <1>1, LoadElsewhere DEF Basis
<1>3. CASE hepax.rom_page # HomePage
  BY <1>1, <1>3 DEF Basis, ChipPlaces
<1>4. CASE hepax.rom_page = HomePage
  BY <1>2, <1>4
<1> QED BY <1>3, <1>4

LEMMA CreatingGood ==
  ASSUME Always, Creating, "load" \notin upset', PagesAreGood
  PROVE  PagesAreGood' /\ LoadStays'
<1>0. Always /\ Basis
  BY BasisIs
<1>1. /\ mem'[load.bank][load.page] = NewPage(NewImage, Here.ram)
      /\ \A b \in Banks, p \in Pages : b # load.bank \/ p # load.page => mem'[b][p] = mem[b][p]
      /\ \A b \in Banks, p \in Pages : There(mem', b, p) <=> (There(mem, b, p) \/ (b = load.bank /\ p = load.page))
      /\ load.bank \in Banks /\ load.page \in Pages
      /\ load.step = "create" /\ load.k = 1 /\ Loading /\ Placing /\ ~Filling
      /\ load.module \in Modules /\ load.i \in PagesOf(load.module) /\ load.i \in Nat \ {0} /\ load.port \in Ports
      /\ NewImage \in Images /\ NewImage \notin created
      /\ UNCHANGED <<hepax, moving, modules>>
      /\ created' = created \cup {NewImage}
      /\ upset' = IF load.page = moving \/ (load.bank = HIDDEN_BANK /\ ~There(mem, 0, load.page))
                  THEN upset \cup {"load"} ELSE upset
  BY <1>0, CreatingIs
<1>2. /\ load'.step = "group" /\ load'.k = 1 /\ Filling' /\ Loading' /\ Here' = Here
      /\ load'.module = load.module /\ load'.i = load.i /\ load'.bank = load.bank /\ load'.page = load.page
  BY CreatingAlways
<1>3. load.page # moving /\ (load.bank = HIDDEN_BANK => There(mem, 0, load.page))
  BY <1>1
<1>4. NewPage(NewImage, Here.ram).image = NewImage /\ NewPage(NewImage, Here.ram).ram = Here.ram
  BY DEF NewPage
<1>5. ~Complete(modules', load', NewImage)
  <2>1. \A port \in Ports : modules[port] # load.module
    BY <1>0, <1>1, NotListed
  <2>2. NewImage[1] = load.module /\ NewImage[2] = load.i
    BY DEF NewImage, Image
  <2>3. ~(load.i < load.i)
    BY <1>1
  <2> QED BY <1>1, <1>2, <2>1, <2>2, <2>3 DEF Complete
<1>6. \A image : Complete(modules', load', image) => Complete(modules, load, image)
  BY <1>1, <1>2 DEF Complete
<1>7. ASSUME NEW b \in Banks, NEW p \in Pages, There(mem', b, p)
      PROVE  /\ mem'[b][p].image \in created'
             /\ Complete(modules', load', mem'[b][p].image) => GoodPage(mem'[b][p]) \/ WasGood(mem'[b][p])
  <2>1. CASE b = load.bank /\ p = load.page
    BY <1>1, <1>4, <1>5, <2>1
  <2>2. CASE b # load.bank \/ p # load.page
    <3>1. There(mem, b, p) /\ mem'[b][p] = mem[b][p]
      BY <1>1, <1>7, <2>2
    <3>2. mem[b][p].image \in created /\ (Complete(modules, load, mem[b][p].image) => GoodPage(mem[b][p]))
      BY <3>1 DEF PagesAreGood
    <3> QED BY <1>1, <1>6, <3>1, <3>2
  <2> QED BY <2>1, <2>2
<1>8. PagesAreGood'
  BY <1>7, GoodKept
<1>9. LoadStays'
  <2>1. IsAt(mem', load.bank, load.page, NewImage)
    BY <1>0, <1>1, CreatingKeeps
  <2>2. mem'[load.bank][load.page].ram = Here.ram
    BY <1>1, <1>4
  <2>3. \A k \in Words : ~(k < 1)
    BY DEF Words
  <2>4. load.bank # HIDDEN_BANK /\ hepax # NoHepax => load.page # hepax.rom_page
    BY <1>0, <1>1, NotInRom, BankFacts
  <2>5. load.bank = HIDDEN_BANK => There(mem', 0, load.page)
    BY <1>1, <1>3, BankFacts
  <2>6. Image(load'.module, load'.i) = NewImage
    BY <1>2 DEF NewImage
  <2> QED BY <1>1, <1>2, <1>3, <2>1, <2>2, <2>3, <2>4, <2>5, <2>6 DEF LoadStays
<1> QED BY <1>8, <1>9

(* RAM goes under the ROM of the HEPAX, or over what no module owns.       *)
LEMMA HidesUnderRom ==
  ASSUME Always, Creating, Ordered, load.bank = HIDDEN_BANK, There(mem, 0, load.page),
         mem[0][load.page].image \in created
  PROVE  /\ LeftOver(load.page) \/ (hepax # NoHepax /\ load.page = hepax.rom_page)
         /\ mem[0][load.page].image[1] = load.module => IsHepax(load.module) /\ load.page = Home(load.port)
<1>0. Always /\ Basis
  BY BasisIs
<1> DEFINE im == mem[0][load.page].image
<1>1. /\ load.page \in Pages /\ load.step = "create" /\ Loading /\ Placing /\ ~Filling
      /\ load.module \in Modules /\ load.i \in PagesOf(load.module) /\ load.i \in Nat \ {0} /\ load.port \in Ports
  BY <1>0, CreatingIs
<1>2. 0 \in Banks /\ 0 \in RomBanks /\ HIDDEN_BANK \notin RomBanks /\ BankOf(0) = 0
  BY BankFacts DEF BankOf
<1>3. Here \in FilePages /\ Here = FilePage(load.module, load.i) /\ Here.bank \in RomBanks
  BY <1>1, FileFacts DEF Here, FilePage, FilePages
<1>4. Here.ram /\ Here.bank = 0
  BY <1>0, <1>1, <1>2, <1>3 DEF Basis, LoadIs
<1>5. Half(Here.at) # "system"
  BY <1>1, <1>4, PlugInFileAssumption DEF Here, PagesOf
<1>6. load.page \in {Home(load.port), Home(load.port) + 1} /\ (Half(Here.at) = "any" \/ Half(Here.at) = Half(load.page))
  BY <1>0, <1>1, <1>5 DEF Basis, LoadIs
<1>7. load.page >= 8
  BY <1>1, <1>6, PortFacts
<1>8. im \in created /\ IsAt(mem, 0, load.page, im)
  BY DEF IsAt
<1> HIDE DEF im
<1>9. im \in Images /\ im[2] \in PagesOf(im[1]) /\ im = Image(im[1], im[2]) /\ im[1] \in Modules /\ im[2] \in Nat \ {0}
  <2>1. im \in Images /\ im[2] \in PagesOf(im[1])
    BY <1>0, <1>8 DEF Basis, Fits, CreatedIs
  <2> QED BY <2>1 DEF Images, Image
<1>10. FilePage(im[1], im[2]).bank = 0
  BY <1>0, <1>1, <1>2, <1>8 DEF Basis, Fits
<1>11. ASSUME IsRom(im) PROVE im = Image(im[1], 0 + 1)
  <2>1. im[2] \in Nat \ {0} /\ im[2] < MAX_BANK /\ IsHepax(im[1])
    BY <1>9, <1>11 DEF IsRom
  <2> DEFINE b == im[2] - 1
  <2>2. b \in RomBanks /\ b + 1 = im[2]
    BY <2>1, PlugInAssumption DEF RomBanks
  <2> HIDE DEF b
  <2>3. FilePage(im[1], im[2]).bank = b
    BY <1>9, <2>1, <2>2, FileFacts
  <2>4. im[2] = 0 + 1
    BY <1>10, <2>2, <2>3
  <2> QED BY <1>9, <2>4
<1>12. ASSUME IsRom(im), hepax # NoHepax PROVE load.page = hepax.rom_page
  <2>1. hepax.module \in Modules /\ IsHepax(hepax.module) /\ hepax.rom_page \in Pages
    BY <1>0, <1>12 DEF Basis, ChipPlaces
  <2>2. im[1] = hepax.module
    BY <1>9, <1>12, <2>1, PlugInFileAssumption DEF IsRom
  <2>3. IsAt(mem, 0, hepax.rom_page, Image(hepax.module, 0 + 1))
    BY <1>2, <1>12 DEF Ordered, RomIsThere
  <2>4. IsAt(mem, 0, hepax.rom_page, im)
    BY <1>11, <1>12, <2>2, <2>3
  <2> QED BY <1>0, <1>1, <1>2, <1>8, <2>1, <2>4 DEF Basis, Fits
<1>13. ASSUME ~(IsRom(im) /\ hepax # NoHepax), NEW port \in Ports, Owns(port, im[1])
       PROVE  InPort(port, load.page, FilePage(im[1], im[2]).at)
              /\ Half(FilePage(im[1], im[2]).at) \in {"any", Half(load.page)}
  BY <1>1, <1>2, <1>8, <1>13 DEF Ordered, InPlace
<1>14. ASSUME ~(IsRom(im) /\ hepax # NoHepax), NEW port \in Ports PROVE modules[port] # im[1]
  <2>1. SUFFICES ASSUME modules[port] = im[1] PROVE FALSE
    OBVIOUS
  <2>2. InPort(port, load.page, FilePage(im[1], im[2]).at)
    BY <1>13, <1>14, <2>1 DEF Owns
  <2>3. port # load.port
    BY <1>0, <1>1, <1>9, <2>1, PlugInAssumption DEF Basis, LoadIs
  <2>4. {Home(load.port), Home(load.port) + 1} \cap {Home(port), Home(port) + 1} = {}
    BY <1>1, <2>3, PortFacts
  <2>5. ~(load.page < 8)
    BY <1>1, <1>7, PageFacts
  <2> QED BY <1>6, <2>2, <2>4, <2>5 DEF InPort
<1>15. LeftOver(load.page) \/ (hepax # NoHepax /\ load.page = hepax.rom_page)
  BY <1>12, <1>14 DEF LeftOver, PageExists, There, im
<1>16. ASSUME im[1] = load.module PROVE IsHepax(load.module) /\ load.page = Home(load.port)
  <2>1. im[2] \in 1..(load.i - 1)
    <3>1. Len(File[load.module].page) \in Nat /\ im[2] \in 1..Len(File[load.module].page)
      BY <1>1, <1>9, <1>16, FileFacts DEF PagesOf
    <3>2. ~(im[2] >= load.i)
      <4>1. SUFFICES ASSUME im[2] >= load.i PROVE FALSE
        OBVIOUS
      <4>2. im[2] \in PagesOf(load.module) /\ Image(load.module, im[2]) \in created
        BY <1>8, <1>9, <1>16
      <4> QED BY <1>0, <1>1, <4>1, <4>2 DEF Basis, CreatedIs
    <3> QED BY <1>1, <3>1, <3>2
  <2>2. ASSUME ~(IsHepax(load.module) /\ im[2] < MAX_BANK) PROVE FALSE
    <3>1. /\ Half(FilePage(load.module, im[2]).at) # Half(Here.at)
          /\ Half(FilePage(load.module, im[2]).at) # "any" /\ Half(Here.at) # "any"
      <4>1. load.i \in 1..Len(File[load.module].page)
        BY <1>1 DEF PagesOf
      <4>2. File[load.module].page[load.i].ram /\ File[load.module].page[load.i].bank = 0
        BY <1>4 DEF Here
      <4>3. File[load.module].page[im[2]].bank = 0
        BY <1>10, <1>16 DEF FilePage
      <4>4. /\ Half(File[load.module].page[im[2]].at) # Half(File[load.module].page[load.i].at)
            /\ "any" \notin {Half(File[load.module].page[im[2]].at), Half(File[load.module].page[load.i].at)}
        <5> DEFINE m == load.module
                   j == load.i
        <5> HIDE DEF m, j
        <5>1. m \in Modules /\ j \in 1..Len(File[m].page) /\ File[m].page[j].ram /\ File[m].page[j].bank = 0
          BY <1>1, <4>1, <4>2 DEF m, j
        <5>2. \A i \in 1..(j - 1) : File[m].page[i].bank = 0 /\ ~(IsHepax(m) /\ i < MAX_BANK) =>
                /\ Half(File[m].page[i].at) # Half(File[m].page[j].at)
                /\ "any" \notin {Half(File[m].page[i].at), Half(File[m].page[j].at)}
          BY <5>1, PlugInFileAssumption
        <5>3. im[2] \in 1..(j - 1) /\ File[m].page[im[2]].bank = 0 /\ ~(IsHepax(m) /\ im[2] < MAX_BANK)
          BY <2>1, <2>2, <4>3 DEF m, j
        <5>4. /\ Half(File[m].page[im[2]].at) # Half(File[m].page[j].at)
              /\ "any" \notin {Half(File[m].page[im[2]].at), Half(File[m].page[j].at)}
          BY ONLY <5>2, <5>3
        <5> QED BY <5>4 DEF m, j
      <4> QED BY <4>4 DEF FilePage, Here
    <3>2. ~IsRom(im)
      BY <1>16, <2>2 DEF IsRom
    <3>3. Owns(load.port, im[1])
      BY <1>1, <1>16 DEF Owns
    <3>4. Half(FilePage(im[1], im[2]).at) \in {"any", Half(load.page)}
      BY <1>1, <1>13, <3>2, <3>3
    <3> QED BY <1>6, <1>16, <3>1, <3>4
  <2>3. IsRom(im) /\ IsHepax(load.module)
    BY <1>16, <2>2 DEF IsRom
  <2>4. Image(load.module, 0 + 1) \in created
    BY <1>8, <1>11, <1>16, <2>3
  <2>5. IsAt(mem, 0, Home(load.port), Image(load.module, 0 + 1))
    BY <1>1, <1>2, <2>3, <2>4 DEF Ordered, RomIsThere
  <2>6. IsAt(mem, 0, Home(load.port), im)
    BY <1>11, <1>16, <2>3, <2>5
  <2>7. load.page = Home(load.port)
    BY <1>0, <1>1, <1>2, <1>8, <2>6, PortFacts DEF Basis, Fits
  <2> QED BY <2>3, <2>7
<1> QED BY <1>15, <1>16 DEF im

LEMMA CreatingOrder ==
  ASSUME Always, Creating, PagesAreGood, Ordered, upset' = {}
  PROVE  Ordered'
<1>0. Always /\ Basis
  BY BasisIs
<1>1. /\ mem'[load.bank][load.page] = NewPage(NewImage, Here.ram)
      /\ \A b \in Banks, p \in Pages : b # load.bank \/ p # load.page => mem'[b][p] = mem[b][p]
      /\ \A b \in Banks, p \in Pages : There(mem', b, p) <=> (There(mem, b, p) \/ (b = load.bank /\ p = load.page))
      /\ load.bank \in Banks /\ load.page \in Pages /\ ~There(mem, load.bank, load.page)
      /\ load.step = "create" /\ Loading /\ Placing /\ ~Filling
      /\ load.module \in Modules /\ load.i \in PagesOf(load.module) /\ load.i \in Nat \ {0} /\ load.port \in Ports
      /\ NewImage \in Images /\ NewImage \notin created
      /\ UNCHANGED <<hepax, moving, modules>>
      /\ created' = created \cup {NewImage}
      /\ load.page # moving /\ (load.bank = HIDDEN_BANK => There(mem, 0, load.page))
  BY <1>0, CreatingIs DEF Creating
<1>2. /\ Loading' /\ load'.module = load.module /\ load'.port = load.port
  BY CreatingAlways
<1>3. /\ \A b \in Banks, p \in Pages, image \in created : IsAt(mem', b, p, image) <=> IsAt(mem, b, p, image)
      /\ \A b \in Banks, p \in Pages : IsAt(mem', b, p, NewImage) <=> (b = load.bank /\ p = load.page)
  BY <1>0, CreatingKeeps
<1>4. /\ 0 \in Banks /\ 0 \in RomBanks /\ HIDDEN_BANK \in Banks /\ HIDDEN_BANK \notin RomBanks /\ RomBanks \subseteq Banks
      /\ 0 # HIDDEN_BANK /\ \A b \in Banks : b \in RomBanks \/ b = HIDDEN_BANK
  BY BankFacts
<1>5. /\ hepax # NoHepax => hepax.rom_page \in Pages /\ HomePage \in Pages /\ load.page # HomePage
      /\ moving # NotMoving => moving \in Pages
      /\ HomePage' = HomePage
  BY <1>0, <1>1, WhereThingsAre, LoadElsewhere DEF Basis, HomePage
<1>6. Here \in FilePages /\ Here = FilePage(NewImage[1], NewImage[2]) /\ NewImage[1] = load.module /\ NewImage[2] = load.i
  BY <1>1, FileFacts DEF Here, FilePage, NewImage, Image
<1>7. load.bank \in RomBanks /\ hepax # NoHepax => load.page # hepax.rom_page
  BY <1>0, NotInRom
<1> HIDE DEF HomePage
<1>8. InPlace'
  <2> SUFFICES ASSUME NEW b \in Banks, NEW p \in Pages, NEW image \in created', IsAt(mem', b, p, image),
                      ~(IsRom(image) /\ hepax # NoHepax), NEW port \in Ports, Owns(port, image[1])
               PROVE  LET at == FilePage(image[1], image[2]).at IN InPort(port, p, at) /\ Half(at) \in {"any", Half(p)}
    BY <1>1, <1>2 DEF InPlace, Owns
  <2>1. CASE image \in created
    BY <1>3, <2>1 DEF Ordered, InPlace
  <2>2. CASE image = NewImage
    <3>1. b = load.bank /\ p = load.page
      BY <1>3, <2>2
    <3>2. port = load.port
      <4>1. modules[port] # load.module
        BY <1>0, <1>1, NotListed
      <4> QED BY <1>6, <2>2, <4>1 DEF Owns
    <3>3. load.page \in {Home(load.port), Home(load.port) + 1} \/ (load.page < 8 /\ Half(Here.at) = "system")
      BY <1>0, <1>1 DEF Basis, LoadIs
    <3>4. Half(Here.at) = "any" \/ Half(Here.at) = Half(load.page)
      BY <1>0, <1>1 DEF Basis, LoadIs
    <3> QED BY <1>6, <2>2, <3>1, <3>2, <3>3, <3>4 DEF InPort
  <2> QED BY <1>1, <2>1, <2>2
<1>9. RomIsThere'
  <2>1. ASSUME hepax # NoHepax, NEW b \in RomBanks PROVE IsAt(mem', b, hepax.rom_page, Image(hepax.module, b + 1))
    <3>1. IsAt(mem, b, hepax.rom_page, Image(hepax.module, b + 1))
      BY <2>1 DEF Ordered, RomIsThere
    <3>2. b # load.bank \/ hepax.rom_page # load.page
      BY <1>1, <3>1 DEF IsAt
    <3> QED BY <1>1, <1>4, <1>5, <2>1, <3>1, <3>2 DEF IsAt
  <2>2. ASSUME IsHepax(load.module)
        PROVE  /\ hepax = NoHepax
               /\ \A b \in RomBanks : Image(load.module, b + 1) \in created' =>
                    IsAt(mem', b, Home(load.port), Image(load.module, b + 1))
    <3>1. hepax = NoHepax
      BY <1>1, <2>2 DEF Ordered, RomIsThere
    <3>2. ASSUME NEW b \in RomBanks, Image(load.module, b + 1) \in created'
          PROVE  IsAt(mem', b, Home(load.port), Image(load.module, b + 1))
      <4>1. CASE Image(load.module, b + 1) \in created
        <5>1. IsAt(mem, b, Home(load.port), Image(load.module, b + 1))
          BY <1>1, <2>2, <4>1 DEF Ordered, RomIsThere
        <5> QED BY <1>1, <1>3, <1>4, <4>1, <5>1, PortFacts
      <4>2. CASE Image(load.module, b + 1) = NewImage
        <5>1. load.i = b + 1
          BY <4>2 DEF NewImage, Image
        <5>2. Here.bank = b /\ ~Here.ram /\ Half(Here.at) = "lower"
          BY <1>1, <2>2, <5>1, FileFacts DEF Here, FilePage
        <5>3. load.bank = b
          BY <1>0, <1>1, <5>2 DEF Basis, LoadIs
        <5>4. load.page \in {Home(load.port), Home(load.port) + 1} /\ Half(load.page) = "lower"
          BY <1>0, <1>1, <5>2 DEF Basis, LoadIs
        <5>5. load.page = Home(load.port)
          BY <1>1, <5>4, HalfOfHome
        <5> QED BY <1>1, <1>3, <4>2, <5>3, <5>5
      <4> QED BY <1>1, <3>2, <4>1, <4>2
    <3> QED BY <3>1, <3>2
  <2> QED BY <1>1, <1>2, <2>1, <2>2 DEF RomIsThere
<1>10. HomeIsFree'
  <2>1. ASSUME hepax # NoHepax, hepax.rom_page # HomePage
        PROVE  /\ \A b \in RomBanks \ {0} : ~There(mem', b, HomePage)
               /\ moving # HomePage => ~There(mem', HIDDEN_BANK, HomePage)
    <3>1. /\ \A b \in RomBanks \ {0} : ~There(mem, b, HomePage)
          /\ moving # HomePage => ~There(mem, HIDDEN_BANK, HomePage)
      BY <2>1 DEF Ordered, HomeIsFree
    <3> QED BY <1>1, <1>4, <1>5, <2>1, <3>1
  <2>2. moving # NotMoving => \A b \in RomBanks : ~There(mem', b, moving)
    BY <1>1, <1>4, <1>5 DEF Ordered, HomeIsFree
  <2> QED BY <1>1, <1>5, <2>1, <2>2 DEF HomeIsFree
<1>11. ASSUME load.bank = HIDDEN_BANK
       PROVE  /\ LeftOver(load.page) \/ (hepax # NoHepax /\ load.page = hepax.rom_page)
              /\ mem[0][load.page].image[1] = load.module => IsHepax(load.module) /\ load.page = Home(load.port)
  <2>1. There(mem, 0, load.page)
    BY <1>1, <1>11
  <2>2. mem[0][load.page].image \in created
    BY <1>1, <1>4, <2>1 DEF PagesAreGood
  <2> QED BY <1>11, <2>1, <2>2, HidesUnderRom
<1>12. ASSUME NEW p \in Pages, LeftOver(p) PROVE LeftOver(p)'
  <2>1. There(mem, 0, p)
    BY <1>12 DEF LeftOver, PageExists, There
  <2>2. mem'[0][p] = mem[0][p]
    BY <1>1, <1>4, <2>1
  <2> QED BY <1>1, <1>12, <2>2 DEF LeftOver, PageExists
<1>13. RamIsHidden'
  <2>1. ASSUME NEW p \in Pages, There(mem', HIDDEN_BANK, p)
        PROVE  LeftOver(p)' \/ (hepax # NoHepax /\ p \in {hepax.rom_page, moving})
    <3>1. CASE There(mem, HIDDEN_BANK, p)
      BY <1>12, <3>1 DEF Ordered, RamIsHidden
    <3>2. CASE load.bank = HIDDEN_BANK /\ p = load.page
      BY <1>11, <1>12, <3>2
    <3> QED BY <1>1, <1>4, <2>1, <3>1, <3>2
  <2>2. ASSUME NEW p \in Pages, There(mem', HIDDEN_BANK, p), There(mem', 0, p), mem'[0][p].image[1] = load.module
        PROVE  IsHepax(load.module) /\ p = Home(load.port)
    <3>1. CASE load.bank = HIDDEN_BANK /\ p = load.page
      <4>1. mem'[0][p] = mem[0][p]
        BY <1>1, <1>4, <3>1
      <4> QED BY <1>11, <2>2, <3>1, <4>1
    <3>2. CASE load.bank = 0 /\ p = load.page
      <4>1. There(mem, HIDDEN_BANK, p) /\ ~There(mem, 0, p)
        BY <1>1, <1>4, <2>2, <3>2
      <4>2. ~LeftOver(p)
        BY <4>1 DEF LeftOver, PageExists, There
      <4>3. hepax # NoHepax /\ p \in {hepax.rom_page, moving}
        BY <4>1, <4>2 DEF Ordered, RamIsHidden
      <4> QED BY <1>1, <1>4, <1>7, <3>2, <4>3
    <3>3. CASE p # load.page \/ load.bank \notin {0, HIDDEN_BANK}
      <4>1. There(mem, HIDDEN_BANK, p) /\ There(mem, 0, p) /\ mem'[0][p] = mem[0][p]
        BY <1>1, <1>4, <2>2, <3>3
      <4> QED BY <1>1, <2>2, <4>1 DEF Ordered, RamIsHidden
    <3> QED BY <3>1, <3>2, <3>3
  <2> QED BY <1>1, <1>2, <2>1, <2>2 DEF RamIsHidden
<1> QED BY <1>8, <1>9, <1>10, <1>13 DEF Ordered

LEMMA CreatePageKeeps ==
  ASSUME MInv, CreatePage
  PROVE  MInv'
<1>1. CASE There(mem, load.bank, load.page)
  <2>1. Fail /\ UNCHANGED <<mem, active_bank, bank_group, hepax, moving, awake, deep, modules, last_group, created, upset>>
    BY <1>1 DEF CreatePage, There, PageExists, chip, cpu, history
  <2> QED BY <2>1, FailKeeps
<1>2. CASE ~There(mem, load.bank, load.page)
  <2>1. Creating
    BY <1>2 DEF Creating
  <2>2. Always /\ Basis
    BY BasisIs DEF MInv
  <2>3. upset \subseteq upset'
    BY <2>1, <2>2, CreatingIs
  <2>4. ASSUME "load" \notin upset' PROVE PagesAreGood' /\ LoadStays'
    <3>1. PagesAreGood
      BY <2>3, <2>4 DEF MInv
    <3> QED BY <2>1, <2>2, <2>4, <3>1, CreatingGood
  <2>5. ASSUME upset' = {} PROVE Ordered'
    <3>1. upset = {}
      BY <2>3, <2>5
    <3>2. PagesAreGood /\ Ordered
      BY <3>1 DEF MInv
    <3> QED BY <2>1, <2>2, <2>5, <3>2, CreatingOrder
  <2>6. Always'
    BY <2>1, <2>2, CreatingAlways
  <2> QED BY <2>4, <2>5, <2>6 DEF MInv
<1> QED BY <1>1, <1>2

-----------------------------------------------------------------------------
(* The module is in the list, and its chip on the bus                      *)
Chip(m, port) == [module |-> m, port |-> port, rom_page |-> Home(port)]

LEMMA EndLoadIs ==
  ASSUME Always, EndLoad
  PROVE  /\ Always' /\ ~Loading'
         /\ UNCHANGED <<mem, moving, created, upset>> /\ moving = NotMoving
         /\ load.module \in Modules /\ load.module # Nobody /\ load.port \in Ports /\ modules[load.port] = Nobody /\ Loading
         /\ \A port \in Ports : modules'[port] = IF port = load.port THEN load.module ELSE modules[port]
         /\ \A i \in PagesOf(load.module) : Image(load.module, i) \in created /\ i < load.i
         /\ IsHepax(load.module) => hepax' = Chip(load.module, load.port) /\ hepax' # NoHepax
                                    /\ hepax'.module = load.module
                                    /\ hepax'.rom_page = Home(load.port) /\ HomePage' = Home(load.port)
         /\ ~IsHepax(load.module) => hepax' = hepax /\ HomePage' = HomePage
<1>0. Always /\ Basis
  BY BasisIs
<1>1. load.step = "read" /\ load.i > Len(File[load.module].page) /\ moving = NotMoving /\ Loading
  BY DEF EndLoad, At, ByQueue, Loading
<1>2. load.module \in Modules /\ load.port \in Ports /\ modules[load.port] = Nobody /\ load.i \in Nat \ {0}
  BY <1>0, <1>1 DEF Basis, LoadIs
<1>3. load.module # Nobody /\ Len(File[load.module].page) \in Nat
  BY <1>2, PlugInAssumption, FileFacts
<1>4. /\ UNCHANGED <<mem, active_bank, bank_group, moving, awake, deep, last_group, created, upset>>
      /\ modules' = [modules EXCEPT ![load.port] = load.module]
      /\ hepax' = IF IsHepax(load.module) THEN Chip(load.module, load.port) ELSE hepax
      /\ load' = Idle(load.group)
  BY DEF EndLoad, map, cpu, history, Chip
<1>5. modules \in [Ports -> Modules \cup {Nobody}]
  BY <1>0 DEF Always, Types
<1>6. /\ modules' \in [Ports -> Modules \cup {Nobody}]
      /\ \A port \in Ports : modules'[port] = IF port = load.port THEN load.module ELSE modules[port]
  BY <1>2, <1>4, <1>5
<1>7. \A i \in PagesOf(load.module) : Image(load.module, i) \in created /\ i < load.i
  <2> SUFFICES ASSUME NEW i \in PagesOf(load.module) PROVE Image(load.module, i) \in created /\ i < load.i
    OBVIOUS
  <2>1. i \in 1..(load.i - 1) /\ i < load.i
    BY <1>1, <1>2, <1>3 DEF PagesOf
  <2>2. Image(load.module, i) \in created
    BY <1>0, <1>1, <2>1 DEF Basis, CreatedIs
  <2> QED BY <2>1, <2>2
<1>8. Home(load.port) \in Pages /\ load.port \in 0..4
  BY <1>2, PortFacts
<1>9. /\ Chip(load.module, load.port) \in HepaxRecords /\ Chip(load.module, load.port).module = load.module
      /\ Chip(load.module, load.port).port = load.port /\ Chip(load.module, load.port).rom_page = Home(load.port)
      /\ Chip(load.module, load.port) # NoHepax
  BY <1>2, <1>3, <1>8 DEF Chip, HepaxRecords, NoHepax
<1>10. load'.step = "idle" /\ ~Loading' /\ ~Placing'
  BY <1>4 DEF Idle, Loading, Placing
<1>11. LoadIs'
  <2>1. load.group \in [1..MAX_BANK_GROUP -> Nat]
    BY <1>0 DEF Basis, LoadIs
  <2> QED BY <1>4, <1>10, <2>1, IdleIs DEF LoadIs
<1>12. CreatedIs'
  <2>1. ASSUME NEW port \in Ports, modules'[port] # Nobody, NEW i \in PagesOf(modules'[port])
        PROVE  Image(modules'[port], i) \in created
    BY <1>0, <1>6, <1>7, <2>1 DEF Basis, CreatedIs
  <2> QED BY <1>0, <1>4, <1>10, <2>1 DEF Basis, CreatedIs
<1>13. Types'
  <2>1. hepax' \in HepaxRecords
    BY <1>0, <1>4, <1>9 DEF Basis
  <2> QED BY <1>0, <1>4, <1>6, <2>1 DEF Always, Types
<1>14. CASE IsHepax(load.module)
  <2>1. /\ hepax' = Chip(load.module, load.port) /\ hepax' # NoHepax /\ hepax'.module = load.module
        /\ hepax'.port = load.port /\ hepax'.rom_page = Home(load.port) /\ HomePage' = Home(load.port)
    BY <1>4, <1>9, <1>14 DEF HomePage
  <2>2. ChipPlaces'
    BY <1>1, <1>2, <1>4, <1>6, <1>8, <1>14, <2>1 DEF ChipPlaces
  <2>3. DeepIs'
    BY <1>0, <1>1, <1>4, <2>1 DEF Always, DeepIs
  <2> QED BY <1>0, <1>1, <1>2, <1>3, <1>4, <1>6, <1>7, <1>10, <1>11, <1>12, <1>13, <1>14, <2>1, <2>2, <2>3
          DEF Always
<1>15. CASE ~IsHepax(load.module)
  <2>1. hepax' = hepax /\ HomePage' = HomePage
    BY <1>4, <1>15 DEF HomePage
  <2>2. hepax # NoHepax => modules'[hepax.port] = hepax.module
    <3>1. SUFFICES ASSUME hepax # NoHepax PROVE modules'[hepax.port] = hepax.module
      OBVIOUS
    <3>2. hepax.module \in Modules /\ hepax.port \in Ports /\ modules[hepax.port] = hepax.module
      BY <1>0, <3>1 DEF Basis, ChipPlaces
    <3> QED BY <1>2, <1>6, <3>2, PlugInAssumption
  <2>3. ChipPlaces'
    BY <1>0, <1>1, <1>4, <2>1, <2>2 DEF Basis, ChipPlaces
  <2>4. DeepIs'
    BY <1>0, <1>1, <1>4, <2>1 DEF Always, DeepIs
  <2> QED BY <1>0, <1>1, <1>2, <1>3, <1>4, <1>6, <1>7, <1>10, <1>11, <1>12, <1>13, <1>15, <2>1, <2>3, <2>4
          DEF Always
<1> QED BY <1>14, <1>15

LEMMA EndLoadKeeps ==
  ASSUME MInv, EndLoad
  PROVE  MInv'
<1>0. MInv /\ Basis /\ Always
  BY BasisIs DEF MInv
<1>1. /\ Always' /\ ~Loading'
      /\ UNCHANGED <<mem, moving, created, upset>> /\ moving = NotMoving
      /\ load.module \in Modules /\ load.module # Nobody /\ load.port \in Ports /\ modules[load.port] = Nobody /\ Loading
      /\ \A port \in Ports : modules'[port] = IF port = load.port THEN load.module ELSE modules[port]
      /\ \A i \in PagesOf(load.module) : Image(load.module, i) \in created /\ i < load.i
      /\ IsHepax(load.module) => hepax' = Chip(load.module, load.port) /\ hepax' # NoHepax
                                 /\ hepax'.module = load.module
                                 /\ hepax'.rom_page = Home(load.port) /\ HomePage' = Home(load.port)
      /\ ~IsHepax(load.module) => hepax' = hepax /\ HomePage' = HomePage
  BY <1>0, EndLoadIs
<1> HIDE DEF HomePage
<1>2. ASSUME "load" \notin upset' PROVE PagesAreGood' /\ LoadStays'
  <2>1. PagesAreGood
    BY <1>0, <1>1, <1>2 DEF MInv
  <2>2. ASSUME NEW image \in created, Complete(modules', load', image) PROVE Complete(modules, load, image)
    <3>1. image[2] \in PagesOf(image[1])
      BY <1>0 DEF Basis, CreatedIs
    <3>2. PICK port \in Ports : modules'[port] = image[1]
      BY <1>1, <2>2 DEF Complete, Loading
    <3>3. CASE port = load.port
      BY <1>1, <3>1, <3>2, <3>3 DEF Complete, Loading
    <3>4. CASE port # load.port
      BY <1>1, <3>2, <3>4 DEF Complete
    <3> QED BY <3>3, <3>4
  <2>3. PagesAreGood'
    BY <1>1, <2>1, <2>2, GoodMoved
  <2>4. ~Filling'
    BY <1>1 DEF Filling, Loading
  <2> QED BY <2>3, <2>4 DEF LoadStays
<1>3. ASSUME upset' = {} PROVE Ordered'
  <2>1. Ordered
    BY <1>0, <1>1, <1>3 DEF MInv
  <2>2. ASSUME IsHepax(load.module) PROVE hepax = NoHepax
    BY <1>1, <2>1, <2>2 DEF Ordered, RomIsThere
  <2>3. InPlace'
    <3> SUFFICES ASSUME NEW b \in Banks, NEW p \in Pages, NEW image \in created, IsAt(mem, b, p, image),
                        ~(IsRom(image) /\ hepax' # NoHepax), NEW port \in Ports, modules'[port] = image[1]
                 PROVE  LET at == FilePage(image[1], image[2]).at IN InPort(port, p, at) /\ Half(at) \in {"any", Half(p)}
      BY <1>1 DEF InPlace, Owns
    <3>1. Owns(port, image[1])
      BY <1>1 DEF Owns
    <3>2. ~(IsRom(image) /\ hepax # NoHepax)
      BY <1>1
    <3> QED BY <2>1, <3>1, <3>2 DEF Ordered, InPlace
  <2>4. RomIsThere'
    <3>1. CASE IsHepax(load.module)
      <4>1. \A b \in RomBanks : IsAt(mem, b, Home(load.port), Image(load.module, b + 1))
        BY <1>1, <2>1, <3>1, FileFacts DEF Ordered, RomIsThere
      <4> QED BY <1>1, <3>1, <4>1 DEF RomIsThere
    <3>2. CASE ~IsHepax(load.module)
      BY <1>1, <2>1, <3>2 DEF Ordered, RomIsThere
    <3> QED BY <3>1, <3>2
  <2>5. HomeIsFree'
    <3>1. CASE IsHepax(load.module)
      BY <1>1, <3>1 DEF HomeIsFree
    <3>2. CASE ~IsHepax(load.module)
      BY <1>1, <2>1, <3>2 DEF Ordered, HomeIsFree
    <3> QED BY <3>1, <3>2
  <2>6. RamIsHidden'
    <3>1. ASSUME NEW p \in Pages, There(mem, HIDDEN_BANK, p)
          PROVE  LeftOver(p)' \/ (hepax' # NoHepax /\ p \in {hepax'.rom_page, moving'})
      <4>1. CASE LeftOver(p) /\ mem[0][p].image[1] # load.module
        BY <1>1, <4>1 DEF LeftOver, PageExists
      <4>2. CASE LeftOver(p) /\ mem[0][p].image[1] = load.module
        <5>1. There(mem, 0, p)
          BY <4>2 DEF LeftOver, PageExists, There
        <5>2. IsHepax(load.module) /\ p = Home(load.port)
          BY <1>1, <2>1, <3>1, <4>2, <5>1 DEF Ordered, RamIsHidden
        <5> QED BY <1>1, <5>2
      <4>3. CASE hepax # NoHepax /\ p \in {hepax.rom_page, moving}
        BY <1>1, <2>2, <4>3
      <4> QED BY <2>1, <3>1, <4>1, <4>2, <4>3 DEF Ordered, RamIsHidden
    <3> QED BY <1>1, <3>1 DEF RamIsHidden
  <2> QED BY <2>3, <2>4, <2>5, <2>6 DEF Ordered
<1> QED BY <1>1, <1>2, <1>3 DEF MInv

-----------------------------------------------------------------------------
LEMMA InitIsWhole ==
  ASSUME MInit
  PROVE  MInv
<1>1. /\ mem = [b \in Banks |-> [p \in Pages |-> NoPage]]
      /\ active_bank = [p \in Pages |-> 0] /\ bank_group = [p \in Pages |-> 0]
      /\ hepax = NoHepax /\ moving = NotMoving /\ awake = TRUE /\ deep = FALSE
      /\ modules = [port \in Ports |-> Nobody] /\ load = Idle(NoGroups) /\ last_group = 0
      /\ created = {} /\ upset = {}
  BY DEF MInit
<1>2. NoGroups \in [1..MAX_BANK_GROUP -> Nat]
  BY DEF NoGroups
<1>3. load.step = "idle" /\ ~Loading /\ ~Placing /\ ~Filling
  BY <1>1 DEF Idle, Loading, Placing, Filling
<1>4. \A b \in Banks, p \in Pages : ~There(mem, b, p)
  BY <1>1 DEF There
<1>5. Memory(mem)
  BY <1>1, <1>4 DEF Memory
<1>6. Types
  <2>1. hepax \in HepaxRecords
    BY <1>1 DEF NoHepax, HepaxRecords
  <2>2. active_bank \in [Pages -> RomBanks] /\ bank_group \in [Pages -> Nat]
    BY <1>1, BankFacts
  <2>3. modules \in [Ports -> Modules \cup {Nobody}] /\ last_group \in Nat
    BY <1>1
  <2> QED BY <1>1, <1>5, <2>1, <2>2, <2>3 DEF Types
<1>7. LoadIs
  BY <1>1, <1>2, <1>3, IdleIs DEF LoadIs
<1>8. ChipPlaces /\ DeepIs
  BY <1>1 DEF ChipPlaces, DeepIs
<1>9. Fits(mem, created)
  BY <1>1, <1>4 DEF Fits
<1>10. CreatedIs
  BY <1>1, <1>3 DEF CreatedIs
<1>11. PagesAreGood /\ LoadStays
  BY <1>3, <1>4 DEF PagesAreGood, LoadStays
<1>12. Ordered
  BY <1>1, <1>3, <1>4, BankFacts DEF Ordered, InPlace, RomIsThere, HomeIsFree, RamIsHidden
<1> QED BY <1>6, <1>7, <1>8, <1>9, <1>10, <1>11, <1>12 DEF MInv, Always

LEMMA NextKeeps ==
  ASSUME MInv, [MNext]_mvars
  PROVE  MInv'
<1>1. CASE GuiThread
  BY <1>1, StartLoadKeeps, ReadPageKeeps, CreatePageKeeps, SetGroupKeeps, LoadWordKeeps, WriteEnableKeeps, EndLoadKeeps,
     RestoreKeeps DEF GuiThread
<1>2. CASE SimThread
  BY <1>2, RomblkKeeps, WptogKeeps, EnbankKeeps, WriteKeeps, FinishMoveKeeps, WakeKeeps, ResetIsKept, SleepKeeps
     DEF SimThread
<1>3. CASE UNCHANGED mvars
  <2>1. UNCHANGED <<mem, active_bank, bank_group, hepax, moving, awake, deep, modules, load, last_group, created, upset>>
    BY <1>3 DEF mvars, map, chip, cpu, loader, history
  <2>2. UNCHANGED HomePage /\ UNCHANGED Here
    BY <2>1 DEF HomePage, Here
  <2>3. Always'
    BY <2>1, <2>2 DEF MInv, Always, Types, LoadIs, ChipPlaces, DeepIs, CreatedIs, Loading, Placing, Filling
  <2>4. "load" \notin upset => PagesAreGood' /\ LoadStays'
    BY <2>1, <2>2 DEF MInv, PagesAreGood, LoadStays, Filling
  <2>5. ASSUME upset = {} PROVE Ordered'
    <3>1. \A p \in Pages : LeftOver(p)' <=> LeftOver(p)
      BY <2>1 DEF LeftOver, PageExists
    <3>2. Ordered
      BY <2>5 DEF MInv
    <3>3. InPlace' /\ RomIsThere' /\ HomeIsFree'
      BY <2>1, <2>2, <3>2 DEF Ordered, InPlace, RomIsThere, HomeIsFree, Owns, Loading
    <3>4. RamIsHidden'
      BY <2>1, <3>1, <3>2 DEF Ordered, RamIsHidden, Loading
    <3> QED BY <3>3, <3>4 DEF Ordered
  <2> QED BY <2>1, <2>3, <2>4, <2>5 DEF MInv
<1> QED BY <1>1, <1>2, <1>3 DEF MNext

-----------------------------------------------------------------------------
(* What the invariant says                                                 *)
LEMMA OneSlot ==
  ASSUME Fits(mem, created), NEW image \in created, NEW b \in Banks, NEW p \in Pages, IsAt(mem, b, p, image)
  PROVE  SlotsOf(image) = {<<b, p>>}
<1>1. ASSUME NEW s \in SlotsOf(image) PROVE s = <<b, p>>
  <2>1. s \in Banks \X Pages /\ IsAt(mem, s[1], s[2], image)
    BY <1>1 DEF SlotsOf, Slots, IsAt, PageExists, There
  <2>2. s[1] \in Banks /\ s[2] \in Pages /\ s = <<s[1], s[2]>>
    BY <2>1
  <2>3. s[1] = b /\ s[2] = p
    BY <2>1, <2>2 DEF Fits
  <2> QED BY <2>2, <2>3
<1>2. <<b, p>> \in SlotsOf(image)
  BY DEF SlotsOf, Slots, IsAt, PageExists, There
<1> QED BY <1>1, <1>2

LEMMA InvariantIsWhole ==
  ASSUME MInv
  PROVE  MemoryIsWhole
<1>0. MInv /\ Basis /\ Always
  BY BasisIs DEF MInv
<1>1. MTypeOK
  <2>1. \A b \in Banks, p \in Pages :
          mem[b][p] # NoPage => mem[b][p] \in PageType /\ (mem[b][p].write_enable => mem[b][p].ram)
    BY <1>0 DEF Basis, Memory, There
  <2>2. load.bank \in Banks /\ load.page \in Pages \cup {8} /\ load.k \in Words
    BY <1>0 DEF Basis, LoadIs
  <2> QED BY <1>0, <2>1, <2>2 DEF Always, Types, HepaxRecords, MTypeOK
<1>2. ASSUME NEW image \in created PROVE \E b \in Banks, p \in Pages : IsAt(mem, b, p, image) /\ SlotsOf(image) = {<<b, p>>}
  <2>1. PICK b \in Banks, p \in Pages : IsAt(mem, b, p, image)
    BY <1>0 DEF Basis, Fits
  <2>2. SlotsOf(image) = {<<b, p>>}
    BY <1>0, <2>1, OneSlot DEF Basis
  <2> QED BY <2>1, <2>2
<1>3. ASSUME NEW image \in created PROVE Cardinality(SlotsOf(image)) = 1
  <2>1. PICK b \in Banks, p \in Pages : SlotsOf(image) = {<<b, p>>}
    BY <1>2
  <2> QED BY <2>1, FS_Singleton
<1>4. ASSUME "load" \notin upset, NEW port \in Ports, modules[port] # Nobody, NEW i \in 1..Len(File[modules[port]].page)
      PROVE  \E s \in SlotsOf(Image(modules[port], i)) :
               LET page == mem[s[1]][s[2]]
               IN  /\ page.ram = File[modules[port]].page[i].ram
                   /\ \A k \in Words : page.word[k] = Image(modules[port], i) \/ (page.ram /\ page.word[k] = Program)
  <2> DEFINE m == modules[port]
             im == Image(m, i)
  <2>1. im \in created
    BY <1>0, <1>4 DEF Basis, CreatedIs, PagesOf
  <2>2. im[1] = m /\ im[2] = i
    BY DEF Image
  <2> HIDE DEF im
  <2>3. PICK b \in Banks, p \in Pages : IsAt(mem, b, p, im) /\ SlotsOf(im) = {<<b, p>>}
    BY <1>2, <2>1
  <2>4. Complete(modules, load, im)
    BY <2>2 DEF Complete
  <2>5. PagesAreGood
    BY <1>0, <1>4 DEF MInv
  <2>6. GoodPage(mem[b][p]) /\ mem[b][p].image = im
    BY <2>3, <2>4, <2>5 DEF PagesAreGood, IsAt
  <2>7. mem[b][p].ram = File[m].page[i].ram /\ \A k \in Words : WordIs(mem[b][p], im, k)
    BY <2>2, <2>6 DEF GoodPage, FilePage
  <2>8. <<b, p>> \in SlotsOf(im) /\ <<b, p>>[1] = b /\ <<b, p>>[2] = p
    BY <2>3
  <2>9. LET page == mem[<<b, p>>[1]][<<b, p>>[2]]
        IN  page.ram = File[m].page[i].ram /\ \A k \in Words : page.word[k] = im \/ (page.ram /\ page.word[k] = Program)
    BY <2>7, <2>8 DEF WordIs
  <2> QED BY <2>8, <2>9 DEF im
<1>5. ModulesAreWhole
  BY <1>3, <1>4 DEF ModulesAreWhole
<1>6. ASSUME hepax # NoHepax, moving = NotMoving, upset = {}
      PROVE  /\ \A b \in RomBanks : SlotsOf(Image(hepax.module, b + 1)) = {<<b, hepax.rom_page>>}
             /\ \A p \in Pages : PageExists(HIDDEN_BANK, p) => p = hepax.rom_page \/ LeftOver(p)
             /\ deep => hepax.rom_page = Home(hepax.port)
  <2>1. Ordered
    BY <1>0, <1>6 DEF MInv
  <2>2. /\ hepax.module \in Modules /\ IsHepax(hepax.module) /\ hepax.port \in Ports
        /\ modules[hepax.port] = hepax.module /\ hepax.rom_page \in Pages
    BY <1>0, <1>6 DEF Basis, ChipPlaces
  <2>3. ASSUME NEW b \in RomBanks PROVE SlotsOf(Image(hepax.module, b + 1)) = {<<b, hepax.rom_page>>}
    <3>1. IsAt(mem, b, hepax.rom_page, Image(hepax.module, b + 1))
      BY <1>6, <2>1 DEF Ordered, RomIsThere
    <3>2. b + 1 \in PagesOf(hepax.module) /\ hepax.module # Nobody /\ b \in Banks
      BY <2>2, FileFacts, PlugInAssumption, BankFacts
    <3>3. Image(hepax.module, b + 1) \in created
      BY <1>0, <2>2, <3>2 DEF Basis, CreatedIs
    <3> QED BY <1>0, <2>2, <3>1, <3>2, <3>3, OneSlot DEF Basis
  <2>4. ASSUME NEW p \in Pages, PageExists(HIDDEN_BANK, p) PROVE p = hepax.rom_page \/ LeftOver(p)
    <3>1. p # moving
      BY <1>6, PageFacts
    <3> QED BY <2>1, <2>4, <3>1 DEF Ordered, RamIsHidden, PageExists, There
  <2>5. deep => hepax.rom_page = Home(hepax.port)
    BY <1>0, <1>6 DEF Always, DeepIs, HomePage
  <2> QED BY <2>3, <2>4, <2>5
<1>7. HepaxIsWhole
  BY <1>6 DEF HepaxIsWhole
<1> QED BY <1>1, <1>5, <1>7 DEF MemoryIsWhole

(* The memory is whole: every page that was created is in exactly one      *)
(* slot, every module in the list is in memory as its file has it, and the *)
(* ROM of the HEPAX is where its register says, whatever the order of the  *)
(* GUI thread's loads and the simulator's moves (sim_read_mod1_file,       *)
(* hepax_move_rom_to_page).                                                *)
THEOREM MemoryIsWholeCorrect == MSpec => []MemoryIsWhole
<1>1. MInit => MInv
  BY InitIsWhole
<1>2. MInv /\ [MNext]_mvars => MInv'
  BY NextKeeps
<1>3. MInv => MemoryIsWhole
  BY InvariantIsWhole
<1> QED BY <1>1, <1>2, <1>3, PTL DEF MSpec
===========================================================================
