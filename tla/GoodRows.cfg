SPECIFICATION CatalogSpec
CONSTANTS
  e1 = e1
  h1 = h1
  h2 = h2
  h3 = h3
  p1 = p1
  p2 = p2
  b1 = b1
  g1 = g1
  f1 = f1
  f2 = f2
  w400 = w400
  w800 = w800
  k1 = k1
  m1 = m1
  m2 = m2
  a1 = a1
  a2 = a2
  s1 = s1
  s2 = s2
  None = none
  NoSKU = nosku
  Blank = blank
  OptionNames <- Names2
  OptionValues <- Values3
  SKU <- SKU1
  Grids <- Grids3
  Editor <- Editors1
  MaxVariants = 2
  CategoryId <- Categories3
  Name <- Names
  Segment <- Segments
  Chosen <- Chosen1
  Product <- Products2
  Brand <- Brands1
  Category <- Shelves1
  Form <- Forms2
  MaxImages = 2
  Size <- Sizes2
  Confirmer <- Confirmer1
  Maker <- Makers2
  Batches <- Batches2
  ImportSKU <- SKUs2
  Post <- Posts2
  Save <- Saves2
INVARIANT
  GoodRowsLand
CHECK_DEADLOCK FALSE
