\* Listings of up to two products; a keyword CPU text ending in ' Core CPU'.
CONSTANTS
    ex41 = ex41
    vq7 = vq7
    ValueError = ValueError
    Numerals <- MCNumerals
    QuadWords = {"Quad-Core"}
    HexaWords = {"Hexa-Core", "Hexa"}
    VServerWords = {"vServer"}
    Products <- MCProducts
SPECIFICATION ParseSpec
\* sls() runs once and the script exits.
CHECK_DEADLOCK FALSE
INVARIANT FreeTextRulesPerSpec
