SPECIFICATION Spec
CONSTANTS
    ContentLength <- TheLength
    Cookie <- TheCookie
    ContentDisposition <- TheDisposition
    Name <- TheName
    Word = 70000
    NoRange = NoRange
    NoEnd = NoEnd
    IntMax = 3
    SizeWord = 1000
    Alphabet = {0, 1, 10, 13, 32, 34, 35, 37, 38, 44, 45, 52, 58, 59, 61, 63, 66, 125, 126, 255}
    MaxLen = 3
CHECK_DEADLOCK FALSE
INVARIANTS
    NothingFromBehind
    FieldsAreThePieces
    ClientTextArrives
    MultipartArrives
    Base64RoundTrip
    LengthArrives
    RangeIsWhatItSays
