SPECIFICATION Spec
CONSTANTS
    Clients = {"c1"}
    Paths = {"file"}
    HeaderLength = 2
    FileLength = 2
    HeaderBuffer = 4
    BodyBuffer = 1
    SocketBuffer = 3
INVARIANT
    CallbackGetsChunks
