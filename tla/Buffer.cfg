CONSTANTS
    Byte = {x, y}
    Zero = x
    kBufferPrepend = 1
    kBufferInit = 2
    kBufferExtra = 2
    MaxSent = 8
SPECIFICATION BufferSpec
INVARIANT GrowthBounded
PROPERTY IsPipe
CHECK_DEADLOCK FALSE
