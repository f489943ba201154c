SPECIFICATION Spec
CONSTANTS
    HalfWord = 8
    RetryInterval = 5
    SeenTtl = 11
    MaxLag = 3
PROPERTIES
    CountsDown
