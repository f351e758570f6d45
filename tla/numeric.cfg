CONSTANTS
  SlotInts = {0, 1, 2, 3, 4, 5, 6, 7, 8, 9, 10, 11, 12, 13, 14, 15, 16, 17, 31, 32, 85, 100, 126, 127, 128, 129, 170, 240, 254, 255}
  SlotQuarters = {0, 1, 3, 4, 5, 28, 30, 31, 32, 33, 35, 36, 40, 48, 60, 62, 63, 64, 80, 448, 496, 508, 512, 528, 640, 960, 1008, 1020, 1024, 1040, 1280, 4096}
SPECIFICATION Spec
INVARIANTS RegisterHoldsValue TrapsAgree
